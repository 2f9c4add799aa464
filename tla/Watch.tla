-------------------------------- MODULE Watch --------------------------------
(***************************************************************************)
(* `rk check --watch` and `rk compile --watch`: crates/cli/src/watcher.rs. *)
(*                                                                         *)
(* The file system's watcher puts its events in a channel.  The debouncer  *)
(* thread gathers them in a batch until none comes for a while, or until   *)
(* the batch was held long enough, and hands the batch over to the main    *)
(* loop by a channel without room: it waits until the main loop takes it.  *)
(* The main loop then reads the configuration and the sources again, one   *)
(* by one, and writes its output; the watcher sees it read and write.  A   *)
(* configuration that is wrong or missing ends the run.  The first run is  *)
(* before there is a watcher.                                              *)
(*                                                                         *)
(* Not every change of a source comes as an event that counts: a folder    *)
(* moved with its sources is an event of the folder's path, some kinds are *)
(* left out, and an error of the watcher is dropped.                       *)
(***************************************************************************)
EXTENDS Naturals, Sequences, FiniteSets

CONSTANTS
    Sources,            \* the workspace's files, of is_relevant_path
    Config,             \* config.toml
    Texts,              \* of a file, its absence included
    Faulty,             \* those of a configuration that no run goes on with
    None,               \* not read yet
    RescanThreshold,    \* RESCAN_THRESHOLD
    MaxHold,            \* MAX_HOLD, in events that come without a pause
    MaxQueue            \* bound: changes in the channel

ASSUME WatchAssumption ==
    /\ Config \in Sources /\ Faulty \subseteq Texts /\ None \notin Texts
    /\ RescanThreshold \in Nat /\ MaxHold \in Nat /\ MaxQueue \in Nat

VARIABLES
    disk,       \* [Sources -> Texts]
    queue,      \* the debouncer's channel, oldest first
    thread,     \* where the debouncer is
    batch,      \* how many events its batch has
    rescan,     \* the batch is a Rescan
    held,       \* how many events came since the batch's first
    main,       \* where the main loop is
    left,       \* the sources its run has still to read
    built,      \* [Sources -> Texts \cup {None}]: what it read last
    (* history *)
    unwatched,  \* sources changed before there was a watcher, and not read
                \* since
    unreported  \* sources changed with no event that counts, and not read
                \* since

threadVars == <<thread, batch, rescan, held>>
mainVars   == <<main, left, built>>
unread     == <<unwatched, unreported>>
vars       == <<disk, queue, threadVars, mainVars, unread>>

\* A source changed, the watcher lost track of changes, or neither: a path
\* of rk_build, a folder, or a source that was read.
Event == {"change", "rescan", "irrelevant"}

Watching == thread # "none"

Init ==
    /\ disk \in [Sources -> Texts]
    /\ queue = <<>>
    /\ thread = "none"
    /\ batch = 0
    /\ rescan = FALSE
    /\ held = 0
    /\ main = "first"
    /\ left = Sources
    /\ built = [f \in Sources |-> None]
    /\ unwatched = {} /\ unreported = {}

-----------------------------------------------------------------------------
(* The disk.                                                                 *)

Change(f, t) == disk[f] # t /\ disk' = [disk EXCEPT ![f] = t]

HasRoom == Len(queue) < MaxQueue

\* A change the watcher could not queue is seen as one event that says so.
Write(f, t) ==
    /\ Watching /\ HasRoom /\ Change(f, t)
    /\ \E kind \in {"change", "rescan"} : queue' = Append(queue, kind)
    /\ UNCHANGED <<threadVars, mainVars, unread>>

\* The file comes or goes with its folder, whose event has the folder's path;
\* or its event is of a kind left out; or the watcher gives an error for it.
WriteUnreported(f, t) ==
    /\ Watching /\ Change(f, t)
    /\ \/ HasRoom /\ queue' = Append(queue, "irrelevant")
       \/ UNCHANGED queue
    /\ unreported' = unreported \cup {f}
    /\ UNCHANGED <<threadVars, mainVars, unwatched>>

WriteUnwatched(f, t) ==
    /\ ~Watching /\ Change(f, t)
    /\ unwatched' = unwatched \cup {f}
    /\ UNCHANGED <<queue, threadVars, mainVars, unreported>>

-----------------------------------------------------------------------------
(* The debouncer thread.                                                   *)

\* An event of any path and kind kept.
AddWhatever(e) ==
    IF e = "rescan" \/ batch > RescanThreshold
    THEN batch' = 0 /\ rescan' = TRUE
    ELSE batch' = batch + 1 /\ UNCHANGED rescan

\* Every event kept.
AddWithoutEnd(e) ==
    /\ batch' = IF e = "change" THEN batch + 1 ELSE batch
    /\ rescan' = (rescan \/ e = "rescan")

\* add_notify_event: once the batch is a Rescan, nothing is added; it becomes
\* one when the watcher says so or it has too many events; the events of
\* other paths, and of reading, are left out.
Add(e) ==
    IF rescan THEN UNCHANGED <<batch, rescan>>
    ELSE IF e = "rescan" \/ batch > RescanThreshold
    THEN batch' = 0 /\ rescan' = TRUE
    ELSE batch' = (IF e = "change" THEN batch + 1 ELSE batch) /\ UNCHANGED rescan

Take == queue # <<>> /\ queue' = Tail(queue) /\ Add(Head(queue))

\* A batch is held as long as events come.
NeverUp == FALSE

\* MAX_HOLD has passed since the batch's first event.
TimeIsUp == held = MaxHold

BeginBatch ==
    /\ thread = "idle" /\ Take
    /\ thread' = "gathering"
    /\ held' = 0
    /\ UNCHANGED <<disk, mainVars, unread>>

Gather ==
    /\ thread = "gathering" /\ ~TimeIsUp /\ Take
    /\ held' = IF held < MaxHold THEN held + 1 ELSE held
    /\ UNCHANGED <<disk, thread, mainVars, unread>>

Handed == IF batch = 0 /\ ~rescan THEN thread' = "idle" ELSE thread' = "sending"

\* A pause, or the time is up.
EndBatch ==
    /\ thread = "gathering"
    /\ queue = <<>> \/ TimeIsUp
    /\ Handed
    /\ UNCHANGED <<disk, queue, batch, rescan, held, mainVars, unread>>

NewBatch == thread' = "idle" /\ batch' = 0 /\ rescan' = FALSE /\ held' = 0

Rerun == main' = "running" /\ left' = Sources

\* Nothing is handed over to a main loop that is not waiting.
HandOverOrDrop ==
    /\ thread = "sending"
    /\ NewBatch
    /\ IF main = "waiting" THEN Rerun ELSE UNCHANGED <<main, left>>
    /\ UNCHANGED <<disk, queue, built, unread>>

\* The handler's send and the main loop's recv are one step.
HandOver ==
    /\ thread = "sending" /\ main = "waiting"
    /\ NewBatch
    /\ Rerun
    /\ UNCHANGED <<disk, queue, built, unread>>

-----------------------------------------------------------------------------
(* The main loop: watch_and_run.                                           *)

Running == main \in {"first", "running"}

\* open_workspace reads the configuration first.  The watcher sees a file
\* opened.
ReadSource(f) ==
    /\ Running /\ f \in left /\ (f = Config \/ Config \notin left)
    /\ built' = [built EXCEPT ![f] = disk[f]]
    /\ left' = left \ {f}
    /\ unwatched' = unwatched \ {f} /\ unreported' = unreported \ {f}
    /\ \/ Watching /\ HasRoom /\ queue' = Append(queue, "irrelevant")
       \/ UNCHANGED queue
    /\ UNCHANGED <<disk, threadVars, main>>

\* init_db gives nothing, with the sources read or not.
Failed == Config \notin left /\ built[Config] \in Faulty

\* `rk compile` writes in rk_build what it compiled, if it could, and the
\* watcher sees it; `rk check` writes nothing.  The output's place in the
\* channel is past the bound.
EndRun ==
    /\ main = "running" /\ (left = {} \/ Failed)
    /\ main' = "waiting" /\ left' = {}
    /\ \/ ~Failed /\ queue' = Append(queue, "irrelevant")
       \/ UNCHANGED queue
    /\ UNCHANGED <<disk, threadVars, built, unread>>

\* The first run ends, and then the watcher starts.
EndFirstRun ==
    /\ main = "first" /\ (left = {} \/ Failed)
    /\ main' = "starting" /\ left' = {}
    /\ UNCHANGED <<disk, queue, threadVars, built, unread>>

StartWatching ==
    /\ main = "starting"
    /\ main' = "waiting"
    /\ thread' = "idle"
    /\ UNCHANGED <<disk, queue, batch, rescan, held, left, built, unread>>

-----------------------------------------------------------------------------
Debouncer == BeginBatch \/ Gather \/ EndBatch
MainLoop  == (\E f \in Sources : ReadSource(f)) \/ EndRun \/ EndFirstRun \/ StartWatching

Disk      == \E f \in Sources, t \in Texts : Write(f, t) \/ WriteUnreported(f, t) \/ WriteUnwatched(f, t)

Next == Disk \/ Debouncer \/ HandOver \/ MainLoop

Spec == Init /\ [][Next]_vars

\* Both threads run on; the disk owes nothing.
FairSpec == Spec /\ WF_vars(BeginBatch) /\ WF_vars(Gather) /\ WF_vars(EndBatch)
                 /\ WF_vars(HandOver) /\ WF_vars(MainLoop)
-----------------------------------------------------------------------------
(* Properties.                                                             *)

\* Every variable holds what the code's types allow, and a batch no more
\* than its limit.
TypeOK ==
    /\ disk \in [Sources -> Texts]
    /\ queue \in Seq(Event)
    /\ thread \in {"none", "idle", "gathering", "sending"}
    /\ batch \in 0..(RescanThreshold + 1)
    /\ rescan \in BOOLEAN
    /\ held \in 0..MaxHold
    /\ main \in {"first", "starting", "waiting", "running"}
    /\ left \subseteq Sources
    /\ built \in [Sources -> Texts \cup {None}]
    /\ unwatched \subseteq Sources /\ unreported \subseteq Sources

\* The main loop waits, with nothing on its way to it that counts.
Settled == main = "waiting" /\ thread = "idle" /\ (\A i \in DOMAIN queue : queue[i] = "irrelevant")

\* What was built last, of all files but some, is what is on the disk; the
\* sources only if the configuration was one to go on with.
IsBuiltBut(some) ==
    \A f \in Sources \ some : built[f] = disk[f] \/ (f # Config /\ built[Config] \in Faulty)

\* A change that came as an event that counts is never lost, not even during
\* a run, after the run read the file: once all is settled, it is built.  Not
\* the changes between the first run's reading and the watcher's start, which
\* watch_and_run leaves open, nor those that no such event tells of.
SettledIsBuilt == Settled => IsBuiltBut(unwatched \cup unreported)

\* A batch that has a change leads to a run, although changes never pause.
BatchesAreRun == (thread = "gathering" /\ (batch > 0 \/ rescan)) ~> main = "running"

\* When the disk stays as it is, the runs stop: a run's own output starts no
\* other one.
RunsStop == <>[][UNCHANGED disk]_vars => <>[](main = "waiting")
=============================================================================
