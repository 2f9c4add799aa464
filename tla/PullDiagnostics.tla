--------------------------- MODULE PullDiagnostics ---------------------------
(***************************************************************************)
(* Pulled diagnostics: crates/server/src/capabilties/diagnostics.rs, and   *)
(* the requests and the cancellation of crates/server/src/lib.rs.          *)
(*                                                                         *)
(* The client holds, for each file it was told of, a list of diagnostics   *)
(* and its result id, a fingerprint.  A pull runs on a worker, on a        *)
(* snapshot of the database, while the main loop goes on.  A write of the  *)
(* main loop (an edit, a watched change) cancels the snapshots and waits   *)
(* until they are dropped, so a pull sees one revision, but any of its     *)
(* computations can be cancelled once a write waits.                       *)
(*                                                                         *)
(* A client that cancels its pull is answered at once; the worker goes on  *)
(* with it, its snapshot held, and the client may pull again beside it.    *)
(*                                                                         *)
(* A file's diagnostics depend on every file, so a write gives each file   *)
(* any diagnostics, or takes it away.  The client pulls the documents it   *)
(* has open one by one, and the others all at once.                        *)
(***************************************************************************)
EXTENDS Naturals

CONSTANTS
    Files,
    Opened,         \* the documents open in the editor
    Lists,          \* lists of diagnostics
    Clean,          \* the empty list
    Ids,
    Fingerprint,    \* [Lists -> Ids]
    Absent,         \* not in the file set
    None,           \* no id, no answer, no write
    MaxWrites,      \* bound: writes
    MaxCancels      \* bound: requests the client cancels

Truth  == [Files -> Lists \cup {Absent}]
Kept   == [id : Ids, items : Lists]
Report == [kind : {"full"}, id : Ids, items : Lists] \cup [kind : {"unchanged"}, id : Ids]

ASSUME PullAssumption ==
    /\ Opened \subseteq Files
    /\ Clean \in Lists
    /\ Fingerprint \in [Lists -> Ids]
    /\ Absent \notin Lists
    /\ None \notin Lists \cup Ids \cup Kept
    /\ MaxWrites \in Nat /\ MaxCancels \in Nat

VARIABLES
    (* the server *)
    truth,      \* the file set, and the diagnostics of each of its files
    waiting,    \* the write the main loop waits to make, or None
    phase,      \* where the workspace pull the client awaits is
    previous,   \* the ids the pull came with
    done,       \* the files the phase is done with
    checked,    \* the files whose check ended
    pass,       \* the call graph and the lints' pass were built
    computed,   \* the files whose diagnostics were computed
    docs,       \* the documents being pulled
    dropped,    \* how many cancelled workspace pulls still run
    (* the client *)
    held,       \* [Files -> Kept \cup {None}]
    answer,     \* the workspace pull's reports, on their way, or None
    (* bounds and history *)
    writes, cancels,
    fresh,      \* the last answer computed every file, and no write ended since
    said        \* [Files -> SUBSET (Lists \cup {Absent})]: all truth ever was

serverVars == <<truth, waiting, phase, previous, done, checked, pass, computed, docs, dropped>>
clientVars == <<held, answer>>
countVars  == <<writes, cancels, fresh, said>>
vars       == <<serverVars, clientVars, countVars>>

InSet == {f \in Files : truth[f] # Absent}
NoIds == [f \in Files |-> None]
Id(f) == IF held[f] = None THEN None ELSE held[f].id

\* A query unwinds once a write waits; one past its last look at that ends.
MayBeCancelled == waiting # None

Init ==
    /\ truth \in Truth
    /\ waiting = None
    /\ phase = "idle"
    /\ previous = NoIds
    /\ done = {} /\ checked = {} /\ pass = FALSE /\ computed = {}
    /\ docs = {} /\ dropped = 0
    /\ held = [f \in Files |-> None]
    /\ answer = None
    /\ writes = 0 /\ cancels = 0 /\ fresh = FALSE
    /\ said = [f \in Files |-> {truth[f]}]

-----------------------------------------------------------------------------
(* The main loop: a write waits for the snapshots, and no request is read  *)
(* meanwhile.                                                              *)

BeginWrite(t) ==
    /\ waiting = None /\ writes < MaxWrites
    /\ waiting' = t
    /\ writes' = writes + 1
    /\ UNCHANGED <<truth, phase, previous, done, checked, pass, computed, docs, dropped,
                   clientVars, cancels, fresh, said>>

EndWrite ==
    /\ waiting # None /\ phase = "idle" /\ docs = {} /\ dropped = 0
    /\ truth' = waiting
    /\ waiting' = None
    /\ fresh' = FALSE
    /\ said' = [f \in Files |-> said[f] \cup {waiting[f]}]
    /\ UNCHANGED <<phase, previous, done, checked, pass, computed, docs, dropped,
                   clientVars, writes, cancels>>

\* Nothing is left of the pull the client awaits.
NoPull ==
    /\ phase' = "idle"
    /\ previous' = NoIds
    /\ done' = {} /\ checked' = {} /\ pass' = FALSE /\ computed' = {}

\* $/cancelRequest: the client's request is answered at once, its pull runs on,
\* and what that answers later is dropped.
CancelPull ==
    /\ waiting = None /\ phase # "idle" /\ cancels < MaxCancels
    /\ NoPull
    /\ dropped' = dropped + 1
    /\ cancels' = cancels + 1
    /\ UNCHANGED <<truth, waiting, docs, clientVars, writes, fresh, said>>

\* A cancelled pull ends: its answer finds no request, and its snapshot goes.
EndDropped ==
    /\ dropped > 0
    /\ dropped' = dropped - 1
    /\ UNCHANGED <<truth, waiting, phase, previous, done, checked, pass, computed, docs,
                   clientVars, countVars>>

-----------------------------------------------------------------------------
(* The workspace pull: every file is indexed, every file is checked, the   *)
(* graph and the pass are built, and every file is linted.                 *)

StartPull ==
    /\ waiting = None /\ phase = "idle" /\ answer = None
    /\ phase' = "config"
    /\ previous' = [f \in Files |-> Id(f)]
    /\ UNCHANGED <<truth, waiting, done, checked, pass, computed, docs, dropped,
                   clientVars, countVars>>

\* The configuration is read outside any catch: cancelled there, the whole
\* request fails.
FailPull ==
    /\ phase = "config" /\ MayBeCancelled
    /\ NoPull
    /\ UNCHANGED <<truth, waiting, docs, dropped, clientVars, countVars>>

\* The indexing has no result: a file it is cancelled in is found cancelled
\* by the check.
IndexFiles ==
    /\ phase = "config"
    /\ phase' = "check"
    /\ UNCHANGED <<truth, waiting, previous, done, checked, pass, computed, docs, dropped,
                   clientVars, countVars>>

CheckFile(f) ==
    /\ phase = "check" /\ f \in InSet \ done
    /\ done' = done \cup {f}
    /\ \/ checked' = checked \cup {f}
       \/ MayBeCancelled /\ UNCHANGED checked
    /\ UNCHANGED <<truth, waiting, phase, previous, pass, computed, docs, dropped,
                   clientVars, countVars>>

BuildPass ==
    /\ phase = "check" /\ done = InSet
    /\ phase' = "lint"
    /\ done' = {}
    /\ \/ pass' = TRUE
       \/ MayBeCancelled /\ pass' = FALSE
    /\ UNCHANGED <<truth, waiting, previous, checked, computed, docs, dropped,
                   clientVars, countVars>>

LintFile(f) ==
    /\ phase = "lint" /\ f \in InSet \ done
    /\ done' = done \cup {f}
    /\ \/ pass /\ f \in checked /\ computed' = computed \cup {f}
       \/ (MayBeCancelled \/ ~pass \/ f \notin checked) /\ UNCHANGED computed
    /\ UNCHANGED <<truth, waiting, phase, previous, checked, pass, docs, dropped,
                   clientVars, countVars>>

-----------------------------------------------------------------------------
(* The reports.                                                            *)

FullWithoutId(items) == [kind |-> "full", id |-> None, items |-> items]
Full(items)   == [kind |-> "full", id |-> Fingerprint[items], items |-> items]
Unchanged(id) == [kind |-> "unchanged", id |-> id]

\* A client that holds the file keeps what it holds.
ComparedByFile(items, id) == IF id # None THEN Unchanged(id) ELSE Full(items)

\* The diagnostics, or nothing when the client holds their fingerprint.
Compared(items, id) == IF id = Fingerprint[items] THEN Unchanged(id) ELSE Full(items)

\* A file whose check a write cancelled is told as clean.
CancelledIsClean ==
    [f \in InSet \cup {g \in Files : previous[g] # None} |->
        IF f \in computed THEN Compared(truth[f], previous[f]) ELSE Full(Clean)]

\* A file whose check a write cancelled gets the id of no diagnostics.
CancelledHasNewId ==
    [f \in {g \in InSet : g \in computed \/ previous[g] # None}
              \cup {g \in Files \ InSet : previous[g] # None} |->
        IF f \in computed THEN Compared(truth[f], previous[f])
        ELSE IF f \in InSet THEN Unchanged(Fingerprint[Clean]) ELSE Full(Clean)]

\* A file the set has no more is not told of.
WithoutDeleted ==
    [f \in {g \in InSet : g \in computed \/ previous[g] # None} |->
        IF f \in computed THEN Compared(truth[f], previous[f]) ELSE Unchanged(previous[f])]

\* A file whose computation a write cancelled keeps what the client holds, or
\* waits for the next pull; one the client holds and the set has no more is
\* told as clean.
Reports ==
    [f \in {g \in InSet : g \in computed \/ previous[g] # None}
              \cup {g \in Files \ InSet : previous[g] # None} |->
        IF f \in computed THEN Compared(truth[f], previous[f])
        ELSE IF f \in InSet THEN Unchanged(previous[f]) ELSE Full(Clean)]

\* The reports handed to the main loop before the snapshot is dropped.
RespondToTheLoop ==
    /\ phase = "lint" /\ done = InSet /\ waiting = None
    /\ NoPull
    /\ answer' = Reports
    /\ fresh' = (computed = InSet)
    /\ UNCHANGED <<truth, waiting, docs, dropped, held, writes, cancels, said>>

Respond ==
    /\ phase = "lint" /\ done = InSet
    /\ NoPull
    /\ answer' = Reports
    /\ fresh' = (computed = InSet)
    /\ UNCHANGED <<truth, waiting, docs, dropped, held, writes, cancels, said>>

\* What the client makes of a report.
Applied(f, report) ==
    IF report.kind = "full" THEN [id |-> report.id, items |-> report.items]
    ELSE [id |-> report.id, items |-> held[f].items]

-----------------------------------------------------------------------------
(* The document pull: nothing is caught, so cancelled it fails whole.      *)

StartDocument(f) ==
    /\ waiting = None /\ f \in Opened \ docs
    /\ docs' = docs \cup {f}
    /\ UNCHANGED <<truth, waiting, phase, previous, done, checked, pass, computed, dropped,
                   clientVars, countVars>>

\* The client takes the report in the same step: it keeps no other pull of a
\* document, so nothing of it is read on the way.
RespondDocument(f) ==
    /\ f \in docs
    /\ docs' = docs \ {f}
    /\ held' = [held EXCEPT ![f] = Applied(f,
           IF f \in InSet THEN Compared(truth[f], Id(f)) ELSE Full(Clean))]
    /\ UNCHANGED <<truth, waiting, phase, previous, done, checked, pass, computed, dropped,
                   answer, countVars>>

FailDocument(f) ==
    /\ f \in docs /\ MayBeCancelled
    /\ docs' = docs \ {f}
    /\ UNCHANGED <<truth, waiting, phase, previous, done, checked, pass, computed, dropped,
                   clientVars, countVars>>

-----------------------------------------------------------------------------
(* The client.                                                             *)

\* What a workspace pull says of an open document is left to its own pull.
TakeAnswer ==
    /\ answer # None
    /\ held' = [f \in Files |-> IF f \in DOMAIN answer \ Opened
                                THEN Applied(f, answer[f]) ELSE held[f]]
    /\ answer' = None
    /\ fresh' = FALSE
    /\ UNCHANGED <<serverVars, writes, cancels, said>>

-----------------------------------------------------------------------------
Worker == \/ FailPull \/ IndexFiles \/ BuildPass \/ Respond
          \/ \E f \in Files : CheckFile(f) \/ LintFile(f)

DocumentWorker(f) == RespondDocument(f) \/ FailDocument(f)

Client == TakeAnswer \/ StartPull

Next ==
    \/ \E t \in Truth : BeginWrite(t)
    \/ EndWrite \/ CancelPull \/ Worker \/ EndDropped \/ Client
    \/ \E f \in Opened : DocumentWorker(f) \/ StartDocument(f)

Spec == Init /\ [][Next]_vars

\* Workers end, the main loop goes on, and a client goes on pulling.
FairSpec ==
    /\ Spec
    /\ WF_vars(EndWrite) /\ WF_vars(Worker) /\ WF_vars(EndDropped) /\ WF_vars(Client)
    /\ \A f \in Opened : WF_vars(DocumentWorker(f)) /\ WF_vars(StartDocument(f))
-----------------------------------------------------------------------------
(* Properties.                                                             *)

\* Every variable holds what the code's types allow, every report has an id,
\* and a check's results are of files of the set.
TypeOK ==
    /\ truth \in Truth
    /\ waiting \in Truth \cup {None}
    /\ phase \in {"idle", "config", "check", "lint"}
    /\ previous \in [Files -> Ids \cup {None}]
    /\ done \subseteq Files /\ checked \subseteq Files /\ computed \subseteq Files
    /\ pass \in BOOLEAN
    /\ docs \subseteq Opened
    /\ held \in [Files -> Kept \cup {None}]
    /\ answer # None => /\ DOMAIN answer \subseteq Files
                        /\ \A f \in DOMAIN answer : answer[f] \in Report
    /\ writes \in 0..MaxWrites /\ cancels \in 0..MaxCancels /\ dropped \in 0..cancels
    /\ fresh \in BOOLEAN
    /\ said \in [Files -> SUBSET (Lists \cup {Absent})]

\* What the client shows of a file, the check said of it at some time, or
\* the file was at some time not in the set: a check a write cancelled makes
\* no file clean.
ShownWasSaid ==
    \A f \in Files : held[f] # None =>
        \/ held[f].items \in said[f]
        \/ held[f].items = Clean /\ Absent \in said[f]

\* The id the client holds for a file is the fingerprint of the list it
\* holds: with another, the file's next change could be told as none.
IdsAreOfWhatIsHeld ==
    \A f \in Files : held[f] # None => held[f].id = Fingerprint[held[f].items]

\* What the client holds of f is, as far as an id tells, what the server says.
InStep(f) ==
    IF truth[f] = Absent THEN held[f] = None \/ held[f].items = Clean
    ELSE held[f] # None /\ held[f].id = Fingerprint[truth[f]]

\* One answer no write disturbed brings the client in step with the server in
\* every file it does not have open, whatever pulls were cancelled before, those
\* that still run included.
UndisturbedPullsAreComplete ==
    [][fresh /\ answer # None /\ answer' = None => \A f \in Files \ Opened : InStep(f)']_vars

\* A write the main loop waits to make is made: no pull keeps its snapshot
\* while it waits for the main loop.
WritesGoThrough == []<>(waiting = None)

\* Once the writes stop, the client comes in step in every file for good.
ClientCatchesUp == <>[](\A f \in Files : InStep(f))
=============================================================================
