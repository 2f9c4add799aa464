---------------------------- MODULE Watch_proofs ----------------------------
(***************************************************************************)
(* Proofs about Watch: no change that an event told of is lost, a batch    *)
(* with a change reaches a run, and without a change there are only so     *)
(* many steps to a rest.                                                   *)
(***************************************************************************)
EXTENDS Watch, Functions, FiniteSetTheorems, TLAPS

USE WatchAssumption DEF WatchAssumption

-----------------------------------------------------------------------------
(* Types.                                                                  *)

\* The first state has the types.
LEMMA InitTypes == Init => TypeOK
<1> SUFFICES ASSUME Init PROVE TypeOK
  OBVIOUS
<1>1. batch \in 0..(RescanThreshold + 1) /\ held \in 0..MaxHold
  BY DEF Init
<1>2. queue \in Seq(Event)
  BY DEF Init
<1> QED
  BY <1>1, <1>2 DEF Init, TypeOK

\* An event added keeps a batch within its limit (add_notify_event).
LEMMA AddTypes ==
    ASSUME TypeOK, NEW e, Add(e)
    PROVE  batch' \in 0..(RescanThreshold + 1) /\ rescan' \in BOOLEAN
<1>1. batch \in 0..(RescanThreshold + 1) /\ rescan \in BOOLEAN
  BY DEF TypeOK
<1>2. CASE rescan
  BY <1>1, <1>2 DEF Add
<1>3. CASE ~rescan /\ (e = "rescan" \/ batch > RescanThreshold)
  <2>1. batch' = 0 /\ rescan' = TRUE
    BY <1>1, <1>3 DEF Add
  <2> QED
    BY <2>1
<1>4. CASE ~rescan /\ ~(e = "rescan" \/ batch > RescanThreshold)
  <2>1. batch' \in {batch, batch + 1} /\ rescan' = rescan
    BY <1>4 DEF Add
  <2> QED
    BY <1>1, <1>4, <2>1
<1> QED
  BY <1>2, <1>3, <1>4

\* In every reachable state, every variable holds what the code's types allow,
\* and a batch is within its limit.
THEOREM WatchTypesHold == Spec => []TypeOK
<1>1. Init => TypeOK
  BY InitTypes
<1>2. TypeOK /\ [Next]_vars => TypeOK'
  <2> SUFFICES ASSUME TypeOK, [Next]_vars PROVE TypeOK'
    OBVIOUS
  <2>1. CASE Disk
    <3>1. PICK f \in Sources, t \in Texts :
            Write(f, t) \/ WriteUnreported(f, t) \/ WriteUnwatched(f, t)
      BY <2>1 DEF Disk
    <3>2. disk' \in [Sources -> Texts] /\ UNCHANGED <<threadVars, mainVars>>
      BY <3>1 DEF TypeOK, Write, WriteUnreported, WriteUnwatched, Change
    <3>3. unwatched' \subseteq Sources /\ unreported' \subseteq Sources
      BY <3>1 DEF TypeOK, Write, WriteUnreported, WriteUnwatched, unread
    <3>4. queue' \in Seq(Event)
      <4>1. \A e \in Event : Append(queue, e) \in Seq(Event)
        BY DEF TypeOK
      <4>2. queue' = queue \/ \E e \in Event : queue' = Append(queue, e)
        BY <3>1 DEF Write, WriteUnreported, WriteUnwatched, Event
      <4> QED
        BY <4>1, <4>2 DEF TypeOK
    <3> QED
      BY <3>2, <3>3, <3>4 DEF TypeOK, threadVars, mainVars
  <2>2. ASSUME Take, UNCHANGED <<disk, mainVars, unread>>,
               thread' \in {"idle", "gathering"}, held' \in 0..MaxHold
        PROVE  TypeOK'
    <3>1. queue' \in Seq(Event)
      BY <2>2 DEF TypeOK, Take
    <3>2. batch' \in 0..(RescanThreshold + 1) /\ rescan' \in BOOLEAN
      BY <2>2, AddTypes DEF Take
    <3> QED
      BY <2>2, <3>1, <3>2 DEF TypeOK, mainVars, unread
  <2>3. CASE Debouncer
    <3>1. CASE BeginBatch
      BY <2>2, <3>1 DEF BeginBatch
    <3>2. CASE Gather
      <4>1. held' \in 0..MaxHold
        BY <3>2 DEF TypeOK, Gather
      <4> QED
        BY <2>2, <3>2, <4>1 DEF Gather
    <3>3. CASE EndBatch
      BY <3>3 DEF TypeOK, EndBatch, Handed, mainVars, unread
    <3> QED
      BY <2>3, <3>1, <3>2, <3>3 DEF Debouncer
  <2>4. CASE HandOver
    <3>1. batch' = 0 /\ held' = 0 /\ rescan' = FALSE /\ thread' = "idle" /\ main' = "running"
          /\ left' = Sources /\ UNCHANGED <<disk, queue, built, unread>>
      BY <2>4 DEF HandOver, NewBatch, Rerun
    <3>2. batch' \in 0..(RescanThreshold + 1) /\ held' \in 0..MaxHold
      BY <3>1
    <3> QED
      BY <3>1, <3>2 DEF TypeOK, unread
  <2>5. CASE MainLoop
    <3>1. ASSUME NEW f \in Sources, ReadSource(f) PROVE TypeOK'
      <4>1. queue' \in Seq(Event)
        BY <3>1 DEF TypeOK, ReadSource, Event
      <4>2. built' \in [Sources -> Texts \cup {None}]
        BY <3>1 DEF TypeOK, ReadSource
      <4> QED
        BY <3>1, <4>1, <4>2 DEF TypeOK, ReadSource, threadVars
    <3>2. CASE EndRun
      <4>1. queue' \in Seq(Event)
        BY <3>2 DEF TypeOK, EndRun, Event
      <4> QED
        BY <3>2, <4>1 DEF TypeOK, EndRun, threadVars, unread
    <3>3. CASE EndFirstRun \/ StartWatching
      BY <3>3 DEF TypeOK, EndFirstRun, StartWatching, threadVars, unread
    <3> QED
      BY <2>5, <3>1, <3>2, <3>3 DEF MainLoop
  <2>6. CASE UNCHANGED vars
    BY <2>6 DEF TypeOK, vars, threadVars, mainVars, unread
  <2> QED
    BY <2>1, <2>3, <2>4, <2>5, <2>6 DEF Next
<1> QED
  BY <1>1, <1>2, PTL DEF Spec

-----------------------------------------------------------------------------
(* A source that is not as it was read is known to someone: to the run     *)
(* that has still to read it, or to what is on its way to the next run.    *)
(* But for those no event told of, and while the configuration was wrong.  *)

Queued == \E i \in DOMAIN queue : queue[i] # "irrelevant"

InBatch == thread \in {"gathering", "sending"} /\ (batch > 0 \/ rescan)

Known(f) == \/ built[f] = disk[f]
            \/ f \in unwatched \cup unreported
            \/ f # Config /\ built[Config] \in Faulty
            \/ Running /\ f \in left
            \/ Queued
            \/ InBatch

\* A batch handed over has something, one not begun has nothing, and there is
\* none before the watcher.
BatchInv == /\ thread = "sending" => batch > 0 \/ rescan
            /\ thread \in {"none", "idle"} => batch = 0 /\ ~rescan
            /\ main \in {"first", "starting"} => thread = "none"

\* open_workspace reads the configuration before any source.
ConfigFirst == Running /\ Config \in left => left = Sources

WatchInv == TypeOK /\ BatchInv /\ ConfigFirst /\ \A f \in Sources : Known(f)

\* An event added to a batch with a change leaves it one (add_notify_event).
LEMMA BatchStays ==
    ASSUME WatchInv, Take, thread' = "gathering", batch > 0 \/ rescan
    PROVE  InBatch'
<1>1. Add(Head(queue)) /\ batch \in Nat /\ rescan \in BOOLEAN
  BY DEF WatchInv, TypeOK, Take
<1>2. CASE rescan
  BY <1>1, <1>2 DEF Add, InBatch
<1>3. CASE ~rescan
  BY <1>1, <1>3 DEF Add, InBatch
<1> QED
  BY <1>2, <1>3

\* What is taken from the channel is in the batch (add_notify_event).
LEMMA TakeKeeps ==
    ASSUME WatchInv, Take, thread' = "gathering"
    PROVE  (Queued \/ InBatch => (Queued \/ InBatch)')
<1>1. queue \in Seq(Event) /\ queue # <<>> /\ queue' = Tail(queue) /\ Add(Head(queue))
  BY DEF WatchInv, TypeOK, Take
<1>2. batch \in Nat /\ rescan \in BOOLEAN
  BY DEF WatchInv, TypeOK
<1>3. ASSUME batch > 0 \/ rescan PROVE InBatch'
  BY <1>3, BatchStays
<1>4. ASSUME Head(queue) # "irrelevant" PROVE InBatch'
  <2>1. Head(queue) \in {"change", "rescan"}
    BY <1>1, <1>4 DEF Event
  <2>2. CASE rescan
    BY <1>1, <2>2 DEF Add, InBatch
  <2>3. CASE ~rescan
    BY <1>1, <1>2, <2>1, <2>3 DEF Add, InBatch
  <2> QED
    BY <2>2, <2>3
<1>5. ASSUME Queued, Head(queue) = "irrelevant" PROVE Queued'
  <2>1. PICK i \in DOMAIN queue : queue[i] # "irrelevant"
    BY <1>5 DEF Queued
  <2>2. i \in 2..Len(queue)
    BY <1>1, <1>5, <2>1
  <2>3. i - 1 \in DOMAIN Tail(queue) /\ Tail(queue)[i - 1] = queue[i]
    BY <1>1, <2>2
  <2> QED
    BY <1>1, <2>1, <2>3 DEF Queued
<1> QED
  BY <1>3, <1>4, <1>5 DEF InBatch

\* An event put in the channel leaves what is in it.
LEMMA AppendKeeps ==
    ASSUME TypeOK, NEW e \in Event, queue' = Append(queue, e)
    PROVE  (Queued => Queued') /\ (e # "irrelevant" => Queued')
BY DEF TypeOK, Queued

\* Every step keeps what is known.
LEMMA WatchStep == WatchInv /\ [Next]_vars /\ TypeOK' => WatchInv'
<1> SUFFICES ASSUME WatchInv, [Next]_vars, TypeOK' PROVE WatchInv'
  OBVIOUS
<1>1. TypeOK /\ BatchInv /\ ConfigFirst /\ \A f \in Sources : Known(f)
  BY DEF WatchInv
<1>2. CASE Disk
  <2>1. PICK f \in Sources, t \in Texts :
          Write(f, t) \/ WriteUnreported(f, t) \/ WriteUnwatched(f, t)
    BY <1>2 DEF Disk
  <2>2. UNCHANGED <<threadVars, mainVars>> /\ Change(f, t)
    BY <2>1 DEF Write, WriteUnreported, WriteUnwatched
  <2>3. BatchInv' /\ ConfigFirst' /\ (InBatch => InBatch')
    BY <1>1, <2>2 DEF BatchInv, ConfigFirst, Running, InBatch, threadVars, mainVars
  <2>4. \A g \in Sources \ {f} : disk'[g] = disk[g]
    BY <1>1, <2>2 DEF Change, TypeOK
  <2>5. CASE Write(f, t)
    <3>1. PICK kind \in {"change", "rescan"} : queue' = Append(queue, kind)
      BY <2>5 DEF Write
    <3>2. Queued'
      BY <1>1, <3>1, AppendKeeps DEF Event
    <3> QED
      BY <2>3, <3>2 DEF WatchInv, Known
  <2>6. CASE WriteUnreported(f, t) \/ WriteUnwatched(f, t)
    <3>1. Queued => Queued'
      <4>1. queue' = queue \/ queue' = Append(queue, "irrelevant")
        BY <2>6 DEF WriteUnreported, WriteUnwatched
      <4>2. CASE queue' = queue
        BY <4>2 DEF Queued
      <4>3. CASE queue' = Append(queue, "irrelevant")
        BY <1>1, <4>3, AppendKeeps DEF Event
      <4> QED
        BY <4>1, <4>2, <4>3
    <3>2. (unwatched \cup unreported \cup {f}) \subseteq (unwatched' \cup unreported')
      BY <2>6 DEF WriteUnreported, WriteUnwatched
    <3>3. \A g \in Sources : Known(g)'
      BY <1>1, <2>2, <2>3, <2>4, <3>1, <3>2 DEF Known, Running, mainVars
    <3> QED
      BY <2>3, <3>3 DEF WatchInv
  <2> QED
    BY <2>1, <2>5, <2>6
<1>3. CASE BeginBatch \/ Gather
  <2>1. Take /\ thread' = "gathering" /\ UNCHANGED <<disk, mainVars, unread>>
    BY <1>3 DEF BeginBatch, Gather
  <2>2. Queued \/ InBatch => (Queued \/ InBatch)'
    BY <2>1, TakeKeeps
  <2>3. BatchInv' /\ ConfigFirst'
    BY <1>1, <1>3, <2>1 DEF BatchInv, ConfigFirst, Running, BeginBatch, Gather, mainVars
  <2>4. \A g \in Sources : Known(g)'
    BY <1>1, <2>1, <2>2 DEF Known, Running, mainVars, unread
  <2> QED
    BY <2>3, <2>4 DEF WatchInv
<1>4. CASE EndBatch
  <2>1. UNCHANGED <<disk, queue, batch, rescan, held, mainVars, unread>>
    BY <1>4 DEF EndBatch
  <2>2. BatchInv' /\ (InBatch => InBatch')
    <3>1. thread = "gathering" /\ batch \in Nat /\ rescan \in BOOLEAN
      BY <1>1, <1>4 DEF EndBatch, TypeOK
    <3>2. \/ thread' = "idle" /\ batch = 0 /\ ~rescan
          \/ thread' = "sending" /\ (batch > 0 \/ rescan)
      BY <1>4, <3>1 DEF EndBatch, Handed
    <3>3. main \notin {"first", "starting"} /\ main' = main
      BY <1>1, <2>1, <3>1 DEF BatchInv, mainVars
    <3> QED
      BY <2>1, <3>1, <3>2, <3>3 DEF BatchInv, InBatch
  <2>3. ConfigFirst' /\ (Queued => Queued')
    BY <1>1, <2>1 DEF ConfigFirst, Queued, Running, mainVars
  <2>4. \A g \in Sources : Known(g)'
    BY <1>1, <2>1, <2>2, <2>3 DEF Known, Running, mainVars, unread
  <2> QED
    BY <2>2, <2>3, <2>4 DEF WatchInv
<1>5. CASE HandOver
  <2>1. main' = "running" /\ left' = Sources /\ BatchInv' /\ ConfigFirst'
    BY <1>5 DEF HandOver, Rerun, NewBatch, BatchInv, ConfigFirst
  <2> QED
    BY <2>1 DEF WatchInv, Known, Running
<1>6. ASSUME NEW f \in Sources, ReadSource(f) PROVE WatchInv'
  <2>1. /\ built' = [built EXCEPT ![f] = disk[f]] /\ left' = left \ {f} /\ Running
        /\ unwatched' = unwatched \ {f} /\ unreported' = unreported \ {f}
        /\ (f = Config \/ Config \notin left) /\ UNCHANGED <<disk, threadVars, main>>
    BY <1>6 DEF ReadSource
  <2>2. built'[f] = disk'[f] /\ \A g \in Sources \ {f} : built'[g] = built[g]
    BY <1>1, <2>1 DEF TypeOK
  <2>3. BatchInv' /\ (InBatch <=> InBatch') /\ Running'
    BY <1>1, <2>1 DEF BatchInv, InBatch, Running, threadVars
  <2>4. ConfigFirst'
    BY <2>1 DEF ConfigFirst
  <2>5. Queued => Queued'
    <3>1. queue' = queue \/ queue' = Append(queue, "irrelevant")
      BY <1>6 DEF ReadSource
    <3>2. CASE queue' = queue
      BY <3>2 DEF Queued
    <3>3. CASE queue' = Append(queue, "irrelevant")
      BY <1>1, <3>3, AppendKeeps DEF Event
    <3> QED
      BY <3>1, <3>2, <3>3
  <2>6. ASSUME NEW g \in Sources, g # f PROVE Known(g)'
    <3>1. CASE f = Config
      <4>1. left = Sources
        BY <1>1, <1>6, <2>1, <3>1 DEF ConfigFirst, ReadSource
      <4> QED
        BY <2>1, <2>3, <2>6, <4>1 DEF Known
    <3>2. CASE f # Config
      <4>1. built'[Config] = built[Config]
        BY <2>2, <3>2
      <4> QED
        BY <1>1, <2>1, <2>2, <2>3, <2>5, <2>6, <4>1 DEF Known
    <3> QED
      BY <3>1, <3>2
  <2>7. \A g \in Sources : Known(g)'
    BY <2>2, <2>6 DEF Known
  <2> QED
    BY <2>3, <2>4, <2>7 DEF WatchInv
<1>7. CASE EndRun \/ EndFirstRun
  <2>1. /\ left = {} \/ (Config \notin left /\ built[Config] \in Faulty)
        /\ main' \in {"waiting", "starting"} /\ UNCHANGED <<disk, threadVars, built, unread>>
    BY <1>7 DEF EndRun, EndFirstRun, Failed
  <2>2. Queued => Queued'
    <3>1. queue' = queue \/ queue' = Append(queue, "irrelevant")
      BY <1>7 DEF EndRun, EndFirstRun
    <3>2. CASE queue' = queue
      BY <3>2 DEF Queued
    <3>3. CASE queue' = Append(queue, "irrelevant")
      BY <1>1, <3>3, AppendKeeps DEF Event
    <3> QED
      BY <3>1, <3>2, <3>3
  <2>3. BatchInv' /\ ConfigFirst' /\ (InBatch <=> InBatch')
    BY <1>1, <1>7, <2>1 DEF EndRun, EndFirstRun, BatchInv, ConfigFirst, Running, InBatch, threadVars
  <2>4. \A f \in Sources : Known(f)'
    BY <1>1, <2>1, <2>2, <2>3 DEF Known, unread
  <2> QED
    BY <2>3, <2>4 DEF WatchInv
<1>8. CASE StartWatching
  <2>1. main = "starting" /\ thread' = "idle" /\ UNCHANGED <<disk, queue, batch, rescan, held, left, built, unread>>
    BY <1>8 DEF StartWatching
  <2>2. main' = "waiting" /\ batch = 0 /\ ~rescan
    BY <1>1, <1>8, <2>1 DEF StartWatching, BatchInv
  <2>3. BatchInv' /\ ConfigFirst'
    BY <2>1, <2>2 DEF BatchInv, ConfigFirst, Running
  <2>4. \A f \in Sources : Known(f)'
    BY <1>1, <2>1, <2>2 DEF Known, Queued, InBatch, Running, unread
  <2> QED
    BY <2>3, <2>4 DEF WatchInv
<1>9. CASE UNCHANGED vars
  <2>1. UNCHANGED <<disk, queue, thread, batch, rescan, main, left, built, unwatched, unreported>>
    BY <1>9 DEF vars, threadVars, mainVars, unread
  <2> QED
    BY <1>1, <2>1 DEF WatchInv, BatchInv, ConfigFirst, Known, Queued, InBatch, Running
<1> QED
  BY <1>2, <1>3, <1>4, <1>5, <1>6, <1>7, <1>8, <1>9 DEF Next, Debouncer, MainLoop

\* Once the main loop waits with nothing on its way to it, what it built is
\* what is on the disk: every change of a source that came as an event that
\* counts, whenever it came (debouncer_loop, watch_and_run).  Excepted are the
\* changes made before there was a watcher, those of which no such event came
\* (a folder's, or one the watcher failed to give), and the sources while the
\* configuration read last is one that ends a run.
THEOREM NoReportedChangeIsLost == Spec => []SettledIsBuilt
<1>1. Init => WatchInv
  BY InitTypes DEF Init, WatchInv, BatchInv, ConfigFirst, Known, Running
<1>2. TypeOK' /\ WatchInv /\ [Next]_vars => WatchInv'
  BY WatchStep
<1>3. WatchInv => SettledIsBuilt
  BY DEF WatchInv, Known, Queued, InBatch, BatchInv, Running, SettledIsBuilt, Settled, IsBuiltBut
<1> QED
  BY <1>1, <1>2, <1>3, WatchTypesHold, PTL DEF Spec

-----------------------------------------------------------------------------
(* The runs stop.                                                          *)

\* The changes in a channel, by their places.
ChangesIn(q)  == {i \in DOMAIN q : q[i] # "irrelevant"}
ChangeCount(q) == Cardinality(ChangesIn(q))

\* What is still to be done: a run is more than what its reading and writing
\* put in the channel, and a batch with a change more than the run it leads to.
Run        == 4 * Cardinality(Sources) + 4
ThreadLeft == CASE thread = "gathering" -> 2
                [] thread = "sending"   -> 1
                [] thread \in {"none", "idle"} -> 0
MainLeft   == CASE main = "running"  -> 4 * Cardinality(left) + 4
                [] main = "first"    -> 4 * Cardinality(left) + 2
                [] main = "starting" -> 1
                [] main = "waiting"  -> 0
BatchLeft  == IF InBatch THEN Run ELSE 0
InQueue    == 3 * Len(queue) + Run * ChangeCount(queue)
ToRest     == InQueue + BatchLeft + ThreadLeft + MainLeft

\* A channel has finitely many changes.
LEMMA ChangesAreFinite ==
    ASSUME NEW q \in Seq(Event)
    PROVE  IsFiniteSet(ChangesIn(q)) /\ ChangeCount(q) \in Nat
<1>1. IsFiniteSet(1..Len(q)) /\ ChangesIn(q) \in SUBSET (1..Len(q))
  BY FS_Interval DEF ChangesIn
<1> QED
  BY <1>1, FS_Subset, FS_CardinalityType DEF ChangeCount

\* An irrelevant event put in the channel is no change.
LEMMA IrrelevantCount ==
    ASSUME NEW q \in Seq(Event)
    PROVE  ChangeCount(Append(q, "irrelevant")) = ChangeCount(q)
<1>1. ChangesIn(Append(q, "irrelevant")) = ChangesIn(q)
  BY DEF ChangesIn
<1> QED
  BY <1>1 DEF ChangeCount

\* The oldest event taken from the channel: the others move up by one place.
LEMMA TakenCount ==
    ASSUME NEW q \in Seq(Event), q # <<>>
    PROVE  ChangeCount(q) = IF Head(q) = "irrelevant" THEN ChangeCount(Tail(q))
                            ELSE ChangeCount(Tail(q)) + 1
<1> DEFINE after == ChangesIn(q) \ {1}
           up    == [i \in after |-> i - 1]
<1>1. Tail(q) \in Seq(Event) /\ Len(q) \in Nat /\ DOMAIN q = 1..Len(q)
      /\ DOMAIN Tail(q) = 1..(Len(q) - 1) /\ Len(q) # 0
      /\ \A i \in 1..(Len(q) - 1) : Tail(q)[i] = q[i + 1]
  OBVIOUS
<1>2. after = {i \in 2..Len(q) : q[i] # "irrelevant"}
  BY <1>1 DEF ChangesIn
<1>3. ChangesIn(Tail(q)) = {i \in 1..(Len(q) - 1) : q[i + 1] # "irrelevant"}
  BY <1>1 DEF ChangesIn
<1>4. up \in Bijection(after, ChangesIn(Tail(q)))
  <2>1. up \in [after -> ChangesIn(Tail(q))]
    <3> SUFFICES ASSUME NEW i \in after PROVE i - 1 \in ChangesIn(Tail(q))
      OBVIOUS
    <3>1. i \in 2..Len(q) /\ q[i] # "irrelevant"
      BY <1>2
    <3>2. i - 1 \in 1..(Len(q) - 1) /\ (i - 1) + 1 = i
      BY <1>1, <3>1
    <3> QED
      BY <1>3, <3>1, <3>2
  <2>2. \A i, j \in after : i - 1 = j - 1 => i = j
    <3>1. \A i \in after : i \in 2..Len(q)
      BY <1>2
    <3>2. \A i, j \in 2..Len(q) : i - 1 = j - 1 => i = j
      BY <1>1
    <3> QED
      BY <3>1, <3>2
  <2>3. \A k \in ChangesIn(Tail(q)) : \E i \in after : i - 1 = k
    <3> SUFFICES ASSUME NEW k \in ChangesIn(Tail(q)) PROVE k + 1 \in after /\ (k + 1) - 1 = k
      OBVIOUS
    <3>1. k \in 1..(Len(q) - 1) /\ q[k + 1] # "irrelevant"
      BY <1>3
    <3>2. k + 1 \in 2..Len(q) /\ (k + 1) - 1 = k
      BY <1>1, <3>1
    <3> QED
      BY <1>2, <3>1, <3>2
  <2> HIDE DEF after
  <2>4. up \in Injection(after, ChangesIn(Tail(q)))
    BY <2>1, <2>2 DEF Injection, IsInjective
  <2>5. up \in Surjection(after, ChangesIn(Tail(q)))
    BY <2>1, <2>3 DEF Surjection
  <2> QED
    BY <2>4, <2>5 DEF Bijection
<1>5. IsFiniteSet(ChangesIn(q)) /\ IsFiniteSet(after)
  BY ChangesAreFinite, FS_RemoveElement
<1>6. Cardinality(ChangesIn(Tail(q))) = Cardinality(after)
  BY <1>4, <1>5, FS_Bijection DEF ExistsBijection
<1>7. Cardinality(after) = IF 1 \in ChangesIn(q) THEN Cardinality(ChangesIn(q)) - 1
                           ELSE Cardinality(ChangesIn(q))
  BY <1>5, FS_RemoveElement
<1>8. 1 \in ChangesIn(q) <=> Head(q) # "irrelevant"
  BY <1>1 DEF ChangesIn
<1>9. Cardinality(ChangesIn(q)) \in Nat
  BY ChangesAreFinite DEF ChangeCount
<1> HIDE DEF after
<1> QED
  BY <1>6, <1>7, <1>8, <1>9 DEF ChangeCount

\* On finitely many sources the parts are numbers.
LEMMA RestCounts ==
    ASSUME IsFiniteSet(Sources), TypeOK
    PROVE  /\ Run \in Nat /\ IsFiniteSet(left) /\ Cardinality(left) \in Nat
           /\ Cardinality(Sources) \in Nat
           /\ ThreadLeft \in Nat /\ MainLeft \in Nat /\ BatchLeft \in Nat
           /\ Len(queue) \in Nat /\ ChangeCount(queue) \in Nat
           /\ InQueue \in Nat /\ ToRest \in Nat
<1>1. /\ IsFiniteSet(left) /\ Cardinality(left) \in Nat /\ Cardinality(Sources) \in Nat
  BY FS_Subset, FS_CardinalityType DEF TypeOK
<1>2. Run \in Nat
  BY <1>1 DEF Run
<1>3. ThreadLeft \in Nat
  BY DEF TypeOK, ThreadLeft
<1>4. MainLeft \in Nat
  <2>1. main \in {"first", "starting", "waiting", "running"}
    BY DEF TypeOK
  <2>2. CASE main = "first"
    BY <1>1, <2>2 DEF MainLeft
  <2>3. CASE main = "starting"
    BY <2>3 DEF MainLeft
  <2>4. CASE main = "waiting"
    BY <2>4 DEF MainLeft
  <2>5. CASE main = "running"
    BY <1>1, <2>5 DEF MainLeft
  <2> QED
    BY <2>1, <2>2, <2>3, <2>4, <2>5
<1>5. BatchLeft \in Nat
  BY <1>2 DEF BatchLeft
<1>6. Len(queue) \in Nat /\ ChangeCount(queue) \in Nat
  BY ChangesAreFinite DEF TypeOK
<1>7. \A a, b \in Nat : a * b \in Nat
  OBVIOUS
<1>8. InQueue \in Nat
  BY <1>2, <1>6, <1>7 DEF InQueue
<1> QED
  BY <1>1, <1>2, <1>3, <1>4, <1>5, <1>6, <1>8 DEF ToRest

\* The sums and products of the steps below.
LEMMA QueueSums ==
    ASSUME NEW l \in Nat, NEW c \in Nat, NEW r \in Nat
    PROVE  /\ 3 * (l + 1) + r * c = 3 * l + r * c + 3
           /\ 3 * (l + 1) + r * (c + 1) = 3 * l + r * c + 3 + r
<1>1. r * (c + 1) = r * c + r /\ r * c \in Nat
  OBVIOUS
<1> QED
  BY <1>1

\* An event taken and what it makes of the batch.
LEMMA TakenSums ==
    ASSUME NEW q2 \in Nat, NEW b \in Nat, NEW b2 \in Nat, NEW r \in Nat, NEW q \in Nat,
           \/ q = q2 + 3 /\ b2 <= b
           \/ q = q2 + 3 + r /\ b2 <= r
    PROVE  q2 + b2 + 3 <= q + b
OBVIOUS

\* The ways a step takes from the whole.
LEMMA RestSums ==
    ASSUME NEW q \in Nat, NEW b \in Nat, NEW t \in Nat, NEW m \in Nat,
           NEW q2 \in Nat, NEW b2 \in Nat, NEW t2 \in Nat, NEW m2 \in Nat,
           \/ q2 + b2 + 3 <= q + b /\ t2 <= t + 2 /\ m2 = m
           \/ q2 = q /\ b2 <= b /\ t2 < t /\ m2 = m
           \/ q2 = q /\ b2 + m2 <= b + m /\ t2 < t
           \/ q2 = q /\ b2 = b /\ t2 = t /\ m2 < m
           \/ q2 = q + 3 /\ b2 = b /\ t2 = t /\ m2 + 4 <= m
    PROVE  q2 + b2 + t2 + m2 < q + b + t + m
OBVIOUS

\* An event that is not a change makes no batch of nothing one to be run
\* (add_notify_event).
LEMMA IrrelevantIsNoBatch ==
    ASSUME WatchInv, Take, thread \in {"idle", "gathering"}, thread' = "gathering",
           Head(queue) = "irrelevant", InBatch'
    PROVE  InBatch
<1>1. batch \in Nat /\ rescan \in BOOLEAN /\ (thread = "idle" => batch = 0 /\ ~rescan)
  BY DEF WatchInv, TypeOK, BatchInv
<1>2. CASE rescan
  BY <1>1, <1>2 DEF InBatch
<1>3. CASE ~rescan /\ batch > RescanThreshold
  <2>1. batch > 0
    BY <1>1, <1>3
  <2> QED
    BY <1>1, <2>1 DEF InBatch
<1>4. CASE ~rescan /\ ~(batch > RescanThreshold)
  BY <1>1, <1>4 DEF InBatch, Take, Add
<1> QED
  BY <1>2, <1>3, <1>4

\* An event taken counts for more in the channel than in the batch.
LEMMA TakeLeavesLess ==
    ASSUME IsFiniteSet(Sources), WatchInv, TypeOK', Take,
           thread \in {"idle", "gathering"}, thread' = "gathering"
    PROVE  InQueue' + BatchLeft' + 3 <= InQueue + BatchLeft
<1>1. queue \in Seq(Event) /\ queue # <<>> /\ queue' = Tail(queue) /\ Run \in Nat
  BY RestCounts DEF WatchInv, TypeOK, Take
<1>2. Len(queue') \in Nat /\ Len(queue) = Len(queue') + 1 /\ ChangeCount(queue') \in Nat
  <2>1. \A q \in Seq(Event) : q # <<>> => /\ Tail(q) \in Seq(Event) /\ Len(Tail(q)) \in Nat
                                         /\ Len(q) = Len(Tail(q)) + 1
    OBVIOUS
  <2>2. queue' \in Seq(Event) /\ Len(queue') \in Nat /\ Len(queue) = Len(queue') + 1
    BY <1>1, <2>1
  <2> QED
    BY <2>2, ChangesAreFinite
<1>3. InQueue' = 3 * Len(queue') + Run * ChangeCount(queue') /\ InQueue' \in Nat
  <2>1. InQueue' = 3 * Len(queue') + Run * ChangeCount(queue')
    BY DEF InQueue, ChangeCount, ChangesIn, Run
  <2>2. \A a, b \in Nat : a * b \in Nat
    OBVIOUS
  <2> QED
    BY <1>1, <1>2, <2>1, <2>2
<1>4. CASE Head(queue) = "irrelevant"
  <2>1. ChangeCount(queue) = ChangeCount(queue')
    BY <1>1, <1>4, TakenCount
  <2>2. InQueue = InQueue' + 3
    BY <1>1, <1>2, <1>3, <2>1, QueueSums DEF InQueue
  <2>3. BatchLeft' \in Nat /\ BatchLeft \in Nat /\ BatchLeft' <= BatchLeft
    <3>1. InBatch' => InBatch
      BY <1>4, IrrelevantIsNoBatch
    <3>2. BatchLeft' = IF InBatch' THEN Run ELSE 0
      BY DEF BatchLeft, Run
    <3> QED
      BY <1>1, <3>1, <3>2 DEF BatchLeft
  <2>4. Run \in Nat /\ InQueue' \in Nat /\ InQueue \in Nat
    BY <1>1, <1>3, RestCounts DEF WatchInv
  <2> QED
    BY <2>2, <2>3, <2>4, TakenSums
<1>5. CASE Head(queue) # "irrelevant"
  <2>1. ChangeCount(queue) = ChangeCount(queue') + 1
    BY <1>1, <1>5, TakenCount
  <2>2. InQueue = InQueue' + 3 + Run
    BY <1>1, <1>2, <1>3, <2>1, QueueSums DEF InQueue
  <2>3. BatchLeft' \in Nat /\ BatchLeft \in Nat /\ BatchLeft' <= Run
    <3>1. BatchLeft' = IF InBatch' THEN Run ELSE 0
      BY DEF BatchLeft, Run
    <3> QED
      BY <1>1, <3>1 DEF BatchLeft
  <2>4. Run \in Nat /\ InQueue' \in Nat /\ InQueue \in Nat
    BY <1>1, <1>3, RestCounts DEF WatchInv
  <2> QED
    BY <2>2, <2>3, <2>4, TakenSums
<1> QED
  BY <1>4, <1>5

\* The debouncer's steps.
LEMMA DebouncerLeavesLess ==
    ASSUME IsFiniteSet(Sources), WatchInv, WatchInv', Debouncer
    PROVE  \/ /\ InQueue' + BatchLeft' + 3 <= InQueue + BatchLeft
              /\ ThreadLeft' <= ThreadLeft + 2 /\ MainLeft' = MainLeft
           \/ /\ InQueue' = InQueue /\ BatchLeft' <= BatchLeft
              /\ ThreadLeft' < ThreadLeft /\ MainLeft' = MainLeft
<1>1. UNCHANGED <<main, left>>
  BY DEF Debouncer, BeginBatch, Gather, EndBatch, mainVars
<1>2. MainLeft' = MainLeft
  BY <1>1 DEF MainLeft
<1>3. CASE BeginBatch
  <2>1. Take /\ thread = "idle" /\ thread' = "gathering"
    BY <1>3 DEF BeginBatch
  <2>2. ThreadLeft = 0 /\ ThreadLeft' = 2
    BY <2>1 DEF ThreadLeft
  <2>3. InQueue' + BatchLeft' + 3 <= InQueue + BatchLeft
    BY <2>1, TakeLeavesLess DEF WatchInv
  <2> QED
    BY <1>2, <2>2, <2>3
<1>4. CASE Gather
  <2>1. Take /\ thread = "gathering" /\ thread' = "gathering"
    BY <1>4 DEF Gather
  <2>2. ThreadLeft = 2 /\ ThreadLeft' = 2
    BY <2>1 DEF ThreadLeft
  <2>3. InQueue' + BatchLeft' + 3 <= InQueue + BatchLeft
    BY <2>1, TakeLeavesLess DEF WatchInv
  <2> QED
    BY <1>2, <2>2, <2>3
<1>5. CASE EndBatch
  <2>1. thread = "gathering" /\ thread' \in {"idle", "sending"} /\ UNCHANGED <<queue, batch, rescan>>
    BY <1>5 DEF EndBatch, Handed
  <2>2. ThreadLeft = 2 /\ ThreadLeft' \in {0, 1}
    BY <2>1 DEF ThreadLeft
  <2>3. InQueue' = InQueue
    BY <2>1 DEF InQueue, Run
  <2>4. InBatch' => InBatch
    BY <2>1 DEF InBatch
  <2>5. BatchLeft' <= BatchLeft
    <3>1. BatchLeft' = IF InBatch' THEN Run ELSE 0
      BY DEF BatchLeft, Run
    <3> QED
      BY <2>4, <3>1, RestCounts DEF BatchLeft, WatchInv
  <2> QED
    BY <1>2, <2>2, <2>3, <2>5
<1> QED
  BY <1>3, <1>4, <1>5 DEF Debouncer

\* A batch handed over is the run it leads to.
LEMMA HandOverLeavesLess ==
    ASSUME IsFiniteSet(Sources), WatchInv, WatchInv', HandOver
    PROVE  /\ InQueue' = InQueue
           /\ BatchLeft' + MainLeft' <= BatchLeft + MainLeft
           /\ ThreadLeft' < ThreadLeft
<1>1. /\ thread = "sending" /\ thread' = "idle" /\ main = "waiting" /\ main' = "running"
      /\ left' = Sources /\ UNCHANGED queue
  BY DEF HandOver, NewBatch, Rerun
<1>2. ThreadLeft = 1 /\ ThreadLeft' = 0
  BY <1>1 DEF ThreadLeft
<1>3. InQueue' = InQueue
  BY <1>1 DEF InQueue, Run
<1>4. InBatch /\ ~InBatch'
  BY <1>1 DEF InBatch, WatchInv, BatchInv
<1>5. BatchLeft = Run /\ BatchLeft' = 0
  BY <1>4 DEF BatchLeft
<1>6. MainLeft = 0 /\ MainLeft' = Run
  BY <1>1 DEF MainLeft, Run
<1>7. Run \in Nat
  BY RestCounts DEF WatchInv
<1> QED
  BY <1>2, <1>3, <1>5, <1>6, <1>7

\* The main loop's steps.
LEMMA MainLeavesLess ==
    ASSUME IsFiniteSet(Sources), WatchInv, WatchInv', MainLoop
    PROVE  \/ /\ InQueue' = InQueue /\ BatchLeft' = BatchLeft
              /\ ThreadLeft' = ThreadLeft /\ MainLeft' < MainLeft
           \/ /\ InQueue' = InQueue + 3 /\ BatchLeft' = BatchLeft
              /\ ThreadLeft' = ThreadLeft /\ MainLeft' + 4 <= MainLeft
<1>1. /\ IsFiniteSet(left) /\ Cardinality(left) \in Nat /\ Run \in Nat
      /\ Len(queue) \in Nat /\ ChangeCount(queue) \in Nat /\ queue \in Seq(Event)
  BY RestCounts DEF WatchInv, TypeOK
<1>2. \/ queue' = queue /\ InQueue' = InQueue
      \/ queue' = Append(queue, "irrelevant") /\ InQueue' = InQueue + 3
  <2>1. queue' = queue \/ queue' = Append(queue, "irrelevant")
    BY DEF MainLoop, ReadSource, EndRun, EndFirstRun, StartWatching
  <2>2. InQueue' = 3 * Len(queue') + Run * ChangeCount(queue')
    BY DEF InQueue, ChangeCount, ChangesIn, Run
  <2>3. CASE queue' = queue
    BY <2>2, <2>3 DEF InQueue
  <2>4. CASE queue' = Append(queue, "irrelevant")
    <3>1. ChangeCount(queue') = ChangeCount(queue) /\ Len(queue') = Len(queue) + 1
      BY <1>1, <2>4, IrrelevantCount
    <3> QED
      BY <1>1, <2>2, <2>4, <3>1, QueueSums DEF InQueue
  <2> QED
    BY <2>1, <2>3, <2>4
<1>3. ASSUME NEW f \in Sources, ReadSource(f)
      PROVE  /\ BatchLeft' = BatchLeft /\ ThreadLeft' = ThreadLeft
             /\ MainLeft' + 4 <= MainLeft /\ MainLeft' < MainLeft
  <2>1. f \in left /\ left' = left \ {f} /\ main \in {"first", "running"}
        /\ UNCHANGED <<thread, batch, rescan, main>>
    BY <1>3 DEF ReadSource, Running, threadVars
  <2>2. Cardinality(left') = Cardinality(left) - 1
    BY <1>1, <2>1, FS_RemoveElement
  <2>3. \/ MainLeft = 4 * Cardinality(left) + 4 /\ MainLeft' = 4 * Cardinality(left') + 4
        \/ MainLeft = 4 * Cardinality(left) + 2 /\ MainLeft' = 4 * Cardinality(left') + 2
    BY <2>1 DEF MainLeft
  <2>4. MainLeft' + 4 <= MainLeft /\ MainLeft' < MainLeft
    BY <1>1, <2>2, <2>3
  <2> QED
    BY <2>1, <2>4 DEF BatchLeft, InBatch, ThreadLeft, Run
<1>4. CASE EndRun
  <2>1. main = "running" /\ main' = "waiting" /\ UNCHANGED <<thread, batch, rescan>>
    BY <1>4 DEF EndRun, threadVars
  <2>2. MainLeft = 4 * Cardinality(left) + 4 /\ MainLeft' = 0
    BY <2>1 DEF MainLeft
  <2>3. MainLeft' + 4 <= MainLeft /\ MainLeft' < MainLeft
    BY <1>1, <2>2
  <2>4. BatchLeft' = BatchLeft /\ ThreadLeft' = ThreadLeft
    BY <2>1 DEF BatchLeft, InBatch, ThreadLeft, Run
  <2> QED
    BY <1>2, <2>3, <2>4
<1>5. CASE EndFirstRun
  <2>1. main = "first" /\ main' = "starting" /\ UNCHANGED <<queue, thread, batch, rescan>>
    BY <1>5 DEF EndFirstRun, threadVars
  <2>2. MainLeft = 4 * Cardinality(left) + 2 /\ MainLeft' = 1
    BY <2>1 DEF MainLeft
  <2>3. MainLeft' < MainLeft
    BY <1>1, <2>2
  <2>4. InQueue' = InQueue /\ BatchLeft' = BatchLeft /\ ThreadLeft' = ThreadLeft
    BY <2>1 DEF InQueue, BatchLeft, InBatch, ThreadLeft, Run
  <2> QED
    BY <2>3, <2>4
<1>6. CASE StartWatching
  <2>1. /\ main = "starting" /\ main' = "waiting" /\ thread = "none" /\ thread' = "idle"
        /\ UNCHANGED <<queue, batch, rescan, left>>
    BY <1>6 DEF StartWatching, WatchInv, BatchInv
  <2>2. MainLeft = 1 /\ MainLeft' = 0 /\ ThreadLeft = 0 /\ ThreadLeft' = 0
    BY <2>1 DEF MainLeft, ThreadLeft
  <2>3. InQueue' = InQueue /\ BatchLeft' = BatchLeft
    BY <2>1 DEF InQueue, BatchLeft, InBatch, Run
  <2> QED
    BY <2>2, <2>3
<1> QED
  BY <1>2, <1>3, <1>4, <1>5, <1>6 DEF MainLoop

\* While the disk stays as it is, each step of watch mode takes from what is
\* still to be done, and with nothing left of it the main loop waits and the
\* channel is empty: the output of a run starts no other, so the runs stop
\* after no more steps than ToRest says (debouncer_loop, watch_and_run).
THEOREM RunsRunOut ==
    ASSUME IsFiniteSet(Sources)
    PROVE  Spec => /\ [](ToRest \in Nat)
                   /\ [](ToRest = 0 => main = "waiting" /\ queue = <<>> /\ ~InBatch)
                   /\ [][UNCHANGED disk => ToRest' < ToRest]_vars
<1> DEFINE RestIsRest == ToRest = 0 => main = "waiting" /\ queue = <<>> /\ ~InBatch
           Leaves == UNCHANGED disk => ToRest' < ToRest
           Parts == InQueue \in Nat /\ BatchLeft \in Nat /\ ThreadLeft \in Nat /\ MainLeft \in Nat
<1>1. WatchInv => ToRest \in Nat
  BY RestCounts DEF WatchInv
<1>2. WatchInv => RestIsRest
  <2> SUFFICES ASSUME WatchInv, ToRest = 0 PROVE main = "waiting" /\ queue = <<>> /\ ~InBatch
    OBVIOUS
  <2>1. InQueue = 0 /\ BatchLeft = 0 /\ MainLeft = 0
    BY RestCounts DEF ToRest, WatchInv
  <2>2. queue = <<>>
    <3>1. \A l, c, r \in Nat : 3 * l + r * c = 0 => l = 0
      <4>1. \A r, c \in Nat : r * c \in Nat
        OBVIOUS
      <4> QED
        BY <4>1
    <3>2. Len(queue) = 0
      BY <2>1, <3>1, RestCounts DEF InQueue, WatchInv
    <3> QED
      BY <3>2 DEF WatchInv, TypeOK
  <2>3. ~InBatch
    BY <2>1, RestCounts DEF BatchLeft, Run, WatchInv
  <2>4. main # "first"
    BY <2>1, RestCounts DEF MainLeft, WatchInv
  <2>5. main # "running"
    BY <2>1, RestCounts DEF MainLeft, WatchInv
  <2>6. main # "starting"
    BY <2>1 DEF MainLeft
  <2> QED
    BY <2>2, <2>3, <2>4, <2>5, <2>6 DEF WatchInv, TypeOK
<1>3. WatchInv => Parts
  BY RestCounts DEF WatchInv
<1>4. WatchInv /\ WatchInv' /\ Parts /\ Parts' /\ [Next]_vars => [Leaves]_vars
  <2> SUFFICES ASSUME WatchInv, WatchInv', Parts, Parts', Next, UNCHANGED disk PROVE ToRest' < ToRest
    OBVIOUS
  <2>1. ASSUME Disk PROVE FALSE
    BY <2>1 DEF Disk, Write, WriteUnreported, WriteUnwatched, Change, WatchInv, TypeOK
  <2>2. Debouncer \/ HandOver \/ MainLoop
    BY <2>1 DEF Next
  <2>3. CASE Debouncer
    BY <2>3, DebouncerLeavesLess, RestSums DEF ToRest
  <2>4. CASE HandOver
    BY <2>4, HandOverLeavesLess, RestSums DEF ToRest
  <2>5. CASE MainLoop
    BY <2>5, MainLeavesLess, RestSums DEF ToRest
  <2> QED
    BY <2>2, <2>3, <2>4, <2>5
<1>5. Init => WatchInv
  BY InitTypes DEF Init, WatchInv, BatchInv, ConfigFirst, Known, Running
<1>6. TypeOK' /\ WatchInv /\ [Next]_vars => WatchInv'
  BY WatchStep
<1> QED
  BY <1>1, <1>2, <1>3, <1>4, <1>5, <1>6, WatchTypesHold, PTL DEF Spec

-----------------------------------------------------------------------------
(* A batch reaches its run, although changes never pause.                  *)

\* How long a batch is still held, and the main loop is busy with another run.
HeldFor == IF thread = "gathering" THEN MaxHold - held + 1 ELSE 0
ToRun   == HeldFor + MainLeft

\* The parts are numbers, and with nothing left both threads are where they
\* meet.
LEMMA RunCounts ==
    ASSUME IsFiniteSet(Sources), WatchInv
    PROVE  /\ HeldFor \in Nat /\ MainLeft \in Nat /\ ToRun \in Nat
           /\ InBatch /\ ToRun = 0 => thread = "sending" /\ main = "waiting"
<1>1. HeldFor \in Nat /\ (thread = "gathering" => HeldFor # 0)
  BY DEF WatchInv, TypeOK, HeldFor
<1>2. MainLeft \in Nat
  BY RestCounts DEF WatchInv
<1>3. MainLeft = 0 => main = "waiting"
  <2>1. main = "first" => MainLeft # 0
    BY RestCounts DEF MainLeft, WatchInv
  <2>2. main = "running" => MainLeft # 0
    BY RestCounts DEF MainLeft, WatchInv
  <2>3. main = "starting" => MainLeft # 0
    BY DEF MainLeft
  <2> QED
    BY <2>1, <2>2, <2>3 DEF WatchInv, TypeOK
<1>4. \A a, b \in Nat : a + b \in Nat /\ (a + b = 0 => a = 0 /\ b = 0)
  OBVIOUS
<1>5. ToRun \in Nat /\ (ToRun = 0 => HeldFor = 0 /\ MainLeft = 0)
  BY <1>1, <1>2, <1>4 DEF ToRun
<1> QED
  BY <1>1, <1>2, <1>3, <1>5 DEF InBatch

\* A step takes from one part and leaves the other.
LEMMA RunSums ==
    ASSUME NEW h \in Nat, NEW m \in Nat, NEW h2 \in Nat, NEW m2 \in Nat,
           (h2 < h /\ m2 = m) \/ (h2 = h /\ m2 < m)
    PROVE  h2 + m2 < h + m
OBVIOUS

\* A batch with a change is let go by no step but the one that starts a run
\* with it, and each step but a change of the disk brings that run nearer; a
\* change of the disk does not put it off.  With nothing left the debouncer
\* sends, the main loop receives, and they meet (MAX_HOLD, debouncer_loop).
THEOREM BatchesReachARun ==
    ASSUME IsFiniteSet(Sources)
    PROVE  Spec => /\ [](InBatch => ToRun \in Nat)
                   /\ [](InBatch /\ ToRun = 0 => thread = "sending" /\ main = "waiting")
                   /\ [][InBatch => \/ HandOver
                                    \/ InBatch' /\ ToRun' < ToRun
                                    \/ InBatch' /\ ToRun' = ToRun /\ disk' # disk]_vars
<1> DEFINE Counted == InBatch => ToRun \in Nat
           Meets   == InBatch /\ ToRun = 0 => thread = "sending" /\ main = "waiting"
           Parts   == HeldFor \in Nat /\ MainLeft \in Nat
           Nears   == InBatch => \/ HandOver
                                 \/ InBatch' /\ ToRun' < ToRun
                                 \/ InBatch' /\ ToRun' = ToRun /\ disk' # disk
<1>1. WatchInv => Counted /\ Meets /\ Parts
  BY RunCounts
<1>2. WatchInv /\ WatchInv' /\ Parts /\ Parts' /\ [Next]_vars => [Nears]_vars
  <2> SUFFICES ASSUME WatchInv, WatchInv', Parts, Parts', Next, InBatch PROVE Nears
    OBVIOUS
  <2>1. ASSUME Disk PROVE InBatch' /\ ToRun' = ToRun /\ disk' # disk
    <3>1. disk' # disk /\ UNCHANGED <<thread, batch, rescan, held, main, left>>
      BY <2>1 DEF Disk, Write, WriteUnreported, WriteUnwatched, Change, WatchInv, TypeOK,
                  threadVars, mainVars
    <3> QED
      BY <3>1 DEF InBatch, ToRun, HeldFor, MainLeft
  <2>2. CASE BeginBatch
    BY <2>2 DEF BeginBatch, InBatch
  <2>3. CASE Gather
    <3>1. Take /\ thread = "gathering" /\ thread' = "gathering" /\ UNCHANGED <<main, left>>
      BY <2>3 DEF Gather, mainVars
    <3>2. InBatch'
      BY <3>1, BatchStays DEF InBatch
    <3>3. HeldFor' < HeldFor
      <4>1. held \in 0..MaxHold /\ held # MaxHold
        BY <2>3 DEF Gather, TimeIsUp, WatchInv, TypeOK
      <4>2. held' = held + 1
        BY <2>3, <4>1 DEF Gather
      <4>3. HeldFor = MaxHold - held + 1 /\ HeldFor' = MaxHold - held' + 1
        BY <3>1 DEF HeldFor
      <4> QED
        BY <4>1, <4>2, <4>3
    <3>4. MainLeft' = MainLeft
      BY <3>1 DEF MainLeft
    <3>5. ToRun' < ToRun
      BY <3>3, <3>4, RunSums DEF ToRun
    <3> QED
      BY <3>2, <3>5
  <2>4. CASE EndBatch
    <3>1. /\ thread = "gathering" /\ (batch > 0 \/ rescan)
          /\ UNCHANGED <<batch, rescan, main, left>>
      BY <2>4 DEF EndBatch, InBatch, mainVars
    <3>2. batch \in Nat /\ rescan \in BOOLEAN
      BY DEF WatchInv, TypeOK
    <3>3. thread' = "sending"
      BY <2>4, <3>1, <3>2 DEF EndBatch, Handed
    <3>4. InBatch'
      BY <3>1, <3>3 DEF InBatch
    <3>5. HeldFor' < HeldFor
      <4>1. HeldFor' = 0 /\ HeldFor = MaxHold - held + 1 /\ held \in 0..MaxHold
        BY <3>1, <3>3 DEF HeldFor, WatchInv, TypeOK
      <4> QED
        BY <4>1
    <3>6. MainLeft' = MainLeft
      BY <3>1 DEF MainLeft
    <3>7. ToRun' < ToRun
      BY <3>5, <3>6, RunSums DEF ToRun
    <3> QED
      BY <3>4, <3>7
  <2>5. CASE MainLoop
    <3>1. UNCHANGED <<batch, rescan, held>> /\ (thread' = thread \/ main = "starting")
      BY <2>5 DEF MainLoop, ReadSource, EndRun, EndFirstRun, StartWatching, threadVars
    <3>2. thread' = thread
      BY <3>1 DEF InBatch, WatchInv, BatchInv
    <3>3. InBatch' /\ HeldFor' = HeldFor
      BY <3>1, <3>2 DEF InBatch, HeldFor
    <3>4. MainLeft' < MainLeft
      <4>1. MainLeft' < MainLeft \/ MainLeft' + 4 <= MainLeft
        BY <2>5, MainLeavesLess
      <4>2. \A a, b \in Nat : a + 4 <= b => a < b
        OBVIOUS
      <4> QED
        BY <4>1, <4>2
    <3>5. ToRun' < ToRun
      BY <3>3, <3>4, RunSums DEF ToRun
    <3> QED
      BY <3>3, <3>5
  <2> QED
    BY <2>1, <2>2, <2>3, <2>4, <2>5 DEF Next, Debouncer
<1>3. Init => WatchInv
  BY InitTypes DEF Init, WatchInv, BatchInv, ConfigFirst, Known, Running
<1>4. TypeOK' /\ WatchInv /\ [Next]_vars => WatchInv'
  BY WatchStep
<1> QED
  BY <1>1, <1>2, <1>3, <1>4, WatchTypesHold, PTL DEF Spec
=============================================================================
