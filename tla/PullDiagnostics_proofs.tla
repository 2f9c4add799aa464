----------------------- MODULE PullDiagnostics_proofs -----------------------
(***************************************************************************)
(* Proofs about PullDiagnostics: types, that the client shows only what    *)
(* the check said, that its ids are the fingerprints of what it holds,     *)
(* that a pull no write disturbed brings it in step, and that the pulls    *)
(* give way to a write that waits.                                         *)
(***************************************************************************)
EXTENDS PullDiagnostics, FiniteSetTheorems, TLAPS

-----------------------------------------------------------------------------
(* The reports.                                                            *)

\* What the diagnostics compared with an id are told as: with their own
\* fingerprint, and as unchanged only to a client that has it.
LEMMA ComparedReport ==
    ASSUME NEW items \in Lists, NEW id
    PROVE  LET r == Compared(items, id) IN
           /\ r \in Report
           /\ r.id = Fingerprint[items]
           /\ \/ r.kind = "full" /\ r.items = items
              \/ r.kind = "unchanged" /\ r.id = id
BY PullAssumption DEF Compared, Full, Unchanged, Report

\* A file told as clean.
LEMMA CleanReport ==
    /\ Full(Clean) \in Report
    /\ Full(Clean).kind = "full" /\ Full(Clean).items = Clean
    /\ Full(Clean).id = Fingerprint[Clean]
BY PullAssumption DEF Full, Report

\* The files a pull tells of, and what it tells of each.
LEMMA ReportsOfFiles ==
    ASSUME NEW f
    PROVE  /\ f \in DOMAIN Reports <=>
                 /\ f \in Files
                 /\ (f \in InSet /\ f \in computed) \/ previous[f] # None
           /\ f \in DOMAIN Reports =>
                 Reports[f] = IF f \in computed THEN Compared(truth[f], previous[f])
                              ELSE IF f \in InSet THEN Unchanged(previous[f]) ELSE Full(Clean)
BY DEF Reports, InSet

-----------------------------------------------------------------------------
(* Types.                                                                  *)

\* A client's id is one of the ids, or none.
LEMMA IdTypes == ASSUME TypeOK, NEW f \in Files PROVE Id(f) \in Ids \cup {None}
BY DEF TypeOK, Id, Kept

\* What the client makes of a report it can apply is what it may hold.
LEMMA AppliedTypes ==
    ASSUME NEW f, NEW r \in Report, r.kind = "unchanged" => held[f] \in Kept
    PROVE  Applied(f, r) \in Kept
BY DEF Applied, Report, Kept

\* What a pull has computed is of files of the set, and nothing before it
\* checks; what it came with is what the client still holds; and what an
\* answer says is the check's, or is what the client still holds.
InPull ==
    /\ computed \subseteq InSet
    /\ phase \in {"idle", "config"} => computed = {}
    /\ phase # "idle" => answer = None /\ \A f \in Files \ Opened : previous[f] = Id(f)

Was(f, items) == items \in said[f] \/ (items = Clean /\ Absent \in said[f])

AnswerIsSound ==
    answer # None => \A f \in DOMAIN answer \ Opened :
        \/ /\ answer[f].kind = "full"
           /\ answer[f].id = Fingerprint[answer[f].items]
           /\ Was(f, answer[f].items)
        \/ /\ answer[f].kind = "unchanged"
           /\ held[f] # None /\ answer[f].id = held[f].id

TruthIsSaid == \A f \in Files : truth[f] \in said[f]

\* An answer that computed every file tells of every file of the set, and of
\* every other file the client holds.
FreshIsComplete ==
    fresh /\ answer # None => \A f \in Files \ Opened :
        \/ truth[f] # Absent /\ f \in DOMAIN answer /\ answer[f].id = Fingerprint[truth[f]]
        \/ truth[f] = Absent /\ f \in DOMAIN answer /\ answer[f].kind = "full"
           /\ answer[f].items = Clean
        \/ truth[f] = Absent /\ f \notin DOMAIN answer /\ held[f] = None

Sound == /\ TypeOK
         /\ InPull /\ AnswerIsSound /\ TruthIsSaid
         /\ ShownWasSaid /\ IdsAreOfWhatIsHeld
         /\ FreshIsComplete

\* Nothing is held, computed or on its way at first.
LEMMA InitSound == Init => Sound
<1> SUFFICES ASSUME Init PROVE Sound
  OBVIOUS
<1>1. /\ computed = {} /\ phase = "idle" /\ answer = None
      /\ \A f \in Files : held[f] = None /\ said[f] = {truth[f]}
  BY DEF Init
<1>2. TypeOK
  <2>1. /\ truth \in Truth /\ waiting = None /\ phase = "idle" /\ previous = NoIds
        /\ done = {} /\ checked = {} /\ pass = FALSE /\ docs = {}
        /\ fresh = FALSE
    BY DEF Init
  <2>2. previous \in [Files -> Ids \cup {None}]
    BY <2>1 DEF NoIds
  <2>3. held \in [Files -> Kept \cup {None}]
    BY DEF Init
  <2>4. said \in [Files -> SUBSET (Lists \cup {Absent})]
    BY DEF Init, Truth
  <2>5. writes \in 0..MaxWrites /\ cancels \in 0..MaxCancels /\ dropped \in 0..cancels
    BY PullAssumption DEF Init
  <2> QED
    BY <1>1, <2>1, <2>2, <2>3, <2>4, <2>5 DEF TypeOK
<1> QED
  BY <1>1, <1>2 DEF Sound, InPull, AnswerIsSound, TruthIsSaid, ShownWasSaid,
     IdsAreOfWhatIsHeld, FreshIsComplete

-----------------------------------------------------------------------------
(* The main loop's steps.                                                  *)

\* A write waits.
LEMMA BeginWriteSound == ASSUME Sound, NEW t \in Truth, BeginWrite(t) PROVE Sound'
<1>1. TypeOK'
  BY PullAssumption DEF BeginWrite, clientVars, Sound, TypeOK
<1>2. UNCHANGED <<truth, phase, previous, computed, held, answer, fresh, said>>
  BY DEF BeginWrite, clientVars
<1> QED
  BY <1>1, <1>2 DEF Sound, InPull, AnswerIsSound, TruthIsSaid, ShownWasSaid, IdsAreOfWhatIsHeld,
     FreshIsComplete, InSet, Id, Was

\* A write is made: no pull runs, and an answer on its way is not fresh any
\* more, but what it says was said.
LEMMA EndWriteSound == Sound /\ EndWrite => Sound'
<1> SUFFICES ASSUME Sound, EndWrite PROVE Sound'
  OBVIOUS
<1>1. waiting \in Truth
  BY DEF EndWrite, Sound, TypeOK
<1>2. TypeOK'
  BY <1>1 DEF EndWrite, clientVars, Sound, TypeOK, Truth
<1>3. \A f \in Files : said[f] \subseteq said'[f] /\ truth'[f] \in said'[f]
  BY DEF EndWrite
<1>4. InPull' /\ TruthIsSaid' /\ FreshIsComplete'
  BY <1>3 DEF EndWrite, Sound, InPull, TruthIsSaid, FreshIsComplete, InSet
<1>5. UNCHANGED <<held, answer>>
  BY DEF EndWrite, clientVars
<1>6. AnswerIsSound'
  <2>1. answer # None => DOMAIN answer \subseteq Files
    BY DEF Sound, TypeOK
  <2> QED
    BY <1>3, <1>5, <2>1 DEF Sound, AnswerIsSound, Was
<1>7. ShownWasSaid' /\ IdsAreOfWhatIsHeld'
  BY <1>3, <1>5 DEF Sound, ShownWasSaid, IdsAreOfWhatIsHeld
<1> QED
  BY <1>2, <1>4, <1>6, <1>7 DEF Sound

\* A step that changes nothing of what is computed, answered or held.
LEMMA QuietSound ==
    ASSUME Sound, TypeOK',
           UNCHANGED <<truth, held, answer, fresh, said, previous, computed>>,
           phase' = phase \/ (phase # "idle" /\ phase' \in {"check", "lint"})
    PROVE  Sound'
<1>1. InPull'
  BY DEF Sound, InPull, InSet, Id
<1>2. AnswerIsSound' /\ TruthIsSaid' /\ ShownWasSaid' /\ IdsAreOfWhatIsHeld' /\ FreshIsComplete'
  BY DEF Sound, AnswerIsSound, TruthIsSaid, ShownWasSaid, IdsAreOfWhatIsHeld, FreshIsComplete, Was
<1> QED
  BY <1>1, <1>2 DEF Sound

\* A document's pull begins or fails whole, or a cancelled pull ends.
LEMMA QuietStepsSound ==
    ASSUME Sound, \/ EndDropped
                  \/ \E f \in Opened : StartDocument(f) \/ FailDocument(f)
    PROVE  Sound'
<1>1. TypeOK'
  <2>1. CASE EndDropped
    <3>1. cancels \in Nat /\ dropped' \in 0..cancels
      BY <2>1, PullAssumption DEF EndDropped, Sound, TypeOK
    <3> QED
      BY <2>1, <3>1 DEF EndDropped, Sound, TypeOK, clientVars, countVars
  <2>2. CASE \E f \in Opened : StartDocument(f) \/ FailDocument(f)
    <3>1. docs' \subseteq Opened
      BY <2>2 DEF StartDocument, FailDocument, Sound, TypeOK
    <3>2. UNCHANGED <<truth, waiting, phase, previous, done, checked, pass, computed, dropped,
                      clientVars, countVars>>
      BY <2>2 DEF StartDocument, FailDocument
    <3> QED
      BY <3>1, <3>2 DEF Sound, TypeOK, clientVars, countVars
  <2> QED
    BY <2>1, <2>2
<1>2. UNCHANGED <<truth, held, answer, fresh, said, previous, computed, phase>>
  BY DEF EndDropped, StartDocument, FailDocument, clientVars, countVars
<1> QED
  BY <1>1, <1>2, QuietSound

\* The client gives its pull up: nothing is left of it but a snapshot.
LEMMA CancelPullSound == Sound /\ CancelPull => Sound'
<1> SUFFICES ASSUME Sound, CancelPull PROVE Sound'
  OBVIOUS
<1>1. /\ cancels' \in 0..MaxCancels /\ dropped' \in 0..cancels'
  BY PullAssumption DEF CancelPull, Sound, TypeOK
<1>2. TypeOK'
  BY <1>1 DEF CancelPull, NoPull, clientVars, Sound, TypeOK, NoIds
<1>3. /\ UNCHANGED <<truth, held, answer, fresh, said>>
      /\ phase' = "idle" /\ computed' = {}
  BY DEF CancelPull, NoPull, clientVars
<1>4. InPull'
  BY <1>3 DEF InPull
<1>5. AnswerIsSound' /\ TruthIsSaid' /\ ShownWasSaid' /\ IdsAreOfWhatIsHeld' /\ FreshIsComplete'
  BY <1>3 DEF Sound, AnswerIsSound, TruthIsSaid, ShownWasSaid, IdsAreOfWhatIsHeld, FreshIsComplete, Was
<1> QED
  BY <1>2, <1>4, <1>5 DEF Sound

-----------------------------------------------------------------------------
(* The workspace pull's steps.                                             *)

\* The pull comes with the ids of what the client holds.
LEMMA StartPullSound == Sound /\ StartPull => Sound'
<1> SUFFICES ASSUME Sound, StartPull PROVE Sound'
  OBVIOUS
<1>1. \A f \in Files : Id(f) \in Ids \cup {None}
  BY IdTypes DEF Sound
<1>2. TypeOK'
  BY <1>1 DEF StartPull, clientVars, countVars, Sound, TypeOK
<1>3. /\ UNCHANGED <<truth, held, answer, fresh, said, computed>>
      /\ answer = None /\ phase = "idle" /\ phase' = "config"
      /\ previous' = [f \in Files |-> Id(f)]
  BY DEF StartPull, clientVars, countVars
<1>4. InPull'
  BY <1>3 DEF Sound, InPull, InSet, Id
<1>5. AnswerIsSound' /\ TruthIsSaid' /\ ShownWasSaid' /\ IdsAreOfWhatIsHeld' /\ FreshIsComplete'
  BY <1>3 DEF Sound, AnswerIsSound, TruthIsSaid, ShownWasSaid, IdsAreOfWhatIsHeld, FreshIsComplete, Was
<1> QED
  BY <1>2, <1>4, <1>5 DEF Sound

\* The pull fails while it reads the configuration: nothing was computed.
LEMMA FailPullSound == Sound /\ FailPull => Sound'
<1> SUFFICES ASSUME Sound, FailPull PROVE Sound'
  OBVIOUS
<1>1. TypeOK'
  BY DEF FailPull, NoPull, clientVars, countVars, Sound, TypeOK, NoIds
<1>2. /\ UNCHANGED <<truth, held, answer, fresh, said>>
      /\ phase = "config" /\ phase' = "idle" /\ computed' = {}
  BY DEF FailPull, NoPull, clientVars, countVars
<1>3. InPull'
  BY <1>2 DEF Sound, InPull, InSet
<1>4. AnswerIsSound' /\ TruthIsSaid' /\ ShownWasSaid' /\ IdsAreOfWhatIsHeld' /\ FreshIsComplete'
  BY <1>2 DEF Sound, AnswerIsSound, TruthIsSaid, ShownWasSaid, IdsAreOfWhatIsHeld, FreshIsComplete, Was
<1> QED
  BY <1>1, <1>3, <1>4 DEF Sound

\* The files are indexed and checked, and the pass is built.
LEMMA CheckSound ==
    ASSUME Sound, IndexFiles \/ BuildPass \/ \E f \in Files : CheckFile(f)
    PROVE  Sound'
<1>1. TypeOK'
  BY DEF IndexFiles, BuildPass, CheckFile, Sound, TypeOK, clientVars, countVars
<1>2. /\ UNCHANGED <<truth, held, answer, fresh, said, previous, computed>>
      /\ phase' = phase \/ (phase # "idle" /\ phase' \in {"check", "lint"})
  BY DEF IndexFiles, BuildPass, CheckFile, clientVars, countVars
<1> QED
  BY <1>1, <1>2, QuietSound

\* A file is linted: what is computed is of a file of the set.
LEMMA LintSound == ASSUME Sound, NEW f \in Files, LintFile(f) PROVE Sound'
<1>1. TypeOK'
  BY DEF LintFile, Sound, TypeOK, clientVars, countVars
<1>2. /\ UNCHANGED <<truth, held, answer, fresh, said, previous>>
      /\ phase = "lint" /\ phase' = "lint"
      /\ computed' = computed \cup {f} \/ computed' = computed
      /\ f \in InSet
  BY DEF LintFile, clientVars, countVars
<1>3. InPull'
  BY <1>2 DEF Sound, InPull, InSet, Id
<1>4. AnswerIsSound' /\ TruthIsSaid' /\ ShownWasSaid' /\ IdsAreOfWhatIsHeld' /\ FreshIsComplete'
  BY <1>2 DEF Sound, AnswerIsSound, TruthIsSaid, ShownWasSaid, IdsAreOfWhatIsHeld, FreshIsComplete, Was
<1> QED
  BY <1>1, <1>3, <1>4 DEF Sound

\* What a pull that ends says of a file: the check's diagnostics with their
\* fingerprint, or nothing new to a client that holds the file, or that it is
\* clean when the set has it no more.
LEMMA ReportSound ==
    ASSUME Sound, phase = "lint", NEW f \in DOMAIN Reports
    PROVE  /\ f \in Files /\ Reports[f] \in Report
           /\ \/ /\ Reports[f].kind = "full"
                 /\ Reports[f].id = Fingerprint[Reports[f].items]
                 /\ Was(f, Reports[f].items)
              \/ /\ Reports[f].kind = "unchanged"
                 /\ f \notin Opened => held[f] # None /\ Reports[f].id = held[f].id
           /\ f \in InSet /\ computed = InSet => Reports[f].id = Fingerprint[truth[f]]
           /\ f \notin InSet => Reports[f].kind = "full" /\ Reports[f].items = Clean
<1>1. /\ f \in Files
      /\ (f \in InSet /\ f \in computed) \/ previous[f] # None
      /\ Reports[f] = IF f \in computed THEN Compared(truth[f], previous[f])
                      ELSE IF f \in InSet THEN Unchanged(previous[f]) ELSE Full(Clean)
  BY ReportsOfFiles
<1>2. previous[f] \in Ids \cup {None}
  BY <1>1 DEF Sound, TypeOK
<1>3. f \notin Opened /\ previous[f] # None => held[f] # None /\ previous[f] = held[f].id
  BY <1>1 DEF Sound, InPull, Id
<1>4. CASE f \in computed
  <2>1. f \in InSet /\ truth[f] \in Lists /\ truth[f] \in said[f]
    BY <1>1, <1>4 DEF Sound, InPull, InSet, TypeOK, Truth, TruthIsSaid
  <2>2. Fingerprint[truth[f]] # None
    BY <2>1, PullAssumption
  <2> QED
    BY <1>1, <1>3, <1>4, <2>1, <2>2, ComparedReport DEF Was
<1>5. CASE f \notin computed /\ f \in InSet
  BY <1>1, <1>2, <1>3, <1>5 DEF Unchanged, Report
<1>6. CASE f \notin computed /\ f \notin InSet
  <2>1. truth[f] = Absent /\ Absent \in said[f]
    BY <1>1, <1>6 DEF Sound, InSet, TruthIsSaid
  <2> QED
    BY <1>1, <1>6, <2>1, CleanReport DEF Was
<1> QED
  BY <1>4, <1>5, <1>6 DEF Sound, InPull

\* The pull ends and is answered.
LEMMA RespondSound == Sound /\ Respond => Sound'
<1> SUFFICES ASSUME Sound, Respond PROVE Sound'
  OBVIOUS
<1>1. /\ phase = "lint" /\ phase' = "idle"
      /\ answer' = Reports
      /\ fresh' = (computed = InSet)
      /\ previous' = NoIds /\ done' = {} /\ checked' = {} /\ pass' = FALSE /\ computed' = {}
      /\ UNCHANGED <<truth, waiting, docs, dropped, held, writes, cancels, said>>
  BY DEF Respond, NoPull
<1>2. answer' # None => /\ answer' = Reports
                        /\ \A f \in DOMAIN Reports : f \in Files /\ Reports[f] \in Report
  BY <1>1, ReportSound
<1>3. fresh' \in BOOLEAN
  BY <1>1
<1>4. TypeOK'
  BY <1>1, <1>2, <1>3 DEF Sound, TypeOK, NoIds
<1>5. InPull' /\ TruthIsSaid' /\ ShownWasSaid' /\ IdsAreOfWhatIsHeld'
  BY <1>1 DEF Sound, InPull, TruthIsSaid, ShownWasSaid, IdsAreOfWhatIsHeld, InSet
<1>6. AnswerIsSound'
  BY <1>1, <1>2, ReportSound DEF AnswerIsSound, Was
<1>7. FreshIsComplete'
  <2> SUFFICES ASSUME fresh', answer' # None, NEW f \in Files \ Opened
               PROVE  \/ truth[f] # Absent /\ f \in DOMAIN Reports
                         /\ Reports[f].id = Fingerprint[truth[f]]
                      \/ truth[f] = Absent /\ f \in DOMAIN Reports
                         /\ Reports[f].kind = "full" /\ Reports[f].items = Clean
                      \/ truth[f] = Absent /\ f \notin DOMAIN Reports /\ held[f] = None
    BY <1>1, <1>2 DEF FreshIsComplete
  <2>1. computed = InSet /\ (f \in InSet <=> truth[f] # Absent)
    BY <1>1 DEF InSet
  <2>2. CASE f \in InSet
    BY <1>1, <2>1, <2>2, ReportsOfFiles, ReportSound
  <2>3. CASE f \notin InSet /\ f \in DOMAIN Reports
    BY <1>1, <2>1, <2>3, ReportSound
  <2>4. CASE f \notin InSet /\ f \notin DOMAIN Reports
    <3>1. previous[f] = None /\ previous[f] = Id(f)
      BY <1>1, <2>4, ReportsOfFiles DEF Sound, InPull
    <3>2. held[f] # None => held[f].id \in Ids
      BY DEF Sound, TypeOK, Kept
    <3> QED
      BY <2>1, <2>4, <3>1, <3>2, PullAssumption DEF Id
  <2> QED
    BY <2>2, <2>3, <2>4
<1> QED
  BY <1>4, <1>5, <1>6, <1>7 DEF Sound

-----------------------------------------------------------------------------
(* What the client applies.                                                *)

\* A sound report applied leaves a sound list with its fingerprint.
LEMMA AppliedSound ==
    ASSUME Sound, NEW f \in Files, NEW r \in Report,
           \/ /\ r.kind = "full" /\ r.id = Fingerprint[r.items] /\ Was(f, r.items)
           \/ /\ r.kind = "unchanged" /\ held[f] # None /\ r.id = held[f].id
    PROVE  /\ Applied(f, r) \in Kept
           /\ Applied(f, r).id = r.id
           /\ Applied(f, r).id = Fingerprint[Applied(f, r).items]
           /\ Was(f, Applied(f, r).items)
           /\ r.kind = "full" => Applied(f, r).items = r.items
<1>1. held[f] # None => held[f] \in Kept
  BY DEF Sound, TypeOK
<1>2. Applied(f, r) \in Kept
  BY <1>1, AppliedTypes
<1>3. held[f] # None => held[f].id = Fingerprint[held[f].items] /\ Was(f, held[f].items)
  BY DEF Sound, IdsAreOfWhatIsHeld, ShownWasSaid, Was
<1>4. CASE r.kind = "full"
  BY <1>2, <1>4 DEF Applied
<1>5. CASE r.kind = "unchanged"
  BY <1>2, <1>3, <1>5 DEF Applied
<1> QED
  BY <1>2, <1>4, <1>5

\* A document's pull ends, in one step with the client's taking it.
LEMMA DocumentSound == ASSUME Sound, NEW f \in Opened, RespondDocument(f) PROVE Sound'
<1> DEFINE r == IF f \in InSet THEN Compared(truth[f], Id(f)) ELSE Full(Clean)
<1>1. /\ f \in Files /\ docs' = docs \ {f}
      /\ held' = [held EXCEPT ![f] = Applied(f, r)]
      /\ UNCHANGED <<truth, waiting, phase, previous, done, checked, pass, computed, dropped,
                     answer, writes, cancels, fresh, said>>
  BY PullAssumption DEF RespondDocument, countVars
<1>2. r \in Report /\ \/ /\ r.kind = "full" /\ r.id = Fingerprint[r.items] /\ Was(f, r.items)
                      \/ /\ r.kind = "unchanged" /\ held[f] # None /\ r.id = held[f].id
  <2>1. CASE f \in InSet
    <3>1. truth[f] \in Lists /\ truth[f] \in said[f]
      BY <1>1, <2>1 DEF Sound, InSet, TypeOK, Truth, TruthIsSaid
    <3>2. Fingerprint[truth[f]] # None
      BY <3>1, PullAssumption
    <3> QED
      BY <2>1, <3>1, <3>2, ComparedReport DEF Was, Id
  <2>2. CASE f \notin InSet
    <3>1. Absent \in said[f]
      BY <1>1, <2>2 DEF Sound, InSet, TruthIsSaid
    <3> QED
      BY <2>2, <3>1, CleanReport DEF Was
  <2> QED
    BY <2>1, <2>2
<1> HIDE DEF r
<1>3. /\ Applied(f, r) \in Kept
      /\ Applied(f, r).id = Fingerprint[Applied(f, r).items]
      /\ Was(f, Applied(f, r).items)
  BY <1>1, <1>2, AppliedSound
<1>4. /\ held'[f] = Applied(f, r)
      /\ \A g \in Files \ {f} : held'[g] = held[g]
  BY <1>1 DEF Sound, TypeOK
<1>5. TypeOK'
  BY <1>1, <1>3 DEF Sound, TypeOK
<1>6. ShownWasSaid' /\ IdsAreOfWhatIsHeld'
  BY <1>1, <1>3, <1>4 DEF Sound, ShownWasSaid, IdsAreOfWhatIsHeld, Was
<1>7. InPull' /\ TruthIsSaid'
  BY <1>1, <1>4 DEF Sound, InPull, TruthIsSaid, InSet, Id
<1>8. AnswerIsSound' /\ FreshIsComplete'
  <2>1. answer # None => DOMAIN answer \subseteq Files
    BY DEF Sound, TypeOK
  <2> QED
    BY <1>1, <1>4, <2>1 DEF Sound, AnswerIsSound, FreshIsComplete, Was
<1> QED
  BY <1>5, <1>6, <1>7, <1>8 DEF Sound

\* The client takes a pull's answer.
LEMMA TakenReport ==
    ASSUME Sound, answer # None, NEW f \in DOMAIN answer \ Opened
    PROVE  /\ f \in Files /\ answer[f] \in Report
           /\ Applied(f, answer[f]) \in Kept
           /\ Applied(f, answer[f]).id = answer[f].id
           /\ Applied(f, answer[f]).id = Fingerprint[Applied(f, answer[f]).items]
           /\ Was(f, Applied(f, answer[f]).items)
           /\ answer[f].kind = "full" => Applied(f, answer[f]).items = answer[f].items
<1>1. f \in Files /\ answer[f] \in Report
  BY DEF Sound, TypeOK
<1>2. \/ /\ answer[f].kind = "full" /\ answer[f].id = Fingerprint[answer[f].items]
         /\ Was(f, answer[f].items)
      \/ /\ answer[f].kind = "unchanged" /\ held[f] # None /\ answer[f].id = held[f].id
  BY DEF Sound, AnswerIsSound
<1> QED
  BY <1>1, <1>2, AppliedSound

\* What the client makes of an answer on its way is what the answer says.
LEMMA TakeAnswerSound == Sound /\ TakeAnswer => Sound'
<1> SUFFICES ASSUME Sound, TakeAnswer PROVE Sound'
  OBVIOUS
<1>1. /\ answer # None /\ answer' = None /\ fresh' = FALSE
      /\ held' = [f \in Files |-> IF f \in DOMAIN answer \ Opened
                                  THEN Applied(f, answer[f]) ELSE held[f]]
      /\ UNCHANGED <<truth, waiting, phase, previous, done, checked, pass, computed, docs, dropped,
                     writes, cancels, said>>
  BY DEF TakeAnswer, serverVars
<1>2. phase = "idle"
  BY <1>1 DEF Sound, InPull
<1>3. TypeOK'
  BY <1>1, TakenReport DEF Sound, TypeOK
<1>4. ShownWasSaid' /\ IdsAreOfWhatIsHeld'
  BY <1>1, TakenReport DEF Sound, ShownWasSaid, IdsAreOfWhatIsHeld, Was
<1>5. InPull' /\ TruthIsSaid' /\ AnswerIsSound' /\ FreshIsComplete'
  BY <1>1, <1>2 DEF Sound, InPull, TruthIsSaid, InSet, AnswerIsSound, FreshIsComplete
<1> QED
  BY <1>3, <1>4, <1>5 DEF Sound

-----------------------------------------------------------------------------
(* The theorems.                                                           *)

\* Nothing changes.
LEMMA StutterSound == Sound /\ UNCHANGED vars => Sound'
<1> SUFFICES ASSUME Sound, UNCHANGED vars PROVE Sound'
  OBVIOUS
<1>1. TypeOK'
  BY DEF Sound, TypeOK, vars, serverVars, clientVars, countVars
<1> QED
  BY <1>1, QuietSound DEF vars, serverVars, clientVars, countVars

\* The inductive invariant.
LEMMA SoundHolds == Spec => []Sound
<1>1. Init => Sound
  BY InitSound
<1>2. Sound /\ [Next]_vars => Sound'
  BY BeginWriteSound, EndWriteSound, QuietStepsSound, CancelPullSound, StartPullSound, FailPullSound, CheckSound,
     LintSound, RespondSound, DocumentSound, TakeAnswerSound, StutterSound
     DEF Next, Worker, Client, DocumentWorker
<1> QED
  BY <1>1, <1>2, PTL DEF Spec

\* In every reachable state, every variable holds what the code's types allow.
THEOREM PullTypesHold == Spec => []TypeOK
<1>1. Sound => TypeOK
  BY DEF Sound
<1> QED
  BY <1>1, SoundHolds, PTL

\* What the client shows of a file, the check said of it at some time: no
\* write that cancels a pull makes a file clean (diagnostics.rs).
THEOREM NothingElseIsShown == Spec => []ShownWasSaid
<1>1. Sound => ShownWasSaid
  BY DEF Sound
<1> QED
  BY <1>1, SoundHolds, PTL

\* The id the client holds for a file is the fingerprint of the list it holds,
\* so a change of the file is never told as none (diagnostics.rs).
THEOREM IdsAlwaysAreOfWhatIsHeld == Spec => []IdsAreOfWhatIsHeld
<1>1. Sound => IdsAreOfWhatIsHeld
  BY DEF Sound
<1> QED
  BY <1>1, SoundHolds, PTL

\* One answer of a pull no write disturbed brings the client in step with the
\* server in every file it does not have open (diagnostics.rs).
THEOREM UndisturbedPullsComplete == Spec => UndisturbedPullsAreComplete
<1> DEFINE InStepAfter == fresh /\ answer # None /\ answer' = None => \A f \in Files \ Opened : InStep(f)'
<1>1. Sound /\ [Next]_vars => [InStepAfter]_vars
  <2> SUFFICES ASSUME Sound, [Next]_vars, fresh, answer # None, answer' = None,
                      NEW f \in Files \ Opened
               PROVE  InStep(f)' \/ UNCHANGED vars
    BY DEF InStepAfter
  <2>1. phase = "idle"
    BY DEF Sound, InPull
  <2>2. TakeAnswer
    BY <2>1 DEF Next, BeginWrite, EndWrite, CancelPull, EndDropped, Worker, FailPull, IndexFiles, BuildPass,
       Respond, CheckFile, LintFile, Client, StartPull, DocumentWorker, RespondDocument,
       FailDocument, StartDocument, vars, clientVars
  <2>3. /\ truth' = truth
        /\ held'[f] = IF f \in DOMAIN answer THEN Applied(f, answer[f]) ELSE held[f]
    BY <2>2 DEF TakeAnswer, serverVars
  <2>4. CASE f \in DOMAIN answer
    <3>1. /\ held'[f] \in Kept /\ held'[f].id = answer[f].id
          /\ answer[f].kind = "full" => held'[f].items = answer[f].items
      BY <2>3, <2>4, TakenReport
    <3>2. held'[f] # None
      BY <3>1, PullAssumption
    <3> QED
      BY <2>3, <2>4, <3>1, <3>2 DEF Sound, FreshIsComplete, InStep
  <2>5. CASE f \notin DOMAIN answer
    BY <2>3, <2>5 DEF Sound, FreshIsComplete, InStep
  <2> QED
    BY <2>4, <2>5
<1> QED
  BY <1>1, SoundHolds, PTL DEF Spec, UndisturbedPullsAreComplete

-----------------------------------------------------------------------------
(* A write that waits.                                                     *)

\* What the pulls have still to do before their snapshots are dropped, and the
\* client to take: a phase is more than all that comes after it.
Unread  == Cardinality(InSet \ done)
Whole   == Cardinality(Files)
InPhase == CASE phase = "config" -> 2 * Whole + 6
             [] phase = "check"  -> Unread + Whole + 4
             [] phase = "lint"   -> Unread + 2
             [] phase = "idle"   -> 0
OnTheWay == IF answer = None THEN 0 ELSE 1
ToPull   == InPhase + Cardinality(docs) + OnTheWay + dropped

\* On finitely many files the parts are numbers.
LEMMA PullCounts ==
    ASSUME IsFiniteSet(Files), TypeOK
    PROVE  /\ Whole \in Nat /\ Unread \in Nat /\ Unread <= Whole
           /\ IsFiniteSet(InSet \ done) /\ IsFiniteSet(docs)
           /\ Cardinality(docs) \in Nat
           /\ OnTheWay \in Nat /\ OnTheWay <= 1
           /\ InPhase \in Nat /\ dropped \in Nat
           /\ ToPull \in Nat
<1>1. docs \in SUBSET Files /\ (InSet \ done) \in SUBSET Files
  BY PullAssumption DEF TypeOK, InSet
<1>2. /\ IsFiniteSet(InSet \ done) /\ IsFiniteSet(docs)
      /\ Cardinality(InSet \ done) <= Cardinality(Files)
  BY <1>1, FS_Subset
<1>3. /\ Whole \in Nat /\ Unread \in Nat /\ Unread <= Whole
      /\ Cardinality(docs) \in Nat
  BY <1>2, FS_CardinalityType DEF Whole, Unread
<1>4. OnTheWay \in Nat /\ OnTheWay <= 1
  BY DEF OnTheWay
<1>5. phase \in {"idle", "config", "check", "lint"}
  BY DEF TypeOK
<1>6. InPhase \in Nat
  <2>1. CASE phase = "idle"
    BY <2>1 DEF InPhase
  <2>2. CASE phase = "config"
    BY <2>2, <1>3 DEF InPhase
  <2>3. CASE phase = "check"
    BY <2>3, <1>3 DEF InPhase
  <2>4. CASE phase = "lint"
    BY <2>4, <1>3 DEF InPhase
  <2> QED
    BY <1>5, <2>1, <2>2, <2>3, <2>4
<1>7. dropped \in Nat
  BY PullAssumption DEF TypeOK
<1> QED
  BY <1>2, <1>3, <1>4, <1>6, <1>7 DEF ToPull

\* One file more that a phase is done with.
LEMMA OneRead ==
    ASSUME IsFiniteSet(Files), TypeOK, NEW f \in InSet \ done,
           done' = done \cup {f}, UNCHANGED truth
    PROVE  Unread' = Unread - 1
<1>1. (InSet \ done)' = (InSet \ done) \ {f}
  BY DEF InSet
<1>2. IsFiniteSet(InSet \ done)
  BY PullCounts
<1>3. Cardinality((InSet \ done) \ {f}) = Cardinality(InSet \ done) - 1
  BY <1>2, FS_RemoveElement
<1> QED
  BY <1>1, <1>3 DEF Unread

\* The sums of the steps below.
LEMMA Sums ==
    ASSUME NEW w \in Nat, NEW u \in Nat, NEW v \in Nat, NEW o \in Nat, NEW q \in Nat,
           u <= w, v <= w, q <= 1
    PROVE  /\ v + w + 4 + o < 2 * w + 6 + o
           /\ v + 2 + o < u + w + 4 + o
           /\ 0 + q < u + 2 + o
OBVIOUS

\* The same with the documents in between and the cancelled pulls behind.
LEMMA SumsOfFour ==
    ASSUME NEW a \in Nat, NEW b \in Nat, NEW c \in Nat, NEW d \in Nat, NEW e \in Nat,
           NEW f \in Nat, a + b < c + d
    PROVE  a + e + b + f < c + e + d + f
OBVIOUS

\* The workspace pull's steps, each on its own.
LEMMA WorkerLeavesLess ==
    ASSUME IsFiniteSet(Files), TypeOK, TypeOK', Worker
    PROVE  ToPull' < ToPull
<1>1. /\ Whole \in Nat /\ Unread \in Nat /\ Unread <= Whole /\ Cardinality(docs) \in Nat
      /\ OnTheWay \in Nat /\ OnTheWay <= 1 /\ InPhase \in Nat /\ dropped \in Nat
  BY PullCounts
<1>2. /\ Unread' \in Nat /\ Unread' <= Whole /\ OnTheWay' \in Nat /\ OnTheWay' <= 1
      /\ InPhase' \in Nat
  <2>1. Whole' = Whole
    BY DEF Whole
  <2>2. TypeOK' => /\ Unread' \in Nat /\ Unread' <= Whole' /\ OnTheWay' \in Nat /\ OnTheWay' <= 1
                   /\ InPhase' \in Nat
    <3>1. (InSet \ done)' \in SUBSET Files
      BY DEF InSet
    <3>2. Unread' \in Nat /\ Unread' <= Whole
      BY <3>1, FS_Subset, FS_CardinalityType DEF Unread, Whole
    <3>3. OnTheWay' \in Nat /\ OnTheWay' <= 1
      BY DEF OnTheWay
    <3>4. ASSUME TypeOK' PROVE phase' \in {"idle", "config", "check", "lint"}
      BY <3>4 DEF TypeOK
    <3>5. CASE phase' = "idle"
      BY <3>5, <3>2, <3>3, <2>1 DEF InPhase
    <3>6. CASE phase' = "config"
      BY <3>6, <3>2, <3>3, <2>1, <1>1 DEF InPhase
    <3>7. CASE phase' = "check"
      BY <3>7, <3>2, <3>3, <2>1, <1>1 DEF InPhase
    <3>8. CASE phase' = "lint"
      BY <3>8, <3>2, <3>3, <2>1, <1>1 DEF InPhase
    <3> QED
      BY <3>2, <3>3, <3>4, <3>5, <3>6, <3>7, <3>8, <2>1
  <2> QED
    BY <2>1, <2>2
<1>3. docs' = docs /\ dropped' = dropped
  BY DEF Worker, FailPull, IndexFiles, BuildPass, Respond, CheckFile, LintFile
<1>4. InPhase' + OnTheWay' < InPhase + OnTheWay
  <2>1. CASE FailPull
    <3>1. phase = "config" /\ phase' = "idle" /\ answer' = answer
      BY <2>1 DEF FailPull, NoPull, clientVars
    <3>2. InPhase = 2 * Whole + 6 /\ InPhase' = 0 /\ OnTheWay' = OnTheWay
      BY <3>1 DEF InPhase, OnTheWay
    <3> QED
      BY <3>2, <1>1
  <2>2. CASE IndexFiles
    <3>1. phase = "config" /\ phase' = "check" /\ answer' = answer
      BY <2>2 DEF IndexFiles, clientVars
    <3>2. InPhase = 2 * Whole + 6 /\ InPhase' = Unread' + Whole + 4 /\ OnTheWay' = OnTheWay
      BY <3>1, <1>2 DEF InPhase, OnTheWay
    <3> QED
      BY <3>2, <1>1, <1>2, Sums
  <2>3. CASE BuildPass
    <3>1. phase = "check" /\ phase' = "lint" /\ answer' = answer
      BY <2>3 DEF BuildPass, clientVars
    <3>2. InPhase = Unread + Whole + 4 /\ InPhase' = Unread' + 2 /\ OnTheWay' = OnTheWay
      BY <3>1, <1>2 DEF InPhase, OnTheWay
    <3> QED
      BY <3>2, <1>1, <1>2, Sums
  <2>4. CASE Respond
    <3>1. phase = "lint" /\ phase' = "idle"
      BY <2>4 DEF Respond, NoPull
    <3>2. InPhase = Unread + 2 /\ InPhase' = 0
      BY <3>1 DEF InPhase
    <3> QED
      BY <3>2, <1>1, <1>2, Sums
  <2>5. ASSUME NEW f \in Files, CheckFile(f) PROVE InPhase' + OnTheWay' < InPhase + OnTheWay
    <3>1. phase = "check" /\ phase' = "check" /\ answer' = answer
      BY <2>5 DEF CheckFile, clientVars
    <3>2. Unread' = Unread - 1
      BY <2>5, OneRead DEF CheckFile
    <3>3. InPhase = Unread + Whole + 4 /\ InPhase' = Unread' + Whole + 4 /\ OnTheWay' = OnTheWay
      BY <3>1, <1>2 DEF InPhase, OnTheWay
    <3> QED
      BY <3>2, <3>3, <1>1, <1>2
  <2>6. ASSUME NEW f \in Files, LintFile(f) PROVE InPhase' + OnTheWay' < InPhase + OnTheWay
    <3>1. phase = "lint" /\ phase' = "lint" /\ answer' = answer
      BY <2>6 DEF LintFile, clientVars
    <3>2. Unread' = Unread - 1
      BY <2>6, OneRead DEF LintFile
    <3>3. InPhase = Unread + 2 /\ InPhase' = Unread' + 2 /\ OnTheWay' = OnTheWay
      BY <3>1, <1>2 DEF InPhase, OnTheWay
    <3> QED
      BY <3>2, <3>3, <1>1, <1>2
  <2> QED
    BY <2>1, <2>2, <2>3, <2>4, <2>5, <2>6 DEF Worker
<1>5. Cardinality(docs)' = Cardinality(docs)
  BY <1>3
<1> QED
  BY <1>1, <1>2, <1>3, <1>4, <1>5, SumsOfFour DEF ToPull

\* A document's pull ends, with a report or without one.
LEMMA DocumentLeavesLess ==
    ASSUME IsFiniteSet(Files), TypeOK, NEW f \in Opened, DocumentWorker(f)
    PROVE  ToPull' < ToPull
<1>1. /\ f \in docs /\ docs' = docs \ {f}
      /\ UNCHANGED <<phase, done, truth, answer, dropped>>
  BY DEF DocumentWorker, RespondDocument, FailDocument, clientVars
<1>2. Cardinality(docs') = Cardinality(docs) - 1
  BY <1>1, PullCounts, FS_RemoveElement
<1>3. InPhase' = InPhase /\ OnTheWay' = OnTheWay
  BY <1>1 DEF InPhase, Unread, Whole, InSet, OnTheWay
<1> QED
  BY <1>1, <1>2, <1>3, PullCounts DEF ToPull

\* The client takes an answer.
LEMMA TakingLeavesLess ==
    ASSUME IsFiniteSet(Files), TypeOK, TakeAnswer
    PROVE  ToPull' < ToPull
<1>1. /\ answer # None /\ answer' = None
      /\ UNCHANGED <<phase, done, truth, docs, dropped>>
  BY DEF TakeAnswer, serverVars
<1>2. InPhase' = InPhase /\ OnTheWay = 1 /\ OnTheWay' = 0
  BY <1>1 DEF InPhase, Unread, Whole, InSet, OnTheWay
<1> QED
  BY <1>1, <1>2, PullCounts DEF ToPull

\* A cancelled pull ends.
LEMMA DroppedLeavesLess ==
    ASSUME IsFiniteSet(Files), TypeOK, EndDropped
    PROVE  ToPull' < ToPull
<1>1. /\ dropped > 0 /\ dropped' = dropped - 1
      /\ UNCHANGED <<phase, done, truth, docs, answer>>
  BY DEF EndDropped, clientVars
<1>2. InPhase' = InPhase /\ OnTheWay' = OnTheWay
  BY <1>1 DEF InPhase, Unread, Whole, InSet, OnTheWay
<1> QED
  BY <1>1, <1>2, PullCounts DEF ToPull

\* While a write waits, each step but the write itself takes from what the
\* pulls have to do, and no pull begins; with nothing left of it the write
\* can be made.  So a write waits for no more steps than ToPull says, with
\* nobody to wait on in a circle (salsa's cancellation, diagnostics.rs).
THEOREM PullsGiveWay ==
    ASSUME IsFiniteSet(Files)
    PROVE  Spec => /\ [](ToPull \in Nat)
                   /\ [](ToPull = 0 => phase = "idle" /\ docs = {} /\ dropped = 0)
                   /\ [][waiting # None => EndWrite \/ ToPull' < ToPull]_vars
<1> DEFINE FreeAtNone == ToPull = 0 => phase = "idle" /\ docs = {} /\ dropped = 0
           Gives == waiting # None => EndWrite \/ ToPull' < ToPull
<1>1. TypeOK => ToPull \in Nat
  BY PullCounts
<1>2. TypeOK => FreeAtNone
  <2> SUFFICES ASSUME TypeOK, ToPull = 0 PROVE phase = "idle" /\ docs = {} /\ dropped = 0
    BY DEF FreeAtNone
  <2>1. InPhase = 0 /\ Cardinality(docs) = 0 /\ dropped = 0
    BY PullCounts DEF ToPull
  <2>2. docs = {}
    BY <2>1, PullCounts, FS_EmptySet
  <2>3. phase # "config" /\ phase # "check" /\ phase # "lint"
    <3>1. phase # "config"
      BY <2>1, PullCounts DEF InPhase
    <3>2. phase # "check"
      BY <2>1, PullCounts DEF InPhase
    <3>3. phase # "lint"
      BY <2>1, PullCounts DEF InPhase
    <3> QED
      BY <3>1, <3>2, <3>3
  <2> QED
    BY <2>1, <2>2, <2>3 DEF TypeOK
<1>3. TypeOK /\ TypeOK' /\ [Next]_vars => [Gives]_vars
  <2> SUFFICES ASSUME TypeOK, TypeOK', Next, waiting # None
               PROVE  EndWrite \/ ToPull' < ToPull
    BY DEF Gives
  <2>1. \/ EndWrite \/ Worker \/ EndDropped \/ TakeAnswer
        \/ \E f \in Opened : DocumentWorker(f)
    BY DEF Next, BeginWrite, CancelPull, Client, StartPull, StartDocument
  <2> QED
    BY <2>1, WorkerLeavesLess, DocumentLeavesLess, TakingLeavesLess, DroppedLeavesLess
<1> QED
  BY <1>1, <1>2, <1>3, PullTypesHold, PTL DEF Spec
=============================================================================
