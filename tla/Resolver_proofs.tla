--------------------------- MODULE Resolver_proofs ---------------------------
(***************************************************************************)
(* Proofs about Resolver: for every project, whatever the number of its    *)
(* folders and the order of its names, a resolution that ends is the one   *)
(* of the graph of what is asked for, and each step brings the end nearer. *)
(***************************************************************************)
EXTENDS Resolver, FiniteSetTheorems, TLAPS

USE ResolverAssumption DEF ResolverAssumption

Frames == [dir : Folders, left : SUBSET Dependencies, hashed : Folders \cup {None}]

-----------------------------------------------------------------------------
(* The inductive invariant, in parts.                                        *)

\* A name is read from one folder.
Placed ==
    /\ \A n \in DOMAIN required : required[n] \in Read /\ NameOf[required[n]] = n
    /\ \A f \in Read : NameOf[f] \in DOMAIN required /\ required[NameOf[f]] = f
    /\ standard # None => standard \in Read

\* A walk is of the workspace or of a library, and held to the right folder.
Walks ==
    \A i \in 1..Len(stack) :
        /\ stack[i].dir \in Asking(Read)
        /\ stack[i].left \subseteq asks[stack[i].dir]
        /\ PathsStayOut => stack[i].hashed = FetchedIn[stack[i].dir]

\* Each dependency has its answer, or waits in a walk.
HasAnswer(f, e) ==
    \/ e.kind # "lost" /\ e.dir \in Read /\ (PathsStayOut => Well(f, e))
    \/ [by |-> f, name |-> e.name] \in problems
Waits(f, e) == \E i \in 1..Len(stack) : stack[i].dir = f /\ e \in stack[i].left
Answered == \A f \in Asking(Read) : \A e \in asks[f] : HasAnswer(f, e) \/ Waits(f, e)

\* Nothing is read, and nothing told, without a cause.
Caused ==
    /\ Read \subseteq Reached \cup {standard}
    /\ PathsStayOut /\ Sound => problems = {}

ResolverInv == TypeOK /\ Placed /\ Walks /\ Answered /\ Caused

-----------------------------------------------------------------------------
(* The graph.                                                                *)

\* What the config.toml files ask for.
LEMMA AskedTypes ==
    ASSUME TypeOK
    PROVE  /\ asks \in [Folders -> SUBSET Dependencies] /\ standard \in Folders \cup {None}
           /\ \A f \in Folders : \A e \in asks[f] :
                 /\ e \in Dependencies /\ e.name \in Names
                 /\ e.kind \in {"path", "url", "lost"}
                 /\ e.kind # "lost" => e.dir \in Folders
                 /\ e.kind = "url" => FetchedIn[e.dir] = e.dir
           /\ standard # None => NameOf[standard] # None
           /\ Read \subseteq Folders
<1>1. asks \in Projects /\ standard \in Standards
  BY DEF TypeOK
<1>2. asks \in [Folders -> SUBSET Dependencies] /\ standard \in Folders \cup {None}
  BY <1>1
<1>3. ASSUME NEW f \in Folders, NEW e \in asks[f]
      PROVE  /\ e \in Dependencies /\ e.name \in Names
             /\ e.kind \in {"path", "url", "lost"}
             /\ e.kind # "lost" => e.dir \in Folders
             /\ e.kind = "url" => FetchedIn[e.dir] = e.dir
  <2>1. e \in Dependencies
    BY <1>2
  <2>2. e.name \in Names /\ e.kind \in {"path", "url", "lost"} /\ (e.kind # "lost" => e.dir \in Folders)
    BY <2>1 DEF Dependencies
  <2>3. e.kind = "url" => FetchedIn[e.dir] = e.dir
    BY <1>1
  <2> QED
    BY <2>1, <2>2, <2>3
<1>4. Read \subseteq Folders
  BY DEF TypeOK, Read
<1> QED
  BY <1>1, <1>2, <1>3, <1>4

\* What is reached asks for what is reached.
LEMMA ReachedIsClosed ==
    ASSUME TypeOK, NEW f \in Asking(Reached), NEW e \in asks[f], e.kind # "lost"
    PROVE  e.dir \in Reached
<1>1. f \in Folders
  BY DEF Asking, Reached
<1>2. e.dir \in Folders
  BY <1>1, AskedTypes
<1>3. ASSUME NEW S \in SUBSET Folders, Closed(S) PROVE e.dir \in S
  <2>1. f \in Asking(S)
    BY <1>3 DEF Asking, Reached
  <2> QED
    BY <1>3, <2>1 DEF Closed
<1> QED
  BY <1>2, <1>3 DEF Reached

\* Those that ask are reached.
LEMMA AskingIsReached ==
    ASSUME Caused PROVE Asking(Read) \subseteq Asking(Reached)
BY DEF Caused, Asking

-----------------------------------------------------------------------------
(* The steps.                                                                *)

\* The walk of the workspace has all of its dependencies ahead.
LEMMA InitResolver == Init => ResolverInv
<1> SUFFICES ASSUME Init PROVE ResolverInv
  OBVIOUS
<1>1. asks \in Projects /\ standard \in Standards /\ problems = {}
  BY DEF Init
<1>2. asks \in [Folders -> SUBSET Dependencies]
  BY <1>1
<1>3. /\ Len(stack) = 1 /\ stack \in Seq(Frames)
      /\ stack[1].dir = Workspace /\ stack[1].left = asks[Workspace] /\ stack[1].hashed = None
  BY <1>2 DEF Init, Walk, Frames
<1>4. standard = None => Read = {} /\ DOMAIN required = {} /\ libraries = <<>>
  BY DEF Init, Read
<1>5. standard # None => /\ Read = {standard} /\ DOMAIN required = {NameOf[standard]}
                         /\ required[NameOf[standard]] = standard
                         /\ libraries \in Seq(Folders) /\ standard \in Folders
                         /\ NameOf[standard] \in Names
  <2> SUFFICES ASSUME standard # None
               PROVE  /\ Read = {standard} /\ DOMAIN required = {NameOf[standard]}
                      /\ required[NameOf[standard]] = standard
                      /\ libraries \in Seq(Folders) /\ standard \in Folders
                      /\ NameOf[standard] \in Names
    OBVIOUS
  <2>1. standard \in Folders /\ NameOf[standard] \in Names
    BY <1>1
  <2>2. libraries = <<standard>> /\ required = [n \in {NameOf[standard]} |-> standard]
    BY DEF Init
  <2>3. DOMAIN libraries = {1} /\ libraries[1] = standard /\ libraries \in Seq(Folders)
    BY <2>1, <2>2
  <2> QED
    BY <2>1, <2>2, <2>3 DEF Read
<1>6. TypeOK
  <2>1. libraries \in Seq(Folders)
    <3>1. <<>> \in Seq(Folders)
      OBVIOUS
    <3> QED
      BY <1>4, <1>5, <3>1
  <2>2. DOMAIN required \subseteq Names /\ \A n \in DOMAIN required : required[n] \in Folders
    BY <1>4, <1>5
  <2> QED
    BY <1>1, <1>3, <2>1, <2>2 DEF TypeOK, Frames
<1>7. Placed
  BY <1>4, <1>5 DEF Placed
<1>8. Asking(Read) = {Workspace}
  BY <1>4, <1>5 DEF Asking
<1>9. Walks
  BY <1>3, <1>8 DEF Walks
<1>10. Answered
  BY <1>3, <1>8 DEF Answered, Waits
<1>11. Caused
  BY <1>1, <1>4, <1>5 DEF Caused
<1> QED
  BY <1>6, <1>7, <1>9, <1>10, <1>11 DEF ResolverInv

\* The innermost walk, and its next dependency.
LEMMA TopTypes ==
    ASSUME ResolverInv, NEW e, IsNext(e)
    PROVE  /\ Len(stack) \in Nat \ {0} /\ Top = stack[Len(stack)] /\ stack[Len(stack)] \in Frames
           /\ Top.dir \in Asking(Read) /\ Top.dir \in Folders /\ Top.hashed \in Folders \cup {None}
           /\ e \in Top.left /\ e \in asks[Top.dir]
           /\ PathsStayOut => Top.hashed = FetchedIn[Top.dir]
<1>1. stack \in Seq(Frames) /\ stack # <<>> /\ e \in Top.left
  BY DEF ResolverInv, TypeOK, IsNext, Done, Frames
<1>2. Len(stack) \in Nat \ {0} /\ stack[Len(stack)] \in Frames
  BY <1>1
<1>3. /\ Top.dir \in Asking(Read) /\ Top.left \subseteq asks[Top.dir]
      /\ PathsStayOut => Top.hashed = FetchedIn[Top.dir]
  BY <1>2 DEF Top, ResolverInv, Walks
<1> QED
  BY <1>1, <1>2, <1>3 DEF Top, Frames

\* The walks when one dependency is behind: what else waits, waits on.
LEMMA PassedTypes ==
    ASSUME ResolverInv, NEW e, IsNext(e)
    PROVE  /\ Passed(e) \in Seq(Frames) /\ Len(Passed(e)) = Len(stack)
           /\ \A i \in 1..Len(stack) :
                 /\ Passed(e)[i].dir = stack[i].dir /\ Passed(e)[i].hashed = stack[i].hashed
                 /\ Passed(e)[i].left \subseteq stack[i].left
                 /\ \A d \in stack[i].left : d \in Passed(e)[i].left \/ (d = e /\ stack[i].dir = Top.dir)
<1> DEFINE n == Len(stack)
<1>1. n \in Nat \ {0} /\ stack \in Seq(Frames) /\ Top = stack[n] /\ stack[n] \in Frames
  BY TopTypes DEF ResolverInv, TypeOK, Frames
<1> DEFINE x == [stack[n] EXCEPT !.left = @ \ {e}]
<1>2. Passed(e) = [stack EXCEPT ![n] = x]
  BY <1>1 DEF Passed
<1>3. x \in Frames /\ x.dir = stack[n].dir /\ x.hashed = stack[n].hashed /\ x.left = stack[n].left \ {e}
  BY <1>1 DEF Frames
<1> HIDE DEF x
<1>4. Passed(e) \in Seq(Frames) /\ Len(Passed(e)) = n
  BY <1>1, <1>2, <1>3
<1>5. \A i \in 1..n : i # n => Passed(e)[i] = stack[i]
  BY <1>1, <1>2
<1>6. Passed(e)[n] = x
  BY <1>1, <1>2
<1>7. /\ Passed(e)[n].dir = stack[n].dir /\ Passed(e)[n].hashed = stack[n].hashed
      /\ Passed(e)[n].left = stack[n].left \ {e}
  BY <1>3, <1>6
<1> HIDE DEF n
<1>8. ASSUME NEW i \in 1..n
      PROVE  /\ Passed(e)[i].dir = stack[i].dir /\ Passed(e)[i].hashed = stack[i].hashed
             /\ Passed(e)[i].left \subseteq stack[i].left
             /\ \A d \in stack[i].left : d \in Passed(e)[i].left \/ (d = e /\ stack[i].dir = Top.dir)
  <2>1. CASE i = n
    BY <1>1, <1>7, <2>1
  <2>2. CASE i # n
    BY <1>5, <2>2
  <2> QED
    BY <2>1, <2>2
<1> QED
  BY <1>4, <1>8 DEF n

\* What the files ask for stays, and so does what is right of it.
LEMMA GraphStays ==
    ASSUME UNCHANGED <<asks, standard>>
    PROVE  /\ PathsStayOut' <=> PathsStayOut
           /\ Reached' = Reached /\ (Sound' <=> Sound)
           /\ \A f, e : Well(f, e)' <=> Well(f, e)
<1>1. PathsStayOut' <=> PathsStayOut
  BY DEF PathsStayOut
<1>2. Reached' = Reached
  BY DEF Reached, Closed, Asking
<1>3. \A f, e : Well(f, e)' <=> Well(f, e)
  BY DEF Well
<1>4. Sound' <=> Sound
  BY <1>2 DEF Sound, Asking, Well
<1> QED
  BY <1>1, <1>2, <1>3, <1>4

\* A dependency that can be read is as it should be, and the other is not.
LEMMA ReadableIsWell ==
    ASSUME ResolverInv, PathsStayOut, NEW e, IsNext(e)
    PROVE  Readable(e) <=> Well(Top.dir, e)
<1>1. /\ Top.hashed = FetchedIn[Top.dir] /\ Top.dir \in Folders /\ e \in asks[Top.dir]
      /\ e.kind \in {"path", "url", "lost"}
  BY TopTypes, AskedTypes DEF ResolverInv
<1> QED
  BY <1>1 DEF Readable, Located, Well

\* What does not change the libraries, and answers e, keeps the invariant.
LEMMA PassStep ==
    ASSUME ResolverInv, NEW e, IsNext(e), NEW g, g = Top.dir, stack' = Passed(e),
           UNCHANGED <<asks, standard, required, libraries>>,
           problems \subseteq problems',
           problems' \subseteq [by : Folders, name : Names],
           HasAnswer(g, e)',
           PathsStayOut /\ Sound => problems' = {}
    PROVE  ResolverInv'
<1>1. Read' = Read /\ Asking(Read)' = Asking(Read)
  BY DEF Read, Asking
<1>2. /\ stack' \in Seq(Frames) /\ Len(stack') = Len(stack)
      /\ \A i \in 1..Len(stack) :
            /\ stack'[i].dir = stack[i].dir /\ stack'[i].hashed = stack[i].hashed
            /\ stack'[i].left \subseteq stack[i].left
            /\ \A d \in stack[i].left : d \in stack'[i].left \/ (d = e /\ stack[i].dir = Top.dir)
  BY PassedTypes
<1>3. /\ PathsStayOut' <=> PathsStayOut
      /\ Reached' = Reached /\ (Sound' <=> Sound)
      /\ \A f, d : Well(f, d)' <=> Well(f, d)
  BY GraphStays
<1>4. TypeOK'
  BY <1>2 DEF ResolverInv, TypeOK, Frames
<1>5. Placed'
  BY <1>1 DEF ResolverInv, Placed
<1>6. Walks'
  BY <1>1, <1>2, <1>3 DEF ResolverInv, Walks
<1>7. Answered'
  <2> SUFFICES ASSUME NEW f \in Asking(Read), NEW d \in asks[f]
               PROVE  HasAnswer(f, d)' \/ Waits(f, d)'
    BY <1>1 DEF Answered
  <2>1. CASE HasAnswer(f, d)
    BY <1>1, <1>3, <2>1 DEF HasAnswer
  <2>2. CASE Waits(f, d)
    <3>1. PICK i \in 1..Len(stack) : stack[i].dir = f /\ d \in stack[i].left
      BY <2>2 DEF Waits
    <3>2. CASE d \in stack'[i].left
      BY <1>2, <3>1, <3>2 DEF Waits
    <3>3. CASE d = e /\ stack[i].dir = Top.dir
      BY <3>1, <3>3
    <3> QED
      BY <1>2, <3>1, <3>2, <3>3
  <2> QED
    BY <2>1, <2>2 DEF ResolverInv, Answered
<1>8. Caused'
  BY <1>1, <1>3 DEF ResolverInv, Caused
<1> QED
  BY <1>4, <1>5, <1>6, <1>7, <1>8 DEF ResolverInv

\* A dependency that is not located, or may not be read, is a problem
\* (locate, read).
LEMMA RejectStep ==
    ASSUME ResolverInv, NEW e, Reject(e) PROVE ResolverInv'
<1>1. PICK g \in Folders : g = Top.dir
  BY TopTypes DEF Reject
<1>2. /\ IsNext(e) /\ ~Readable(e) /\ stack' = Passed(e)
      /\ problems' = problems \cup {[by |-> g, name |-> e.name]}
      /\ UNCHANGED <<asks, standard, required, libraries>>
  BY <1>1 DEF Reject, Problem
<1>3. e \in asks[g] /\ e.name \in Names /\ g \in Asking(Read)
  BY <1>1, <1>2, TopTypes, AskedTypes DEF ResolverInv
<1>4. problems' \subseteq [by : Folders, name : Names]
  BY <1>2, <1>3 DEF ResolverInv, TypeOK
<1>5. HasAnswer(g, e)'
  BY <1>2 DEF HasAnswer
<1>6. ~(PathsStayOut /\ Sound)
  BY <1>1, <1>2, <1>3, ReadableIsWell, AskingIsReached DEF ResolverInv, Sound
<1> QED
  BY <1>1, <1>2, <1>4, <1>5, <1>6, PassStep

\* A dependency on a library that was read is answered by it.
LEMMA ShareLibraryStep ==
    ASSUME ResolverInv, NEW e, ShareLibrary(e) PROVE ResolverInv'
<1>1. PICK g \in Folders : g = Top.dir
  BY TopTypes DEF ShareLibrary
<1>2. /\ IsNext(e) /\ Readable(e) /\ ReadAlready(e) /\ stack' = Passed(e) /\ problems' = problems
      /\ UNCHANGED <<asks, standard, required, libraries>>
  BY DEF ShareLibrary
<1>3. e.kind # "lost" /\ e.dir \in Read /\ (PathsStayOut => Well(g, e))
  <2>1. PathsStayOut => Well(g, e)
    BY <1>1, <1>2, ReadableIsWell
  <2> QED
    BY <1>2, <2>1 DEF ResolverInv, Placed, ReadAlready, Readable, Located
<1>4. HasAnswer(g, e)'
  <2>1. Read' = Read /\ (PathsStayOut' <=> PathsStayOut) /\ (Well(g, e)' <=> Well(g, e))
    BY <1>2, GraphStays DEF Read
  <2> QED
    BY <1>3, <2>1 DEF HasAnswer
<1>5. problems' \subseteq [by : Folders, name : Names] /\ (PathsStayOut /\ Sound => problems' = {})
  BY <1>2 DEF ResolverInv, TypeOK, Caused
<1> QED
  BY <1>1, <1>2, <1>4, <1>5, PassStep

\* A second folder of one name is a problem.
LEMMA RejectSecondStep ==
    ASSUME ResolverInv, NEW e, RejectSecond(e) PROVE ResolverInv'
<1>1. PICK g \in Folders : g = Top.dir
  BY TopTypes DEF RejectSecond
<1>2. /\ IsNext(e) /\ Readable(e) /\ SameName(e) /\ ~ReadAlready(e) /\ stack' = Passed(e)
      /\ problems' = problems \cup {[by |-> g, name |-> e.name]}
      /\ UNCHANGED <<asks, standard, required, libraries>>
  BY <1>1 DEF RejectSecond, Problem
<1>3. e \in asks[g] /\ e.name \in Names /\ g \in Asking(Read)
  BY <1>1, <1>2, TopTypes, AskedTypes DEF ResolverInv
<1>4. problems' \subseteq [by : Folders, name : Names]
  BY <1>2, <1>3 DEF ResolverInv, TypeOK
<1>5. HasAnswer(g, e)'
  BY <1>2 DEF HasAnswer
<1>6. ~Sound
  <2>1. e.dir \in Reached
    <3>1. g \in Asking(Reached)
      BY <1>3, AskingIsReached DEF ResolverInv
    <3> QED
      BY <1>2, <1>3, <3>1, ReachedIsClosed DEF ResolverInv, Readable, Located
  <2>2. PICK f \in Read : f = required[e.name] /\ NameOf[f] = e.name /\ f # e.dir
    BY <1>2 DEF ResolverInv, Placed, SameName, ReadAlready
  <2>3. f \in Reached \cup ({standard} \ {None})
    <3>1. f \in Folders
      BY AskedTypes DEF ResolverInv
    <3> QED
      BY <3>1 DEF ResolverInv, Caused
  <2>4. NameOf[e.dir] = e.name
    BY <1>2 DEF Readable
  <2> QED
    BY <2>1, <2>2, <2>3, <2>4 DEF Sound
<1> QED
  BY <1>1, <1>2, <1>4, <1>5, <1>6, PassStep

\* A library read is one more walk, with all of its dependencies ahead (read).
LEMMA ReadLibraryStep ==
    ASSUME ResolverInv, NEW e, ReadLibrary(e) PROVE ResolverInv'
<1> DEFINE n == Len(stack)
           F == Walk(e.dir, Hashed(e))
<1>1. PICK g \in Folders : g = Top.dir
  BY TopTypes DEF ReadLibrary
<1>2. /\ IsNext(e) /\ Readable(e) /\ ~SameName(e)
      /\ required' = Recorded(e) /\ libraries' = Append(libraries, e.dir)
      /\ stack' = Append(Passed(e), F)
      /\ UNCHANGED <<asks, standard, problems>>
  BY DEF ReadLibrary
<1>3. /\ TypeOK /\ e \in asks[g] /\ g \in Asking(Read) /\ e.name \in Names /\ e.kind # "lost"
      /\ e.dir \in Folders /\ e.dir # Workspace /\ NameOf[e.dir] = e.name
      /\ e.kind \in {"path", "url"}
  BY <1>1, <1>2, TopTypes, AskedTypes DEF ResolverInv, Readable, Located
<1>4. e.dir # standard /\ e.dir \notin Read
  BY <1>2, <1>3 DEF ResolverInv, Placed, SameName
<1>5. libraries' \in Seq(Folders) /\ Read' = Read \cup {e.dir}
  <2>1. libraries \in Seq(Folders)
    BY <1>3 DEF TypeOK
  <2>2. /\ libraries' \in Seq(Folders) /\ DOMAIN libraries' = DOMAIN libraries \cup {Len(libraries) + 1}
        /\ \A i \in DOMAIN libraries : libraries'[i] = libraries[i]
        /\ libraries'[Len(libraries) + 1] = e.dir
    BY <1>2, <1>3, <2>1
  <2> QED
    BY <2>2 DEF Read
<1>6. Asking(Read)' = Asking(Read) \cup {e.dir}
  BY <1>2, <1>4, <1>5 DEF Asking
<1>7. /\ PathsStayOut' <=> PathsStayOut
      /\ Reached' = Reached /\ (Sound' <=> Sound)
      /\ \A f, d : Well(f, d)' <=> Well(f, d)
  BY <1>2, GraphStays
<1>8. F \in Frames /\ F.dir = e.dir /\ F.left = asks[e.dir] /\ F.hashed = Hashed(e)
  <2>1. Hashed(e) \in Folders \cup {None}
    BY <1>2, <1>3, TopTypes DEF Hashed
  <2>2. asks[e.dir] \in SUBSET Dependencies
    BY <1>3, AskedTypes
  <2> QED
    BY <1>3, <2>1, <2>2 DEF Walk, Frames
<1>9. PathsStayOut => Hashed(e) = FetchedIn[e.dir]
  <2> SUFFICES ASSUME PathsStayOut PROVE Hashed(e) = FetchedIn[e.dir]
    OBVIOUS
  <2>1. Top.hashed = FetchedIn[g] /\ FetchedIn[g] \in Folders \cup {None}
    BY <1>1, <1>2, TopTypes
  <2>2. CASE e.kind = "url"
    BY <1>3, <2>2, AskedTypes DEF Hashed
  <2>3. CASE e.kind = "path" /\ Top.hashed # None
    BY <1>2, <2>3 DEF Hashed, Readable, Located
  <2>4. CASE e.kind = "path" /\ Top.hashed = None
    BY <1>3, <2>1, <2>4 DEF Hashed, PathsStayOut
  <2> QED
    BY <1>3, <2>2, <2>3, <2>4
<1>10. /\ n \in Nat /\ stack' \in Seq(Frames) /\ Len(stack') = n + 1 /\ stack'[n + 1] = F
       /\ \A i \in 1..n :
             /\ stack'[i].dir = stack[i].dir /\ stack'[i].hashed = stack[i].hashed
             /\ stack'[i].left \subseteq stack[i].left
             /\ \A d \in stack[i].left : d \in stack'[i].left \/ (d = e /\ stack[i].dir = g)
  <2> HIDE DEF F
  <2>1. n \in Nat
    BY <1>2, TopTypes
  <2>2. Passed(e) \in Seq(Frames) /\ Len(Passed(e)) = n
    BY <1>2, PassedTypes
  <2>3. /\ stack' \in Seq(Frames) /\ Len(stack') = n + 1 /\ stack'[n + 1] = F
        /\ \A i \in 1..n : stack'[i] = Passed(e)[i]
    BY <1>2, <1>8, <2>2
  <2> HIDE DEF n
  <2>4. \A i \in 1..n :
             /\ Passed(e)[i].dir = stack[i].dir /\ Passed(e)[i].hashed = stack[i].hashed
             /\ Passed(e)[i].left \subseteq stack[i].left
             /\ \A d \in stack[i].left : d \in Passed(e)[i].left \/ (d = e /\ stack[i].dir = g)
    BY <1>1, <1>2, PassedTypes DEF n
  <2> QED
    BY <2>1, <2>3, <2>4
<1> HIDE DEF n, F
<1>11. /\ DOMAIN required' = DOMAIN required \cup {e.name} /\ required'[e.name] = e.dir
       /\ \A m \in DOMAIN required : m # e.name /\ required'[m] = required[m]
  BY <1>2 DEF Recorded, SameName
<1>12. TypeOK'
  <2>1. DOMAIN required' \subseteq Names /\ \A m \in DOMAIN required' : required'[m] \in Folders
    BY <1>3, <1>11 DEF TypeOK
  <2> QED
    BY <1>2, <1>3, <1>5, <1>10, <2>1 DEF TypeOK, Frames
<1>13. Placed'
  <2>1. \A m \in DOMAIN required' : required'[m] \in Read' /\ NameOf[required'[m]] = m
    BY <1>3, <1>5, <1>11 DEF ResolverInv, Placed
  <2>2. \A f \in Read' : NameOf[f] \in DOMAIN required' /\ required'[NameOf[f]] = f
    BY <1>3, <1>5, <1>11 DEF ResolverInv, Placed
  <2>3. standard' # None => standard' \in Read'
    BY <1>2, <1>5 DEF ResolverInv, Placed
  <2> QED
    BY <2>1, <2>2, <2>3 DEF Placed
<1>14. Walks'
  <2> SUFFICES ASSUME NEW i \in 1..(n + 1)
               PROVE  /\ stack'[i].dir \in Asking(Read) \cup {e.dir}
                      /\ stack'[i].left \subseteq asks[stack'[i].dir]
                      /\ PathsStayOut => stack'[i].hashed = FetchedIn[stack'[i].dir]
    BY <1>2, <1>6, <1>7, <1>10 DEF Walks
  <2>1. CASE i = n + 1
    BY <1>8, <1>9, <1>10, <2>1
  <2>2. CASE i \in 1..n
    <3>1. /\ stack[i].dir \in Asking(Read) /\ stack[i].left \subseteq asks[stack[i].dir]
          /\ PathsStayOut => stack[i].hashed = FetchedIn[stack[i].dir]
      BY <2>2 DEF ResolverInv, Walks, n
    <3> QED
      BY <1>10, <2>2, <3>1
  <2> QED
    BY <1>10, <2>1, <2>2
<1>15. Answered'
  <2> SUFFICES ASSUME NEW f \in Asking(Read) \cup {e.dir}, NEW d \in asks[f]
               PROVE  HasAnswer(f, d)' \/ Waits(f, d)'
    BY <1>2, <1>6 DEF Answered
  <2>1. CASE f = e.dir
    BY <1>8, <1>10, <2>1 DEF Waits
  <2>2. CASE f \in Asking(Read) /\ HasAnswer(f, d)
    BY <1>2, <1>5, <1>7, <2>2 DEF HasAnswer
  <2>3. CASE f \in Asking(Read) /\ Waits(f, d)
    <3>1. PICK i \in 1..n : stack[i].dir = f /\ d \in stack[i].left
      BY <2>3 DEF Waits, n
    <3>2. i \in 1..Len(stack')
      BY <1>10
    <3>3. CASE d \in stack'[i].left
      BY <1>10, <3>1, <3>2, <3>3 DEF Waits
    <3>4. CASE d = e /\ f = g
      <4>1. PathsStayOut => Well(g, e)
        BY <1>1, <1>2, ReadableIsWell
      <4> QED
        BY <1>3, <1>5, <1>7, <3>4, <4>1 DEF HasAnswer
    <3> QED
      BY <1>10, <3>1, <3>3, <3>4
  <2> QED
    BY <2>1, <2>2, <2>3 DEF ResolverInv, Answered
<1>16. Caused'
  <2>1. e.dir \in Reached
    <3>1. g \in Asking(Reached)
      BY <1>3, AskingIsReached DEF ResolverInv
    <3> QED
      BY <1>3, <3>1, ReachedIsClosed
  <2>2. Read' \subseteq Reached' \cup {standard'}
    BY <1>2, <1>5, <1>7, <2>1 DEF ResolverInv, Caused
  <2>3. PathsStayOut' /\ Sound' => problems' = {}
    BY <1>2, <1>7 DEF ResolverInv, Caused
  <2> QED
    BY <2>2, <2>3 DEF Caused
<1> QED
  BY <1>12, <1>13, <1>14, <1>15, <1>16 DEF ResolverInv

\* A walk ends only with nothing left, so nothing unanswered goes with it.
LEMMA ReturnStep ==
    ASSUME ResolverInv, Return PROVE ResolverInv'
<1>1. PICK n \in Nat \ {0} : n = Len(stack)
  BY DEF ResolverInv, TypeOK, Return, Done
<1>2. /\ stack \in Seq(Frames) /\ stack[n].left = {} /\ stack' = SubSeq(stack, 1, n - 1)
      /\ UNCHANGED <<asks, standard, required, libraries, problems>>
  BY <1>1 DEF Return, ResolverInv, TypeOK, Top, Frames
<1>3. stack' \in Seq(Frames) /\ Len(stack') = n - 1 /\ \A i \in 1..(n - 1) : stack'[i] = stack[i]
  BY <1>1, <1>2
<1>4. Read' = Read /\ Asking(Read)' = Asking(Read)
  BY <1>2 DEF Read, Asking
<1>5. /\ PathsStayOut' <=> PathsStayOut
      /\ Reached' = Reached /\ (Sound' <=> Sound)
      /\ \A f, d : Well(f, d)' <=> Well(f, d)
  BY <1>2, GraphStays
<1>6. TypeOK' /\ Placed'
  <2>1. TypeOK'
    BY <1>2, <1>3 DEF ResolverInv, TypeOK, Frames
  <2>2. Placed'
    BY <1>2, <1>4 DEF ResolverInv, Placed
  <2> QED
    BY <2>1, <2>2
<1>7. Walks'
  BY <1>1, <1>2, <1>3, <1>4, <1>5 DEF ResolverInv, Walks
<1>8. Answered'
  <2> SUFFICES ASSUME NEW f \in Asking(Read), NEW d \in asks[f]
               PROVE  HasAnswer(f, d)' \/ Waits(f, d)'
    BY <1>2, <1>4 DEF Answered
  <2>1. CASE HasAnswer(f, d)
    BY <1>2, <1>4, <1>5, <2>1 DEF HasAnswer
  <2>2. CASE Waits(f, d)
    <3>1. PICK i \in 1..n : stack[i].dir = f /\ d \in stack[i].left
      BY <1>1, <2>2 DEF Waits
    <3>2. i \in 1..(n - 1)
      <4>1. i # n
        BY <1>2, <3>1
      <4> QED
        BY <3>1, <4>1
    <3> QED
      BY <1>3, <3>1, <3>2 DEF Waits
  <2> QED
    BY <2>1, <2>2 DEF ResolverInv, Answered
<1>9. Caused'
  BY <1>2, <1>4, <1>5 DEF ResolverInv, Caused
<1> QED
  BY <1>6, <1>7, <1>8, <1>9 DEF ResolverInv

\* Every step keeps the invariant.
LEMMA ResolverStep ==
    ASSUME ResolverInv, [Next]_vars PROVE ResolverInv'
<1>1. ASSUME NEW e \in Dependencies, Reject(e) PROVE ResolverInv'
  BY <1>1, RejectStep
<1>2. ASSUME NEW e \in Dependencies, ShareLibrary(e) PROVE ResolverInv'
  BY <1>2, ShareLibraryStep
<1>3. ASSUME NEW e \in Dependencies, RejectSecond(e) PROVE ResolverInv'
  BY <1>3, RejectSecondStep
<1>4. ASSUME NEW e \in Dependencies, ReadLibrary(e) PROVE ResolverInv'
  BY <1>4, ReadLibraryStep
<1>5. CASE Return
  BY <1>5, ReturnStep
<1>6. CASE UNCHANGED vars
  <2>1. /\ UNCHANGED <<asks, standard, stack, required, libraries, problems>>
        /\ Read' = Read /\ Asking(Read)' = Asking(Read)
    BY <1>6 DEF vars, Read, Asking
  <2>2. /\ PathsStayOut' <=> PathsStayOut
        /\ Reached' = Reached /\ (Sound' <=> Sound)
        /\ \A f, d : Well(f, d)' <=> Well(f, d)
    BY <2>1, GraphStays
  <2>3. TypeOK' /\ Placed'
    BY <2>1 DEF ResolverInv, TypeOK, Placed
  <2>4. Walks'
    BY <2>1, <2>2 DEF ResolverInv, Walks
  <2>5. Answered'
    <3>1. \A f, d : (HasAnswer(f, d)' <=> HasAnswer(f, d)) /\ (Waits(f, d)' <=> Waits(f, d))
      BY <2>1, <2>2 DEF HasAnswer, Waits
    <3> QED
      BY <2>1, <3>1 DEF ResolverInv, Answered
  <2>6. Caused'
    BY <2>1, <2>2 DEF ResolverInv, Caused
  <2> QED
    BY <2>3, <2>4, <2>5, <2>6 DEF ResolverInv
<1> QED
  BY <1>1, <1>2, <1>3, <1>4, <1>5, <1>6 DEF Next

\* The invariant holds in every reachable state.
LEMMA ResolverHolds == Spec => []ResolverInv
<1>1. Init => ResolverInv
  BY InitResolver
<1>2. ResolverInv /\ [Next]_vars => ResolverInv'
  BY ResolverStep
<1> QED
  BY <1>1, <1>2, PTL DEF Spec

-----------------------------------------------------------------------------
(* The theorems.                                                             *)

\* The walks, the libraries and the problems are what their names say
\* (dependencies.rs:315-322).
THEOREM ResolverTypesHold == Spec => []TypeOK
<1>1. ResolverInv => TypeOK
  BY DEF ResolverInv
<1> QED
  BY <1>1, ResolverHolds, PTL

\* A resolution that ends is the graph's: every dependency is a library or a
\* problem, and there are problems exactly when something is wrong, in any
\* project and any order of its names (dependencies.rs:10-14, 329-541).
THEOREM ResolvesAsAsked == Spec => []ResolvedAsAsked
<1>1. ResolverInv => ResolvedAsAsked
  <2> SUFFICES ASSUME ResolverInv, Done PROVE ResolvedAsAsked
    BY DEF ResolvedAsAsked
  <2>1. \A f \in Asking(Read) : \A e \in asks[f] : HasAnswer(f, e)
    <3>1. Len(stack) = 0
      BY DEF Done
    <3> QED
      BY <3>1 DEF ResolverInv, Answered, Waits
  <2>2. \A f \in Asking(Read) : \A e \in asks[f] :
            (e.kind # "lost" /\ e.dir \in Read) \/ [by |-> f, name |-> e.name] \in problems
    BY <2>1 DEF HasAnswer
  <2>3. \A f, h \in Read : NameOf[f] = NameOf[h] => f = h
    <3>1. \A f \in Read : required[NameOf[f]] = f
      BY DEF ResolverInv, Placed
    <3> QED
      BY <3>1
  <2>4. ASSUME PathsStayOut, problems = {} PROVE Sound
    <3>1. \A f \in Asking(Read) : \A e \in asks[f] : e.kind # "lost" /\ e.dir \in Read /\ Well(f, e)
      BY <2>1, <2>4 DEF HasAnswer
    <3>2. Read \in SUBSET Folders /\ Closed(Read)
      BY <3>1, AskedTypes DEF ResolverInv, Closed
    <3>3. Reached \subseteq Read
      BY <3>2 DEF Reached
    <3>4. \A f \in Asking(Reached) : \A e \in asks[f] : Well(f, e)
      BY <3>1, <3>3 DEF Asking
    <3>5. Reached \cup ({standard} \ {None}) \subseteq Read
      BY <3>3 DEF ResolverInv, Placed
    <3> QED
      BY <2>3, <3>4, <3>5 DEF Sound
  <2>5. ASSUME PathsStayOut, Sound PROVE problems = {}
    BY <2>5 DEF ResolverInv, Caused
  <2>6. Read \subseteq Reached \cup {standard}
    BY DEF ResolverInv, Caused
  <2> QED
    BY <2>2, <2>3, <2>4, <2>5, <2>6 DEF ResolvedAsAsked
<1> QED
  BY <1>1, ResolverHolds, PTL

-----------------------------------------------------------------------------
(* The walk gets on.                                                         *)

\* No folder is walked by two walks of the stack.
WalkedOnce == \A i, j \in 1..Len(stack) : stack[i].dir = stack[j].dir => i = j

\* What lies ahead of the walk: what the folders ask for that were not read,
\* and what waits in the walks.
Ahead ==
    {p \in Folders \X Dependencies :
        \/ p[1] \notin Read \cup {Workspace} /\ p[2] \in asks[p[1]]
        \/ Waits(p[1], p[2])}

\* A step leaves less ahead, or as much, and one walk less.
LeavesLess == Ahead' \subseteq Ahead /\ (Ahead' # Ahead \/ Len(stack') < Len(stack))

\* The library that is read next is walked by nobody.
LEMMA NotWalked ==
    ASSUME ResolverInv, NEW e, ReadLibrary(e)
    PROVE  /\ e.dir \in Folders /\ e.dir \notin Read \cup {Workspace}
           /\ \A i \in 1..Len(stack) : stack[i].dir # e.dir
<1>1. IsNext(e) /\ Readable(e) /\ ~SameName(e)
  BY DEF ReadLibrary
<1>2. e \in asks[Top.dir] /\ Top.dir \in Folders
  BY <1>1, TopTypes
<1>3. e.dir \in Folders /\ e.dir # Workspace /\ NameOf[e.dir] = e.name
  BY <1>1, <1>2, AskedTypes DEF ResolverInv, Readable, Located
<1>4. e.dir \notin Read
  BY <1>1, <1>3 DEF ResolverInv, Placed, SameName
<1> QED
  BY <1>3, <1>4 DEF ResolverInv, Walks, Asking

\* The stack after a library is read.
LEMMA ReadLibraryStack ==
    ASSUME ResolverInv, NEW e, ReadLibrary(e)
    PROVE  /\ Len(stack') = Len(stack) + 1 /\ Len(stack) \in Nat
           /\ \A i \in 1..Len(stack) : stack'[i] = Passed(e)[i]
           /\ stack'[Len(stack) + 1].dir = e.dir /\ stack'[Len(stack) + 1].left = asks[e.dir]
<1> DEFINE w == Walk(e.dir, Hashed(e))
<1>1. IsNext(e) /\ stack' = Append(Passed(e), w)
  BY DEF ReadLibrary
<1>2. Passed(e) \in Seq(Frames) /\ Len(Passed(e)) = Len(stack) /\ Len(stack) \in Nat
  BY <1>1, PassedTypes, TopTypes
<1>3. w.dir = e.dir /\ w.left = asks[e.dir]
  BY DEF Walk
<1> HIDE DEF w
<1>4. /\ Len(stack') = Len(stack) + 1
      /\ \A i \in 1..Len(stack) : stack'[i] = Passed(e)[i]
      /\ stack'[Len(stack) + 1] = w
  BY <1>1, <1>2
<1> QED
  BY <1>2, <1>3, <1>4

\* Every step keeps each folder walked once.
LEMMA WalkedOnceStep ==
    ASSUME ResolverInv, WalkedOnce, [Next]_vars PROVE WalkedOnce'
<1>1. ASSUME NEW e, IsNext(e), stack' = Passed(e) PROVE WalkedOnce'
  BY <1>1, PassedTypes DEF WalkedOnce
<1>2. ASSUME NEW e, ReadLibrary(e) PROVE WalkedOnce'
  <2>1. IsNext(e)
    BY <1>2 DEF ReadLibrary
  <2>2. /\ Len(stack') = Len(stack) + 1 /\ Len(stack) \in Nat
        /\ \A i \in 1..Len(stack) : stack'[i].dir = stack[i].dir
        /\ stack'[Len(stack) + 1].dir = e.dir
    <3>1. \A i \in 1..Len(stack) : Passed(e)[i].dir = stack[i].dir
      BY <2>1, PassedTypes
    <3> QED
      BY <1>2, <3>1, ReadLibraryStack
  <2>3. \A i \in 1..Len(stack) : stack[i].dir # e.dir
    BY <1>2, NotWalked
  <2> SUFFICES ASSUME NEW i \in 1..Len(stack'), NEW j \in 1..Len(stack'), stack'[i].dir = stack'[j].dir
               PROVE  i = j
    BY DEF WalkedOnce
  <2>4. \A k \in 1..Len(stack') : k \in 1..Len(stack) \/ k = Len(stack) + 1
    BY <2>2
  <2>5. CASE i \in 1..Len(stack) /\ j \in 1..Len(stack)
    BY <2>2, <2>5 DEF WalkedOnce
  <2>6. CASE i = Len(stack) + 1 \/ j = Len(stack) + 1
    BY <2>2, <2>3, <2>4, <2>6
  <2> QED
    BY <2>4, <2>5, <2>6
<1>3. CASE Return
  <2>1. PICK n \in Nat \ {0} : n = Len(stack)
    BY <1>3 DEF ResolverInv, TypeOK, Return, Done
  <2>2. stack \in Seq(Frames) /\ stack' = SubSeq(stack, 1, n - 1)
    BY <1>3, <2>1 DEF Return, ResolverInv, TypeOK, Frames
  <2>3. Len(stack') = n - 1 /\ \A i \in 1..(n - 1) : stack'[i] = stack[i]
    BY <2>1, <2>2
  <2> QED
    BY <2>1, <2>3 DEF WalkedOnce
<1>4. CASE UNCHANGED vars
  BY <1>4 DEF vars, WalkedOnce
<1> QED
  BY <1>1, <1>2, <1>3, <1>4 DEF Next, Reject, ShareLibrary, RejectSecond

\* In every reachable state.
LEMMA WalkedOnceHolds == Spec => [](ResolverInv /\ WalkedOnce)
<1>1. Init => WalkedOnce
  BY DEF Init, WalkedOnce
<1>2. Init => ResolverInv
  BY InitResolver
<1>3. ResolverInv /\ WalkedOnce /\ [Next]_vars => ResolverInv' /\ WalkedOnce'
  BY ResolverStep, WalkedOnceStep
<1> QED
  BY <1>1, <1>2, <1>3, PTL DEF Spec

\* What is behind the innermost walk is ahead no more, and nothing is that
\* was not.
LEMMA PassedLeavesLess ==
    ASSUME ResolverInv, WalkedOnce, NEW e, IsNext(e)
    PROVE  /\ <<Top.dir, e>> \in Ahead
           /\ \A i \in 1..Len(stack) : \A d \in Passed(e)[i].left :
                 Waits(Passed(e)[i].dir, d) /\ (Passed(e)[i].dir = Top.dir => d # e)
<1>1. PICK n \in Nat \ {0} : n = Len(stack)
  BY TopTypes
<1>2. /\ Top = stack[n] /\ stack[n] \in Frames /\ Top.dir \in Folders /\ e \in Top.left
      /\ stack \in Seq(Frames)
  BY <1>1, TopTypes DEF ResolverInv, TypeOK, Frames
<1>3. <<Top.dir, e>> \in Ahead
  <2>1. Waits(Top.dir, e)
    BY <1>1, <1>2 DEF Waits
  <2>2. e \in Dependencies
    BY <1>2 DEF Frames
  <2>3. <<Top.dir, e>>[1] = Top.dir /\ <<Top.dir, e>>[2] = e
    OBVIOUS
  <2> QED
    BY <1>2, <2>1, <2>2, <2>3 DEF Ahead
<1>4. Passed(e)[n].left = stack[n].left \ {e}
  <2>1. \A i \in 1..n : stack[i] \in Frames
    BY <1>1, <1>2
  <2> DEFINE x == [stack[n] EXCEPT !.left = @ \ {e}]
  <2>2. Passed(e) = [stack EXCEPT ![n] = x]
    BY <1>1 DEF Passed
  <2>3. x.left = stack[n].left \ {e}
    BY <1>2 DEF Frames
  <2> HIDE DEF x
  <2>4. Passed(e)[n] = x
    BY <1>1, <1>2, <2>2
  <2> QED
    BY <2>3, <2>4
<1>5. ASSUME NEW i \in 1..Len(stack), NEW d \in Passed(e)[i].left
      PROVE  Waits(Passed(e)[i].dir, d) /\ (Passed(e)[i].dir = Top.dir => d # e)
  <2>1. Passed(e)[i].dir = stack[i].dir /\ d \in stack[i].left
    BY PassedTypes
  <2>2. Waits(Passed(e)[i].dir, d)
    BY <2>1 DEF Waits
  <2>3. CASE i = n
    BY <1>4, <2>2, <2>3
  <2>4. CASE i # n
    <3>1. n \in 1..Len(stack)
      BY <1>1
    <3>2. stack[i].dir # stack[n].dir
      BY <2>4, <3>1 DEF WalkedOnce
    <3> QED
      BY <1>2, <2>1, <2>2, <3>2
  <2> QED
    BY <2>3, <2>4
<1> QED
  BY <1>3, <1>5

\* Every step leaves less.
LEMMA StepLeavesLess ==
    ASSUME ResolverInv, WalkedOnce, Next PROVE LeavesLess
<1>1. ASSUME NEW e, IsNext(e), stack' = Passed(e), UNCHANGED <<asks, libraries>> PROVE LeavesLess
  <2>1. Len(stack') = Len(stack)
    BY <1>1, PassedTypes
  <2>2. ASSUME NEW f, NEW d, Waits(f, d)' PROVE Waits(f, d) /\ ~(f = Top.dir /\ d = e)
    <3>1. PICK i \in 1..Len(stack) : Passed(e)[i].dir = f /\ d \in Passed(e)[i].left
      BY <1>1, <2>1, <2>2 DEF Waits
    <3>2. \A j \in 1..Len(stack) : \A c \in Passed(e)[j].left :
             Waits(Passed(e)[j].dir, c) /\ (Passed(e)[j].dir = Top.dir => c # e)
      BY <1>1, PassedLeavesLess
    <3> QED
      BY <3>1, <3>2
  <2>3. Read' = Read
    BY <1>1 DEF Read
  <2>4. Ahead' \subseteq Ahead
    BY <1>1, <2>2, <2>3 DEF Ahead
  <2>5. Top.dir \in Read \cup {Workspace}
    BY <1>1, TopTypes DEF Asking
  <2>6. <<Top.dir, e>> \notin Ahead'
    <3>1. <<Top.dir, e>>[1] = Top.dir /\ <<Top.dir, e>>[2] = e
      OBVIOUS
    <3> QED
      BY <2>2, <2>3, <2>5, <3>1 DEF Ahead
  <2> QED
    BY <1>1, <2>4, <2>6, PassedLeavesLess DEF LeavesLess
<1>2. ASSUME NEW e, ReadLibrary(e) PROVE LeavesLess
  <2>1. IsNext(e) /\ asks' = asks /\ libraries' = Append(libraries, e.dir)
    BY <1>2 DEF ReadLibrary
  <2>2. e.dir \in Folders /\ e.dir \notin Read \cup {Workspace}
    BY <1>2, NotWalked
  <2>3. Read' = Read \cup {e.dir}
    <3>1. libraries \in Seq(Folders)
      BY DEF ResolverInv, TypeOK
    <3>2. /\ DOMAIN libraries' = DOMAIN libraries \cup {Len(libraries) + 1}
          /\ \A i \in DOMAIN libraries : libraries'[i] = libraries[i]
          /\ libraries'[Len(libraries) + 1] = e.dir
      BY <2>1, <2>2, <3>1
    <3> QED
      BY <3>2 DEF Read
  <2>4. /\ Len(stack') = Len(stack) + 1 /\ Len(stack) \in Nat
        /\ \A i \in 1..Len(stack) : stack'[i] = Passed(e)[i]
        /\ stack'[Len(stack) + 1].dir = e.dir /\ stack'[Len(stack) + 1].left = asks[e.dir]
    BY <1>2, ReadLibraryStack
  <2>5. ASSUME NEW f, NEW d, Waits(f, d)'
        PROVE  \/ Waits(f, d) /\ ~(f = Top.dir /\ d = e)
               \/ f = e.dir /\ d \in asks[e.dir]
    <3>1. PICK i \in 1..Len(stack') : stack'[i].dir = f /\ d \in stack'[i].left
      BY <2>5 DEF Waits
    <3>2. CASE i \in 1..Len(stack)
      <4>1. Passed(e)[i].dir = f /\ d \in Passed(e)[i].left
        BY <2>4, <3>1, <3>2
      <4>2. \A j \in 1..Len(stack) : \A c \in Passed(e)[j].left :
               Waits(Passed(e)[j].dir, c) /\ (Passed(e)[j].dir = Top.dir => c # e)
        BY <2>1, PassedLeavesLess
      <4> QED
        BY <3>2, <4>1, <4>2
    <3>3. CASE i = Len(stack) + 1
      BY <2>4, <3>1, <3>3
    <3> QED
      BY <2>4, <3>2, <3>3
  <2>6. Top.dir \in Read \cup {Workspace} /\ Top.dir # e.dir
    BY <2>1, <2>2, TopTypes DEF Asking
  <2>7. Ahead' \subseteq Ahead
    BY <2>1, <2>2, <2>3, <2>5 DEF Ahead
  <2>8. <<Top.dir, e>> \notin Ahead'
    <3>1. <<Top.dir, e>>[1] = Top.dir /\ <<Top.dir, e>>[2] = e
      OBVIOUS
    <3> QED
      BY <2>3, <2>5, <2>6, <3>1 DEF Ahead
  <2> QED
    BY <2>1, <2>7, <2>8, PassedLeavesLess DEF LeavesLess
<1>3. CASE Return
  <2>1. PICK n \in Nat \ {0} : n = Len(stack)
    BY <1>3 DEF ResolverInv, TypeOK, Return, Done
  <2>2. stack \in Seq(Frames) /\ stack' = SubSeq(stack, 1, n - 1) /\ UNCHANGED <<asks, libraries>>
    BY <1>3, <2>1 DEF Return, ResolverInv, TypeOK, Frames
  <2>3. Len(stack') = n - 1 /\ \A i \in 1..(n - 1) : stack'[i] = stack[i]
    BY <2>1, <2>2
  <2>4. \A f, d : Waits(f, d)' => Waits(f, d)
    BY <2>1, <2>3 DEF Waits
  <2>5. Read' = Read
    BY <2>2 DEF Read
  <2>6. Ahead' \subseteq Ahead
    BY <2>2, <2>4, <2>5 DEF Ahead
  <2> QED
    BY <2>1, <2>3, <2>6 DEF LeavesLess
<1> QED
  BY <1>1, <1>2, <1>3 DEF Next, Reject, ShareLibrary, RejectSecond

\* Each step of the walk leaves less ahead of it, or ends one of its walks: on
\* finitely many folders it cannot go on for ever, though libraries lead back
\* to one another (dependencies.rs:512-516).
THEOREM EveryStepLeavesLess == Spec => [][LeavesLess]_vars
<1>1. ResolverInv /\ WalkedOnce /\ [Next]_vars => [LeavesLess]_vars
  BY StepLeavesLess
<1> QED
  BY <1>1, WalkedOnceHolds, PTL DEF Spec

\* The recursion of walk and read is never deeper than there are folders: the
\* bound MaxDepth cuts nothing off when it is above their number.
THEOREM WalksAreBounded ==
    ASSUME IsFiniteSet(Folders) PROVE Spec => [](Len(stack) <= Cardinality(Folders))
<1>1. ASSUME ResolverInv, WalkedOnce PROVE Len(stack) <= Cardinality(Folders)
  <2>1. stack \in Seq(Frames) /\ Len(stack) \in Nat
    BY <1>1 DEF ResolverInv, TypeOK, Frames
  <2>2. \A i \in 1..Len(stack) : stack[i].dir \in Folders
    <3>1. \A i \in 1..Len(stack) : stack[i] \in Frames
      BY <2>1
    <3> QED
      BY <3>1 DEF Frames
  <2> DEFINE dirs == [i \in 1..Len(stack) |-> stack[i].dir]
  <2>3. dirs \in Injection(1..Len(stack), Folders)
    BY <1>1, <2>2 DEF WalkedOnce, Injection, IsInjective
  <2> HIDE DEF dirs
  <2>4. Cardinality(1..Len(stack)) <= Cardinality(Folders)
    BY <2>3, FS_Injection
  <2>5. Cardinality(1..Len(stack)) = Len(stack)
    <3>1. 1 \in Int /\ Len(stack) \in Int
      BY <2>1
    <3>2. Cardinality(1..Len(stack)) = IF 1 > Len(stack) THEN 0 ELSE Len(stack) - 1 + 1
      BY <3>1, FS_Interval
    <3> QED
      BY <2>1, <3>2
  <2> QED
    BY <2>4, <2>5
<1> QED
  BY <1>1, WalkedOnceHolds, PTL
=============================================================================
