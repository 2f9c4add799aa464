---------------------------- MODULE Bands_proofs ----------------------------
(***************************************************************************)
(* Proofs about Bands: whatever the parts of a program and their shapes,   *)
(* its final addresses are aligned, apart and in their bands, provided     *)
(* that no part of a band is empty.                                        *)
(***************************************************************************)
EXTENDS Bands, WellFoundedInduction, TLAPS

USE BandsAssumption DEF BandsAssumption

-----------------------------------------------------------------------------
(* The parts.                                                              *)

Size(i) == parts[i].size
Res(i)  == Reserved(parts[i])
Grp(i)  == GroupOf(parts[i])
End(i)  == place[i] + Size(i)

\* What a part is.
LEMMA PartTypes ==
    ASSUME NEW p \in AnyPart
    PROVE  /\ p.kind \in Kinds /\ p.size \in Nat /\ p.align \in 1..MaxAlign
           /\ Reserved(p) \in Nat /\ p.size <= Reserved(p)
           /\ GroupOf(p) \in 1..8
           /\ p.kind \in Unbanded <=> GroupOf(p) = 1
<1>1. p.kind \in Kinds /\ p.size \in Nat /\ p.align \in 1..MaxAlign
  <2>1. PICK k \in Kinds, s \in LocalShapes \cup BandShapes : p = [kind |-> k, size |-> s[1], align |-> s[2]]
    BY DEF AnyPart, Parts, Kinds, Unbanded, Located
  <2>2. s[1] \in Nat /\ s[2] \in 1..MaxAlign
    BY <2>1
  <2> QED
    BY <2>1, <2>2
<1>2. Reserved(p) \in Nat /\ p.size <= Reserved(p)
  BY <1>1 DEF Reserved
<1>3. GroupOf(p) \in 1..8 /\ (p.kind \in Unbanded <=> GroupOf(p) = 1)
  BY <1>1 DEF GroupOf, Kinds, Unbanded, Located
<1> QED
  BY <1>1, <1>2, <1>3

\* A band's members are the parts of its groups.
LEMMA MembersAreGroups ==
    ASSUME NEW p \in AnyPart, NEW b \in BandNames
    PROVE  /\ p.kind \in Members(b) <=> First(b) <= GroupOf(p) /\ GroupOf(p) <= Final(b)
           /\ First(b) \in 2..7 /\ Final(b) \in 2..8 /\ First(b) <= Final(b)
<1>1. p.kind \in Kinds
  BY PartTypes
<1> QED
  BY <1>1 DEF Members, First, Final, GroupOf, BandNames, Kinds, Unbanded, Located

\* Aligning goes no way down.
LEMMA AlignUpTypes ==
    ASSUME NEW o \in Nat, NEW a \in Nat \ {0}
    PROVE  AlignUp(o, a) \in Nat /\ o <= AlignUp(o, a)
<1>1. o % a \in 0..a - 1
  OBVIOUS
<1>2. (a - (o % a)) % a \in 0..a - 1
  BY <1>1
<1> QED
  BY <1>2 DEF AlignUp

\* An address is one of the module's, or 0.
LEMMA WithinTypes ==
    ASSUME NEW v \in Nat, NEW e \in Nat, v <= e
    PROVE  Within(v, e) \in 0..Limit /\ (e <= Limit => Within(v, e) = v)
BY DEF Within

\* A set of alignments has a greatest.
LEMMA GreatestIsOne ==
    ASSUME NEW S \in SUBSET (1..MaxAlign), S # {}
    PROVE  Greatest(S) \in S
<1> DEFINE U == {u \in Nat : \A a \in S : a <= u}
<1>0. \A a \in S : a \in Nat /\ 1 <= a /\ a <= MaxAlign
  OBVIOUS
<1>1. U \in SUBSET Nat /\ MaxAlign \in U
  BY <1>0
<1>2. PICK u \in U : \A v \in U : u <= v
  <2> DEFINE R == OpToRel(<, Nat)
  <2>1. \A x, y \in Nat : x < y => <<x, y>> \in R
    BY DEF OpToRel
  <2>2. IsWellFoundedOn(R, Nat)
    BY NatLessThanWellFounded
  <2> HIDE DEF R, U
  <2>3. PICK u \in U : \A v \in U : <<v, u>> \notin R
    BY <1>1, <2>2, WFMin
  <2>4. \A v \in U : ~(v < u)
    BY <1>1, <2>1, <2>3
  <2>5. \A v \in U : v \in Nat /\ u \in Nat
    BY <1>1
  <2> QED
    BY <2>4, <2>5
<1>a. u \in Nat /\ \A a \in S : a <= u
  BY <1>2
<1>3. u \in S
  <2> SUFFICES ASSUME u \notin S PROVE FALSE
    OBVIOUS
  <2>1. \A a \in S : a <= u - 1
    <3> SUFFICES ASSUME NEW a \in S PROVE a <= u - 1
      OBVIOUS
    <3>1. a \in Nat /\ a <= u /\ a # u
      BY <1>0, <1>a
    <3> QED
      BY <1>a, <3>1
  <2>2. u - 1 \in Nat
    <3>1. PICK a \in S : TRUE
      OBVIOUS
    <3>2. a \in Nat /\ 1 <= a /\ a <= u - 1
      BY <1>0, <2>1, <3>1
    <3> QED
      BY <1>a, <3>2
  <2>3. u - 1 \in U
    BY <2>1, <2>2
  <2> QED
    BY <1>2, <2>3
<1> QED
  BY <1>3, <1>a DEF Greatest

\* The bands' alignment is one, when there are any.
LEMMA BandAlignTypes ==
    ASSUME TypeOK, ~NoBand PROVE BandAlign \in 1..MaxAlign
<1> DEFINE A == {parts[i].align : i \in {j \in DOMAIN parts : parts[j].kind \notin Unbanded}}
<1>1. \A i \in DOMAIN parts : parts[i].align \in 1..MaxAlign
  BY PartTypes DEF TypeOK
<1>2. A \in SUBSET (1..MaxAlign) /\ A # {}
  BY <1>1 DEF NoBand
<1>3. Greatest(A) \in A
  <2> HIDE DEF A
  <2> QED
    BY <1>2, GreatestIsOne
<1> QED
  BY <1>2, <1>3 DEF BandAlign

-----------------------------------------------------------------------------
(* The inductive invariant, in parts.  Nothing is said of a layout that went *)
(* past the last address: it is refused.                                     *)

\* What is placed when.
Progress ==
    /\ group = 0 => DOMAIN place = {} /\ DOMAIN remap = {}
    /\ group = 0 => \A b \in BandNames : base[b] = Unset /\ top[b] = Unset
    /\ group \in 1..8 => ~NoBand /\ \A i \in DOMAIN place : Grp(i) <= group
    /\ group \in 1..10 => \A i \in Indices : Grp(i) < group => i \in DOMAIN place
    /\ group \in 9..10 => cursor = offset

\* Where the parts were allocated, one after the other.
Allocated ==
    /\ Floor <= offset /\ Floor <= cursor
    /\ peak <= Limit /\ group < 10 =>
         /\ \A i \in Indices : Floor <= at[i]
         /\ group = 0 => \A i \in Indices : at[i] + Res(i) <= offset
         /\ \A i, j \in Indices : i < j => at[i] + Res(i) <= at[j]

\* Where they are placed.
PlacedApart ==
    peak <= Limit /\ cursor <= Limit =>
        /\ \A i \in DOMAIN place : Floor <= place[i] /\ End(i) <= cursor
        /\ \A i, j \in DOMAIN place : i # j => End(i) <= place[j] \/ End(j) <= place[i]

\* What looking an address up gives, for the parts that have one of their own.
LookedUp(i) == IF at[i] \in DOMAIN remap THEN remap[at[i]] ELSE at[i]
RemapIsRight ==
    peak <= Limit /\ group < 10 =>
        /\ \A a \in DOMAIN remap : \E i \in DOMAIN place : Res(i) > 0 /\ at[i] = a
        /\ \A i \in DOMAIN place : Res(i) > 0 => LookedUp(i) = place[i]

\* The bounds of the bands so far.
Bounds ==
    peak <= Limit /\ cursor <= Limit =>
        \A b \in BandNames :
            /\ base[b] <= cursor /\ top[b] <= cursor
            /\ Final(b) < group => base[b] # Unset
            /\ group < First(b) => base[b] = Unset
            /\ \A i \in DOMAIN place :
                 /\ Grp(i) < First(b) => base[b] = Unset \/ End(i) <= base[b]
                 /\ Grp(i) > Final(b) => top[b] <= place[i]
                 /\ First(b) <= Grp(i) /\ Grp(i) <= Final(b) =>
                      /\ base[b] # Unset /\ base[b] <= place[i]
                      /\ Final(b) < group => End(i) <= top[b]

\* Once patched, the program knows each part by its place.
Patched == group = 10 => /\ peak <= Limit /\ cursor <= Limit
                         /\ \A i \in Indices : Res(i) > 0 => at[i] = place[i]

\* No part of a band is empty.
NoEmptyInBands == \A s \in BandShapes : s[1] > 0

BandsInv == TypeOK /\ Progress /\ Allocated /\ PlacedApart /\ RemapIsRight /\ Bounds /\ Patched

\* Before the first part there is nothing to keep apart.
LEMMA InitBands == Init => BandsInv
<1> SUFFICES ASSUME Init PROVE BandsInv
  OBVIOUS
<1>1. /\ parts = <<>> /\ at = <<>> /\ DOMAIN place = {} /\ DOMAIN remap = {} /\ group = 0
      /\ Indices = {} /\ Len(parts) = 0 /\ Len(at) = 0
  BY DEF Init, Indices
<1>2. TypeOK
  BY <1>1 DEF Init, TypeOK, Unset
<1>3. Progress /\ Allocated /\ PlacedApart /\ RemapIsRight /\ Patched
  BY <1>1 DEF Init, Progress, Allocated, PlacedApart, RemapIsRight, Patched
<1>4. Bounds
  <2>1. \A b \in BandNames : base[b] = 0 /\ top[b] = 0 /\ ~(Final(b) < group)
    BY <1>1 DEF Init, Unset, BandNames, Final
  <2> QED
    BY <1>1, <2>1 DEF Init, Bounds
<1> QED
  BY <1>2, <1>3, <1>4 DEF BandsInv

-----------------------------------------------------------------------------
(* The steps.                                                              *)

\* What is known of any part.
LEMMA IndexTypes ==
    ASSUME TypeOK, NEW i \in Indices
    PROVE  /\ parts[i] \in AnyPart
           /\ Size(i) \in Nat /\ Res(i) \in Nat /\ Size(i) <= Res(i) /\ Grp(i) \in 1..8
           /\ parts[i].align \in 1..MaxAlign
           /\ at[i] \in 0..Limit
           /\ i \in DOMAIN place => place[i] \in 0..Limit
           /\ parts[i].kind \in Unbanded <=> Grp(i) = 1
<1>1. parts[i] \in AnyPart /\ at[i] \in 0..Limit /\ (i \in DOMAIN place => place[i] \in 0..Limit)
  BY DEF TypeOK, Indices
<1> QED
  BY <1>1, PartTypes DEF Size, Res, Grp

\* A part allocated at the end of its area, or an instance after it, keeps the
\* invariant (allocate).
LEMMA AllocateStep ==
    ASSUME BandsInv, NEW p \in AnyPart, Allocate(p) PROVE BandsInv'
<1> DEFINE start == AlignUp(offset, p.align)
           end   == start + Reserved(p)
<1>0. PICK n \in Nat : n = Len(parts)
  BY DEF BandsInv, TypeOK
<1>1. TypeOK /\ group = 0 /\ n < MaxParts /\ n = Len(parts) /\ Len(at) = n
  BY <1>0 DEF BandsInv, TypeOK, Allocate
<1>2. /\ p.align \in 1..MaxAlign /\ Reserved(p) \in Nat /\ GroupOf(p) \in 1..8
      /\ start \in Nat /\ offset <= start /\ end \in Nat /\ start <= end /\ offset \in Nat
  <2>1. /\ p.align \in 1..MaxAlign /\ Reserved(p) \in Nat /\ GroupOf(p) \in 1..8
        /\ offset \in Nat
    BY <1>1, PartTypes DEF TypeOK
  <2>2. start \in Nat /\ offset <= start
    BY <2>1, AlignUpTypes
  <2> QED
    BY <2>1, <2>2
<1>3. Within(start, end) \in 0..Limit /\ (end <= Limit => Within(start, end) = start)
  <2> HIDE DEF start, end
  <2> QED
    BY <1>2, WithinTypes
<1>4. /\ parts' = Append(parts, p) /\ at' = Append(at, Within(start, end)) /\ offset' = end
      /\ peak' = IF end > peak THEN end ELSE peak
      /\ UNCHANGED <<group, place, cursor, remap, base, top>>
  BY DEF Allocate
<1> HIDE DEF start, end
<1>5. Indices' = 1..n + 1 /\ Indices = 1..n /\ n + 1 \in Indices'
  BY <1>1, <1>4 DEF Indices, TypeOK
<1>6. /\ parts'[n + 1] = p /\ at'[n + 1] = Within(start, end)
      /\ \A i \in Indices : parts'[i] = parts[i] /\ at'[i] = at[i]
  BY <1>1, <1>3, <1>4, <1>5 DEF TypeOK
<1>7. TypeOK'
  <2>1. parts' \in Seq(AnyPart) /\ Len(parts') = n + 1 /\ at' \in Seq(0..Limit) /\ Len(at') = n + 1
    BY <1>1, <1>3, <1>4 DEF TypeOK
  <2>2. offset' \in Nat /\ peak' \in Nat
    BY <1>1, <1>2, <1>4 DEF TypeOK
  <2>3. DOMAIN place' \subseteq Indices'
    BY <1>1, <1>4, <1>5 DEF TypeOK
  <2> QED
    BY <1>1, <1>4, <2>1, <2>2, <2>3 DEF TypeOK
<1>8. DOMAIN place = {} /\ DOMAIN remap = {}
  BY <1>1 DEF BandsInv, Progress
<1>9. Progress'
  BY <1>1, <1>4, <1>8 DEF BandsInv, Progress
<1>10. Allocated'
  <2>1. Floor <= offset' /\ Floor <= cursor'
    BY <1>1, <1>2, <1>4 DEF BandsInv, Allocated, TypeOK
  <2> SUFFICES ASSUME peak' <= Limit
               PROVE  /\ \A i \in Indices' : Floor <= at'[i] /\ at'[i] + Res(i)' <= offset'
                      /\ \A i, j \in Indices' : i < j => at'[i] + Res(i)' <= at'[j]
    BY <2>1, <1>1, <1>4 DEF Allocated
  <2>2. peak <= Limit /\ end <= Limit
    BY <1>1, <1>2, <1>4 DEF TypeOK
  <2>3. at'[n + 1] = start /\ Res(n + 1)' = Reserved(p)
    BY <1>3, <1>6, <2>2 DEF Res
  <2>4. \A i \in Indices : /\ Floor <= at[i] /\ at[i] + Res(i) <= offset
                           /\ at'[i] = at[i] /\ Res(i)' = Res(i) /\ at[i] \in Nat /\ Res(i) \in Nat
    BY <1>1, <1>6, <2>2, IndexTypes DEF BandsInv, Allocated, Res
  <2>5. \A i, j \in Indices : i < j => at[i] + Res(i) <= at[j]
    BY <1>1, <2>2 DEF BandsInv, Allocated
  <2>6. ASSUME NEW i \in Indices' PROVE Floor <= at'[i] /\ at'[i] + Res(i)' <= offset'
    <3>0. Floor <= offset /\ offset' = end
      BY <1>4 DEF BandsInv, Allocated
    <3>1. CASE i = n + 1
      BY <1>2, <2>3, <3>0, <3>1 DEF end
    <3>2. CASE i \in Indices
      <4>1. /\ Floor <= at'[i] /\ at'[i] + Res(i)' <= offset /\ at'[i] + Res(i)' \in Nat
        BY <2>4, <3>2
      <4> QED
        BY <1>2, <3>0, <4>1
    <3> QED
      BY <1>1, <1>5, <3>1, <3>2
  <2>7. ASSUME NEW i \in Indices', NEW j \in Indices', i < j PROVE at'[i] + Res(i)' <= at'[j]
    <3>1. i \in Indices
      BY <1>1, <1>5, <2>7
    <3>2. CASE j = n + 1
      BY <1>2, <2>3, <2>4, <3>1, <3>2
    <3>3. CASE j \in Indices
      BY <2>4, <2>5, <2>7, <3>1, <3>3
    <3> QED
      BY <1>1, <1>5, <3>2, <3>3
  <2> QED
    BY <2>6, <2>7
<1>11. PlacedApart' /\ RemapIsRight' /\ Patched'
  BY <1>1, <1>4, <1>8 DEF PlacedApart, RemapIsRight, Patched
<1>12. Bounds'
  <2>1. \A b \in BandNames : base[b] = 0 /\ ~(Final(b) < 0) /\ top[b] \in Nat
    BY <1>1 DEF BandsInv, Progress, TypeOK, Unset, BandNames, Final
  <2>2. ASSUME peak' <= Limit, cursor' <= Limit PROVE \A b \in BandNames : base[b] <= cursor /\ top[b] <= cursor
    <3>1. peak <= Limit /\ cursor <= Limit
      BY <1>1, <1>2, <1>4, <2>2 DEF TypeOK
    <3> QED
      BY <3>1 DEF BandsInv, Bounds
  <2> QED
    BY <1>1, <1>4, <1>8, <2>1, <2>2 DEF Bounds, Unset
<1> QED
  BY <1>7, <1>9, <1>10, <1>11, <1>12 DEF BandsInv

\* A module with nothing to keep in a band keeps the first layout
\* (finalize_bands, its early return).
LEMMA KeepLayoutStep ==
    ASSUME BandsInv, KeepLayout PROVE BandsInv'
<1>1. /\ TypeOK /\ NoBand /\ group = 0 /\ group' = 9 /\ place' = at /\ cursor' = offset
      /\ base' = [b \in BandNames |-> offset] /\ top' = [b \in BandNames |-> offset]
      /\ UNCHANGED <<parts, at, offset, peak, remap>>
  BY DEF BandsInv, KeepLayout
<1>2. Indices' = Indices /\ DOMAIN at = Indices /\ DOMAIN place' = Indices /\ DOMAIN remap = {}
  BY <1>1 DEF BandsInv, TypeOK, Indices, Progress
<1>3. TypeOK'
  BY <1>1, <1>2 DEF TypeOK, Indices
<1>4. Progress'
  BY <1>1, <1>2 DEF Progress
<1>5. Allocated'
  BY <1>1, <1>2 DEF BandsInv, Allocated, Res
<1>6. ASSUME peak <= Limit, NEW i \in Indices
      PROVE  /\ Floor <= at[i] /\ End(i)' <= offset /\ End(i)' <= at[i] + Res(i)
             /\ at[i] \in Nat /\ Res(i) \in Nat /\ End(i)' \in Nat
  <2>1. Floor <= at[i] /\ at[i] + Res(i) <= offset
    BY <1>1, <1>6 DEF BandsInv, Allocated
  <2>2. End(i)' = at[i] + Size(i)
    BY <1>1 DEF End, Size
  <2>3. Size(i) \in Nat /\ Res(i) \in Nat /\ Size(i) <= Res(i) /\ at[i] \in Nat /\ offset \in Nat
    BY <1>1, IndexTypes DEF TypeOK
  <2> QED
    BY <2>1, <2>2, <2>3
<1>7. PlacedApart'
  <2> SUFFICES ASSUME peak <= Limit
               PROVE  \A i, j \in Indices : i # j => End(i)' <= at[j] \/ End(j)' <= at[i]
    BY <1>1, <1>2, <1>6 DEF PlacedApart
  <2>1. ASSUME NEW i \in Indices, NEW j \in Indices, i < j PROVE End(i)' <= at[j]
    <3>1. at[i] + Res(i) <= at[j]
      BY <1>1, <2>1 DEF BandsInv, Allocated
    <3> QED
      BY <1>6, <3>1
  <2>2. \A i, j \in Indices : i # j => i < j \/ j < i
    BY DEF Indices
  <2> QED
    BY <2>1, <2>2
<1>8. RemapIsRight'
  BY <1>1, <1>2 DEF RemapIsRight, LookedUp
<1>9. Bounds'
  <2> SUFFICES ASSUME peak <= Limit, NEW b \in BandNames
               PROVE  /\ base'[b] <= cursor' /\ top'[b] <= cursor' /\ base'[b] # Unset
                      /\ \A i \in Indices :
                           /\ End(i)' <= base'[b]
                           /\ ~(First(b) <= Grp(i)') /\ ~(Grp(i)' > Final(b))
    <3>1. \A b \in BandNames : ~(9 < First(b))
      BY DEF BandNames, First
    <3> QED
      BY <1>1, <1>2, <3>1 DEF Bounds
  <2>1. base'[b] = offset /\ top'[b] = offset /\ offset \in Nat /\ Floor <= offset
    BY <1>1 DEF BandsInv, TypeOK, Allocated
  <2>2. ASSUME NEW i \in Indices PROVE Grp(i)' = 1 /\ First(b) \in 2..7 /\ Final(b) \in 2..8
    <3>1. Grp(i)' = Grp(i)
      BY <1>1 DEF Grp
    <3>a. DOMAIN parts = Indices
      BY <1>1 DEF TypeOK, Indices
    <3>2. parts[i] \in AnyPart /\ parts[i].kind \in Unbanded
      BY <1>1, <3>a, IndexTypes DEF NoBand
    <3> QED
      BY <1>1, <3>1, <3>2, IndexTypes, MembersAreGroups
  <2> QED
    BY <1>1, <1>6, <2>1, <2>2 DEF Unset
<1>10. Patched'
  BY <1>1 DEF Patched
<1> QED
  BY <1>3, <1>4, <1>5, <1>7, <1>8, <1>9, <1>10 DEF BandsInv

\* The second layout begins at the floor with nothing placed (finalize_bands).
LEMMA LayOutAgainStep ==
    ASSUME BandsInv, LayOutAgain PROVE BandsInv'
<1>1. /\ TypeOK /\ ~NoBand /\ group = 0 /\ group' = 1 /\ cursor' = Floor
      /\ UNCHANGED <<parts, at, offset, peak, place, remap, base, top>>
  BY DEF BandsInv, LayOutAgain
<1>2. Indices' = Indices /\ DOMAIN place = {} /\ DOMAIN remap = {} /\ (NoBand' <=> NoBand)
  BY <1>1 DEF BandsInv, Indices, Progress, NoBand
<1>3. TypeOK'
  BY <1>1, <1>2 DEF TypeOK, Indices
<1>4. Progress'
  <2>1. \A i \in Indices : Grp(i)' \in 1..8
    BY <1>1, IndexTypes DEF Grp
  <2> QED
    BY <1>1, <1>2, <2>1 DEF Progress
<1>5. Allocated'
  BY <1>1, <1>2 DEF BandsInv, Allocated, Res
<1>6. PlacedApart' /\ RemapIsRight' /\ Patched'
  BY <1>1, <1>2 DEF PlacedApart, RemapIsRight, Patched
<1>7. Bounds'
  <2>1. \A b \in BandNames : base[b] = 0 /\ top[b] = 0 /\ ~(Final(b) < 1)
    BY <1>1 DEF BandsInv, Progress, Unset, BandNames, Final
  <2> QED
    BY <1>1, <1>2, <2>1 DEF Bounds, Unset
<1> QED
  BY <1>3, <1>4, <1>5, <1>6, <1>7 DEF BandsInv

\* The address a part has after the patching is the one it was placed at
\* (lower_module).
LEMMA PatchStep ==
    ASSUME BandsInv, Patch PROVE BandsInv'
<1>1. /\ TypeOK /\ group = 9 /\ group' = 10
      /\ at' = [i \in DOMAIN at |-> LookedUp(i)]
      /\ UNCHANGED <<parts, offset, peak, place, cursor, remap, base, top>>
  BY DEF BandsInv, Patch, LookedUp
<1>2. peak <= Limit /\ cursor <= Limit
  BY <1>1 DEF BandsInv, Patch, Fits, Progress, TypeOK
<1>3. Indices' = Indices /\ DOMAIN at = Indices
  BY <1>1 DEF TypeOK, Indices
<1>4. Indices \subseteq DOMAIN place
  BY <1>1, IndexTypes DEF BandsInv, Progress
<1>5. TypeOK'
  <2>1. \A i \in Indices : LookedUp(i) \in 0..Limit
    BY <1>1, IndexTypes DEF LookedUp, TypeOK
  <2>2. at' \in [1..Len(parts) -> 0..Limit] /\ Len(parts) \in Nat
    BY <1>1, <1>3, <2>1 DEF Indices, TypeOK
  <2>3. at' \in Seq(0..Limit) /\ Len(at') = Len(parts)
    BY <2>2
  <2> QED
    BY <1>1, <1>3, <2>3 DEF TypeOK
<1>6. Progress' /\ Allocated'
  <2>1. cursor' = offset'
    BY <1>1 DEF BandsInv, Progress
  <2>2. Progress'
    BY <1>1, <1>3, <1>4, <2>1 DEF Progress
  <2>3. Allocated'
    BY <1>1 DEF BandsInv, Allocated
  <2> QED
    BY <2>2, <2>3
<1>7. PlacedApart' /\ RemapIsRight'
  BY <1>1 DEF BandsInv, PlacedApart, RemapIsRight, End, Size
<1>8. Bounds'
  <2>1. \A b \in BandNames : Final(b) < 9 /\ ~(9 < First(b)) /\ ~(10 < First(b))
    BY DEF BandNames, Final, First
  <2>2. \A b \in BandNames : Final(b) < 10
    BY DEF BandNames, Final
  <2> QED
    BY <1>1, <2>1, <2>2 DEF BandsInv, Bounds, End, Size, Grp
<1>9. Patched'
  BY <1>1, <1>2, <1>3, <1>4 DEF BandsInv, RemapIsRight, Patched, Res
<1> QED
  BY <1>5, <1>6, <1>7, <1>8, <1>9 DEF BandsInv

\* Two parts that are not empty were allocated at two addresses.
LEMMA AddressesDiffer ==
    ASSUME BandsInv, peak <= Limit, group < 10,
           NEW i \in Indices, NEW j \in Indices, i # j, Res(i) > 0, Res(j) > 0
    PROVE  at[i] # at[j]
<1>1. /\ at[i] \in Nat /\ at[j] \in Nat /\ Res(i) \in Nat /\ Res(j) \in Nat
      /\ i < j => at[i] + Res(i) <= at[j]
      /\ j < i => at[j] + Res(j) <= at[i]
  BY IndexTypes DEF BandsInv, Allocated
<1>2. i < j \/ j < i
  BY DEF Indices
<1> QED
  BY <1>1, <1>2

\* A part placed after the others of its band keeps them apart
\* (finalize_bands, an iteration).
LEMMA PlacePartStep ==
    ASSUME NoEmptyInBands, BandsInv, NEW k \in DOMAIN parts, PlacePart(k) PROVE BandsInv'
<1> DEFINE size  == IF group = 1 THEN Res(k) ELSE Size(k)
           start == AlignUp(cursor, parts[k].align)
           addr  == Within(start, start + size)
           moves == group = 1 => size > 0 /\ addr # at[k]
<1>1. /\ TypeOK /\ DOMAIN parts = Indices /\ k \in Indices /\ k \notin DOMAIN place /\ Grp(k) = group
      /\ DOMAIN place \subseteq Indices
  BY DEF BandsInv, TypeOK, Indices, PlacePart, Left, Grp
<1>2. /\ cursor' = start + size
      /\ place' = Put(place, k, addr)
      /\ remap' = IF moves THEN Put(remap, at[k], addr) ELSE remap
      /\ base' = [b \in BandNames |->
                     IF base[b] = Unset /\ group \in First(b)..Final(b) THEN start ELSE base[b]]
      /\ UNCHANGED <<parts, at, offset, peak, group, top>>
  BY DEF PlacePart, Res, Size
<1>3. /\ parts[k] \in AnyPart /\ Size(k) \in Nat /\ Res(k) \in Nat /\ Size(k) <= Res(k)
      /\ parts[k].align \in Nat \ {0} /\ at[k] \in 0..Limit /\ group \in 1..8
      /\ parts[k].kind \in Unbanded <=> group = 1
  BY <1>1, IndexTypes
<1>4. group # 1 => Size(k) > 0
  <2>1. parts[k].kind \notin Unbanded => parts[k].size > 0
    BY <1>3 DEF NoEmptyInBands, AnyPart, Parts
  <2> QED
    BY <1>3, <2>1 DEF Size
<1>5. size \in Nat /\ Size(k) <= size /\ (size > 0 => Res(k) > 0) /\ (Res(k) > 0 => size > 0)
  BY <1>3, <1>4
<1>6. /\ start \in Nat /\ cursor \in Nat /\ cursor <= start /\ start + size \in Nat
      /\ Floor <= start
  <2>1. cursor \in Nat /\ Floor <= cursor
    BY <1>1 DEF TypeOK, BandsInv, Allocated
  <2>2. start \in Nat /\ cursor <= start
    BY <1>3, <2>1, AlignUpTypes
  <2> HIDE DEF start
  <2> QED
    BY <1>5, <2>1, <2>2
<1> HIDE DEF size, start
<1>7. addr \in 0..Limit /\ (cursor' <= Limit => addr = start /\ cursor <= Limit)
  BY <1>2, <1>5, <1>6, WithinTypes
<1> HIDE DEF addr, moves
<1>8. /\ Indices' = Indices /\ DOMAIN place' = DOMAIN place \cup {k} /\ place'[k] = addr
      /\ \A i \in DOMAIN place : place'[i] = place[i] /\ i # k
      /\ \A i \in Indices : Grp(i)' = Grp(i) /\ Res(i)' = Res(i) /\ Size(i)' = Size(i)
  BY <1>1, <1>2 DEF Put, Indices, Grp, Res, Size
<1>9. TypeOK'
  <2>1. cursor' \in Nat
    BY <1>2, <1>6
  <2>2. base' \in [BandNames -> Nat]
    BY <1>1, <1>2, <1>6 DEF TypeOK
  <2>3. DOMAIN place' \subseteq Indices' /\ \A i \in DOMAIN place' : place'[i] \in 0..Limit
    BY <1>1, <1>7, <1>8 DEF TypeOK
  <2>4. \A a \in DOMAIN remap' : a \in 0..Limit /\ remap'[a] \in 0..Limit
    BY <1>1, <1>2, <1>3, <1>7 DEF TypeOK, Put
  <2> QED
    BY <1>1, <1>2, <2>1, <2>2, <2>3, <2>4 DEF TypeOK
<1>10. Progress'
  <2>1. ~NoBand /\ (NoBand' <=> NoBand)
    BY <1>2, <1>3 DEF BandsInv, Progress, NoBand
  <2>2. \A i \in DOMAIN place' : Grp(i)' <= group
    BY <1>1, <1>3, <1>8 DEF BandsInv, Progress
  <2>3. \A i \in Indices : Grp(i)' < group => i \in DOMAIN place'
    BY <1>3, <1>8 DEF BandsInv, Progress
  <2> QED
    BY <1>2, <1>3, <1>8, <2>1, <2>2, <2>3 DEF Progress
<1>11. Allocated'
  <2>1. Floor <= offset' /\ Floor <= cursor'
    BY <1>2, <1>5, <1>6 DEF BandsInv, Allocated
  <2> QED
    BY <1>2, <1>8, <2>1 DEF BandsInv, Allocated
<1>12. ASSUME peak <= Limit, cursor' <= Limit
       PROVE  /\ addr = start /\ End(k)' = start + Size(k) /\ End(k)' <= cursor' /\ End(k)' \in Nat
              /\ cursor <= Limit /\ cursor <= cursor' /\ cursor' \in Nat
              /\ \A i \in DOMAIN place : /\ End(i)' = End(i) /\ End(i) <= cursor /\ End(i) \in Nat
                                         /\ place[i] \in Nat /\ Floor <= place[i]
  <2>1. addr = start /\ cursor <= Limit
    BY <1>7, <1>12
  <2>2. End(k)' = start + Size(k) /\ End(k)' <= cursor' /\ End(k)' \in Nat
    BY <1>1, <1>2, <1>3, <1>5, <1>6, <1>8, <2>1 DEF End
  <2>3. cursor <= cursor' /\ cursor' \in Nat
    BY <1>2, <1>5, <1>6
  <2>4. ASSUME NEW i \in DOMAIN place
        PROVE  /\ End(i)' = End(i) /\ End(i) <= cursor /\ End(i) \in Nat
               /\ place[i] \in Nat /\ Floor <= place[i]
    <3>1. Size(i) \in Nat /\ place[i] \in Nat
      BY <1>1, IndexTypes
    <3>2. Floor <= place[i] /\ End(i) <= cursor
      BY <1>12, <2>1 DEF BandsInv, PlacedApart
    <3> QED
      BY <1>1, <1>8, <3>1, <3>2 DEF End
  <2> QED
    BY <2>1, <2>2, <2>3, <2>4
<1>13. PlacedApart'
  <2> SUFFICES ASSUME peak <= Limit, cursor' <= Limit
               PROVE  /\ \A i \in DOMAIN place' : Floor <= place'[i] /\ End(i)' <= cursor'
                      /\ \A i, j \in DOMAIN place' :
                            i # j => End(i)' <= place'[j] \/ End(j)' <= place'[i]
    BY <1>2 DEF PlacedApart
  <2>1. ASSUME NEW i \in DOMAIN place' PROVE Floor <= place'[i] /\ End(i)' <= cursor'
    <3>1. CASE i = k
      BY <1>6, <1>8, <1>12, <3>1
    <3>2. CASE i \in DOMAIN place
      BY <1>6, <1>8, <1>12, <3>2
    <3> QED
      BY <1>8, <3>1, <3>2
  <2>2. ASSUME NEW i \in DOMAIN place PROVE End(i)' <= place'[k]
    BY <1>6, <1>8, <1>12
  <2>3. ASSUME NEW i \in DOMAIN place, NEW j \in DOMAIN place, i # j
        PROVE  End(i)' <= place'[j] \/ End(j)' <= place'[i]
    <3>1. End(i) <= place[j] \/ End(j) <= place[i]
      BY <1>12, <2>3 DEF BandsInv, PlacedApart
    <3> QED
      BY <1>8, <1>12, <3>1
  <2> QED
    BY <1>8, <2>1, <2>2, <2>3
<1>14. RemapIsRight'
  <2> SUFFICES ASSUME peak <= Limit
               PROVE  /\ \A a \in DOMAIN remap' : \E i \in DOMAIN place' : Res(i) > 0 /\ at[i] = a
                      /\ \A i \in DOMAIN place' : Res(i) > 0 => LookedUp(i)' = place'[i]
    BY <1>1, <1>2, <1>8 DEF RemapIsRight
  <2>1. /\ \A a \in DOMAIN remap : \E i \in DOMAIN place : Res(i) > 0 /\ at[i] = a
        /\ \A i \in DOMAIN place : Res(i) > 0 => LookedUp(i) = place[i]
    BY <1>3 DEF BandsInv, RemapIsRight
  <2>2. \A i \in DOMAIN place : Res(i) > 0 /\ Res(k) > 0 => at[i] # at[k]
    BY <1>1, <1>3, <1>8, AddressesDiffer
  <2>3. CASE moves
    <3>1. Res(k) > 0
      BY <1>3, <1>4, <1>5, <2>3 DEF moves
    <3>2. remap' = Put(remap, at[k], addr) /\ at' = at
      BY <1>2, <2>3
    <3>3. \A a \in DOMAIN remap' : a \in DOMAIN remap \/ a = at[k]
      BY <3>2 DEF Put
    <3>4. LookedUp(k)' = addr
      BY <3>2 DEF LookedUp, Put
    <3>5. \A i \in DOMAIN place : Res(i) > 0 => LookedUp(i)' = LookedUp(i)
      BY <2>2, <3>1, <3>2 DEF LookedUp, Put
    <3> QED
      BY <1>8, <2>1, <3>1, <3>3, <3>4, <3>5
  <2>4. CASE ~moves
    <3>1. remap' = remap /\ at' = at
      BY <1>2, <2>4
    <3>2. Res(k) > 0 => addr = at[k]
      BY <1>5, <2>4 DEF moves
    <3>3. Res(k) > 0 => at[k] \notin DOMAIN remap
      BY <2>1, <2>2
    <3>4. Res(k) > 0 => LookedUp(k)' = addr
      BY <3>1, <3>2, <3>3 DEF LookedUp
    <3>5. \A i \in DOMAIN place : LookedUp(i)' = LookedUp(i)
      BY <3>1 DEF LookedUp
    <3> QED
      BY <1>8, <2>1, <3>1, <3>4, <3>5
  <2> QED
    BY <2>3, <2>4
<1>15. Bounds'
  <2> SUFFICES ASSUME peak <= Limit, cursor' <= Limit, NEW b \in BandNames
               PROVE  /\ base'[b] <= cursor' /\ top[b] <= cursor'
                      /\ Final(b) < group => base'[b] # Unset
                      /\ group < First(b) => base'[b] = Unset
                      /\ \A i \in DOMAIN place' :
                           /\ Grp(i) < First(b) => base'[b] = Unset \/ End(i)' <= base'[b]
                           /\ Grp(i) > Final(b) => top[b] <= place'[i]
                           /\ First(b) <= Grp(i) /\ Grp(i) <= Final(b) =>
                                /\ base'[b] # Unset /\ base'[b] <= place'[i]
                                /\ Final(b) < group => End(i)' <= top[b]
    BY <1>1, <1>2, <1>8 DEF Bounds
  <2>1. /\ base[b] <= cursor /\ top[b] <= cursor /\ base[b] \in Nat /\ top[b] \in Nat
        /\ Final(b) < group => base[b] # Unset
        /\ group < First(b) => base[b] = Unset
        /\ \A i \in DOMAIN place :
             /\ Grp(i) < First(b) => base[b] = Unset \/ End(i) <= base[b]
             /\ Grp(i) > Final(b) => top[b] <= place[i]
             /\ First(b) <= Grp(i) /\ Grp(i) <= Final(b) =>
                  /\ base[b] # Unset /\ base[b] <= place[i]
                  /\ Final(b) < group => End(i) <= top[b]
    BY <1>1, <1>12 DEF BandsInv, Bounds, TypeOK
  <2>2. First(b) \in 2..7 /\ Final(b) \in 2..8
    BY <1>3, MembersAreGroups
  <2>3. /\ base[b] = Unset /\ First(b) <= group /\ group <= Final(b) => base'[b] = start
        /\ ~(base[b] = Unset /\ First(b) <= group /\ group <= Final(b)) => base'[b] = base[b]
    BY <1>2, <1>3, <2>2
  <2>4. start # Unset
    BY <1>6 DEF Unset
  <2>5. /\ base'[b] <= cursor' /\ top[b] <= cursor'
        /\ Final(b) < group => base'[b] # Unset
        /\ group < First(b) => base'[b] = Unset
    <3>1. cursor <= cursor' /\ start <= cursor' /\ cursor' \in Nat
      BY <1>2, <1>5, <1>6
    <3>2. top[b] <= cursor'
      BY <1>6, <2>1, <3>1
    <3>3. base'[b] = start \/ base'[b] = base[b]
      BY <2>3
    <3>4. base'[b] <= cursor'
      BY <1>6, <2>1, <3>1, <3>3
    <3>5. Final(b) < group => base'[b] # Unset
      BY <1>3, <2>1, <2>2, <2>3, <2>4
    <3>6. group < First(b) => base'[b] = Unset
      BY <1>3, <2>1, <2>2, <2>3
    <3> QED
      BY <3>2, <3>4, <3>5, <3>6
  <2>6. ASSUME NEW i \in DOMAIN place
        PROVE  /\ Grp(i) < First(b) => base'[b] = Unset \/ End(i)' <= base'[b]
               /\ Grp(i) > Final(b) => top[b] <= place'[i]
               /\ First(b) <= Grp(i) /\ Grp(i) <= Final(b) =>
                    /\ base'[b] # Unset /\ base'[b] <= place'[i]
                    /\ Final(b) < group => End(i)' <= top[b]
    <3>1. End(i)' = End(i) /\ place'[i] = place[i] /\ End(i) <= start
      BY <1>6, <1>8, <1>12
    <3>2. Grp(i) < First(b) => base'[b] = Unset \/ End(i)' <= base'[b]
      BY <2>1, <2>3, <3>1
    <3> QED
      BY <2>1, <2>3, <3>1, <3>2
  <2>7. /\ Grp(k) < First(b) => base'[b] = Unset \/ End(k)' <= base'[b]
        /\ Grp(k) > Final(b) => top[b] <= place'[k]
        /\ First(b) <= Grp(k) /\ Grp(k) <= Final(b) =>
             /\ base'[b] # Unset /\ base'[b] <= place'[k]
             /\ Final(b) < group => End(k)' <= top[b]
    BY <1>1, <1>3, <1>6, <1>8, <1>12, <2>1, <2>2, <2>3, <2>4
  <2> QED
    BY <1>8, <2>5, <2>6, <2>7
<1>16. Patched'
  BY <1>2, <1>3 DEF Patched
<1> QED
  BY <1>9, <1>10, <1>11, <1>13, <1>14, <1>15, <1>16 DEF BandsInv

\* With all of a group placed its band has its bounds (finalize_bands, the end
\* of a loop).
LEMMA NextGroupStep ==
    ASSUME BandsInv, NextGroup PROVE BandsInv'
<1>1. /\ TypeOK /\ ~NoBand /\ group \in 1..8 /\ group' = group + 1 /\ Left = {}
      /\ UNCHANGED <<parts, at, peak, place, remap>>
      /\ DOMAIN parts = Indices /\ DOMAIN place \subseteq Indices
  BY DEF BandsInv, Progress, NextGroup, TypeOK, Indices
<1>2. /\ cursor' = IF group \in {1, 6} THEN AlignUp(cursor, BandAlign) ELSE cursor
      /\ base' = [b \in BandNames |->
                     IF b = "globals" /\ group = 6 THEN cursor'
                     ELSE IF base[b] = Unset /\ group = Final(b) THEN cursor ELSE base[b]]
      /\ top' = [b \in BandNames |-> IF group = Final(b) THEN cursor ELSE top[b]]
      /\ offset' = IF group = 8 THEN cursor ELSE offset
  BY DEF NextGroup
<1>3. /\ cursor \in Nat /\ cursor' \in Nat /\ cursor <= cursor' /\ Floor <= cursor /\ Floor <= cursor'
      /\ group = 8 => cursor' = cursor
  <2>1. cursor \in Nat /\ Floor <= cursor
    BY <1>1 DEF TypeOK, BandsInv, Allocated
  <2>2. BandAlign \in Nat \ {0}
    BY <1>1, BandAlignTypes
  <2>3. AlignUp(cursor, BandAlign) \in Nat /\ cursor <= AlignUp(cursor, BandAlign)
    BY <2>1, <2>2, AlignUpTypes
  <2>4. cursor' = cursor \/ cursor' = AlignUp(cursor, BandAlign)
    BY <1>2
  <2>5. group = 8 => cursor' = cursor
    BY <1>2
  <2> QED
    BY <2>1, <2>3, <2>4, <2>5
<1>4. /\ Indices' = Indices /\ (NoBand' <=> NoBand)
      /\ \A i \in Indices : /\ Grp(i)' = Grp(i) /\ Res(i)' = Res(i) /\ Size(i)' = Size(i)
                            /\ End(i)' = End(i) /\ LookedUp(i)' = LookedUp(i)
  BY <1>1 DEF Indices, NoBand, Grp, Res, Size, End, LookedUp
<1>5. TypeOK'
  <2>1. offset' \in Nat
    BY <1>1, <1>2, <1>3 DEF TypeOK
  <2>2. base' \in [BandNames -> Nat] /\ top' \in [BandNames -> Nat]
    BY <1>1, <1>2, <1>3 DEF TypeOK
  <2>3. group' \in 0..10
    BY <1>1
  <2> QED
    BY <1>1, <1>3, <1>4, <2>1, <2>2, <2>3 DEF TypeOK
<1>6. Progress'
  <2>1. \A i \in DOMAIN place : Grp(i) <= group /\ Grp(i) \in Nat
    <3>1. \A i \in DOMAIN place : Grp(i) <= group
      BY <1>1 DEF BandsInv, Progress
    <3>2. \A i \in Indices : Grp(i) \in Nat
      BY <1>1, IndexTypes
    <3> QED
      BY <1>1, <3>1, <3>2
  <2>2. \A i \in Indices : Grp(i) < group + 1 => i \in DOMAIN place
    <3> SUFFICES ASSUME NEW i \in Indices, Grp(i) < group + 1 PROVE i \in DOMAIN place
      OBVIOUS
    <3>1. Grp(i) \in Nat
      BY <1>1, IndexTypes
    <3>2. Grp(i) < group \/ Grp(i) = group
      BY <1>1, <3>1
    <3>3. CASE Grp(i) < group
      BY <1>1, <3>3 DEF BandsInv, Progress
    <3>4. CASE Grp(i) = group
      BY <1>1, <3>4 DEF Left, Grp
    <3> QED
      BY <3>2, <3>3, <3>4
  <2>3. group' = 9 => cursor' = offset'
    BY <1>1, <1>2, <1>3
  <2>4. \A i \in DOMAIN place : Grp(i)' <= group'
    <3>1. group \in Nat /\ group' = group + 1
      BY <1>1
    <3>2. \A i \in DOMAIN place : Grp(i)' = Grp(i)
      BY <1>1, <1>4
    <3> QED
      BY <2>1, <3>1, <3>2
  <2>5. \A i \in Indices' : Grp(i)' < group' => i \in DOMAIN place'
    BY <1>1, <1>4, <2>2
  <2> QED
    BY <1>1, <1>4, <2>3, <2>4, <2>5 DEF Progress
<1>7. Allocated'
  <2>1. Floor <= offset' /\ Floor <= cursor'
    BY <1>2, <1>3 DEF BandsInv, Allocated
  <2> QED
    BY <1>1, <1>4, <2>1 DEF BandsInv, Allocated
<1>8. PlacedApart'
  <2> SUFFICES ASSUME peak <= Limit, cursor' <= Limit
               PROVE  /\ \A i \in DOMAIN place : Floor <= place[i] /\ End(i) <= cursor'
                      /\ \A i, j \in DOMAIN place : i # j => End(i) <= place[j] \/ End(j) <= place[i]
    BY <1>1, <1>4 DEF PlacedApart
  <2>1. cursor <= Limit
    BY <1>3
  <2>2. \A i \in DOMAIN place : End(i) <= cursor /\ End(i) \in Nat
    BY <1>1, <2>1, IndexTypes DEF BandsInv, PlacedApart, End
  <2>3. \A i \in DOMAIN place : End(i) <= cursor'
    BY <1>3, <2>2
  <2> QED
    BY <2>1, <2>3 DEF BandsInv, PlacedApart
<1>9. RemapIsRight' /\ Patched'
  BY <1>1, <1>4 DEF BandsInv, RemapIsRight, Patched
<1>10. Bounds'
  <2> SUFFICES ASSUME peak <= Limit, cursor' <= Limit, NEW b \in BandNames
               PROVE  /\ base'[b] <= cursor' /\ top'[b] <= cursor'
                      /\ Final(b) < group + 1 => base'[b] # Unset
                      /\ group + 1 < First(b) => base'[b] = Unset
                      /\ \A i \in DOMAIN place :
                           /\ Grp(i) < First(b) => base'[b] = Unset \/ End(i) <= base'[b]
                           /\ Grp(i) > Final(b) => top'[b] <= place[i]
                           /\ First(b) <= Grp(i) /\ Grp(i) <= Final(b) =>
                                /\ base'[b] # Unset /\ base'[b] <= place[i]
                                /\ Final(b) < group + 1 => End(i) <= top'[b]
    BY <1>1, <1>4 DEF Bounds
  <2>1. /\ base[b] <= cursor /\ top[b] <= cursor /\ base[b] \in Nat /\ top[b] \in Nat
        /\ Final(b) < group => base[b] # Unset
        /\ group < First(b) => base[b] = Unset
        /\ \A i \in DOMAIN place :
             /\ Grp(i) < First(b) => base[b] = Unset \/ End(i) <= base[b]
             /\ Grp(i) > Final(b) => top[b] <= place[i]
             /\ First(b) <= Grp(i) /\ Grp(i) <= Final(b) =>
                  /\ base[b] # Unset /\ base[b] <= place[i]
                  /\ Final(b) < group => End(i) <= top[b]
    BY <1>1, <1>3 DEF BandsInv, Bounds, TypeOK
  <2>2. First(b) \in 2..7 /\ Final(b) \in 2..8 /\ First(b) <= Final(b) /\ (b = "globals" => First(b) = 7)
    BY DEF BandNames, First, Final
  <2>3. /\ b = "globals" /\ group = 6 => base'[b] = cursor'
        /\ ~(b = "globals" /\ group = 6) /\ base[b] = Unset /\ group = Final(b) => base'[b] = cursor
        /\ ~(b = "globals" /\ group = 6) /\ ~(base[b] = Unset /\ group = Final(b)) => base'[b] = base[b]
        /\ group = Final(b) => top'[b] = cursor
        /\ group # Final(b) => top'[b] = top[b]
    BY <1>2
  <2>4. cursor # Unset /\ cursor' # Unset
    BY <1>3 DEF Unset
  <2>5. base'[b] <= cursor' /\ top'[b] <= cursor'
    BY <1>3, <2>1, <2>3
  <2>6. Final(b) < group + 1 => base'[b] # Unset
    <3>1. Final(b) < group + 1 => Final(b) < group \/ Final(b) = group
      BY <1>1, <2>2
    <3> QED
      BY <2>1, <2>3, <2>4, <3>1
  <2>7. group + 1 < First(b) => base'[b] = Unset
    <3> SUFFICES ASSUME group + 1 < First(b) PROVE base'[b] = Unset
      OBVIOUS
    <3>1. group < First(b) /\ group # Final(b) /\ ~(b = "globals" /\ group = 6)
      BY <1>1, <2>2
    <3> QED
      BY <2>1, <2>3, <3>1
  <2>8. ASSUME NEW i \in DOMAIN place
        PROVE  /\ Grp(i) < First(b) => base'[b] = Unset \/ End(i) <= base'[b]
               /\ Grp(i) > Final(b) => top'[b] <= place[i]
               /\ First(b) <= Grp(i) /\ Grp(i) <= Final(b) =>
                    /\ base'[b] # Unset /\ base'[b] <= place[i]
                    /\ Final(b) < group + 1 => End(i) <= top'[b]
    <3>1. Grp(i) <= group /\ Grp(i) \in Nat /\ End(i) \in Nat /\ place[i] \in Nat
      BY <1>1, IndexTypes DEF BandsInv, Progress, End
    <3>2. End(i) <= cursor /\ End(i) <= cursor'
      BY <1>3, <3>1 DEF BandsInv, PlacedApart
    <3>3. Grp(i) < First(b) => base'[b] = Unset \/ End(i) <= base'[b]
      BY <2>1, <2>3, <3>2
    <3>4. Grp(i) > Final(b) => top'[b] <= place[i]
      BY <1>1, <2>1, <2>2, <2>3, <3>1
    <3>5. ASSUME First(b) <= Grp(i), Grp(i) <= Final(b)
          PROVE  /\ base'[b] # Unset /\ base'[b] <= place[i]
                 /\ Final(b) < group + 1 => End(i) <= top'[b]
      <4>1. ~(b = "globals" /\ group = 6)
        BY <2>2, <3>1, <3>5
      <4>2. base[b] # Unset /\ base[b] <= place[i] /\ (Final(b) < group => End(i) <= top[b])
        BY <2>1, <3>5
      <4>3. base'[b] = base[b]
        BY <2>3, <4>1, <4>2
      <4>4. Final(b) < group + 1 => Final(b) < group \/ Final(b) = group
        BY <1>1, <2>2
      <4>5. Final(b) < group => group # Final(b)
        BY <1>1, <2>2
      <4>6. Final(b) < group + 1 => End(i) <= top'[b]
        BY <2>3, <3>2, <4>2, <4>4, <4>5
      <4> QED
        BY <4>2, <4>3, <4>6
    <3> QED
      BY <3>3, <3>4, <3>5
  <2> QED
    BY <2>5, <2>6, <2>7, <2>8
<1> QED
  BY <1>5, <1>6, <1>7, <1>8, <1>9, <1>10 DEF BandsInv

\* Every step keeps the invariant.
LEMMA BandsStep ==
    ASSUME NoEmptyInBands, BandsInv, [Next]_vars PROVE BandsInv'
<1>1. ASSUME NEW p \in AnyPart, Allocate(p) PROVE BandsInv'
  BY <1>1, AllocateStep
<1>2. CASE KeepLayout
  BY <1>2, KeepLayoutStep
<1>3. CASE LayOutAgain
  BY <1>3, LayOutAgainStep
<1>4. ASSUME NEW k \in DOMAIN parts, PlacePart(k) PROVE BandsInv'
  BY <1>4, PlacePartStep
<1>5. CASE NextGroup
  BY <1>5, NextGroupStep
<1>6. CASE Patch
  BY <1>6, PatchStep
<1>7. CASE UNCHANGED vars
  <2>1. /\ UNCHANGED <<parts, at, offset, peak, group, place, cursor, remap, base, top>>
        /\ Indices' = Indices /\ (NoBand' <=> NoBand)
    BY <1>7 DEF vars, Indices, NoBand
  <2>2. TypeOK' /\ Progress'
    BY <2>1 DEF BandsInv, TypeOK, Progress, Grp
  <2>3. Allocated' /\ Patched'
    BY <2>1 DEF BandsInv, Allocated, Patched, Res
  <2>4. PlacedApart' /\ Bounds'
    BY <2>1 DEF BandsInv, PlacedApart, Bounds, End, Size, Grp
  <2>5. RemapIsRight'
    BY <2>1 DEF BandsInv, RemapIsRight, LookedUp, Res
  <2> QED
    BY <2>2, <2>3, <2>4, <2>5 DEF BandsInv
<1> QED
  BY <1>1, <1>2, <1>3, <1>4, <1>5, <1>6, <1>7 DEF Next

\* The invariant holds in every reachable state.
LEMMA BandsHold ==
    ASSUME NoEmptyInBands PROVE Spec => []BandsInv
<1>1. Init => BandsInv
  BY InitBands
<1>2. BandsInv /\ [Next]_vars => BandsInv'
  BY BandsStep
<1> QED
  BY <1>1, <1>2, PTL DEF Spec

-----------------------------------------------------------------------------
(* Alignment.                                                              *)

\* A multiple leaves no remainder.
LEMMA MultipleOf ==
    ASSUME NEW k \in Nat, NEW a \in Nat \ {0} PROVE (a * k) % a = 0
  BY SMT

\* What is under the alignment is its own remainder.
LEMMA SmallRemainder ==
    ASSUME NEW a \in Nat \ {0}, NEW r \in 0..a - 1 PROVE r % a = r /\ a % a = 0 /\ 0 % a = 0
  BY SMT

\* Aligning gives a multiple of the alignment.
LEMMA AlignUpAligns ==
    ASSUME NEW o \in Nat, NEW a \in Nat \ {0} PROVE AlignUp(o, a) % a = 0
<1>1. PICK r \in 0..a - 1, k \in Nat : o = a * k + r /\ r = o % a
  <2>1. o = a * (o \div a) + (o % a) /\ o \div a \in Nat /\ o % a \in 0..a - 1
    BY SMT
  <2> QED
    BY <2>1
<1>2. CASE r = 0
  <2>1. (a - r) % a = 0
    BY <1>2, SmallRemainder
  <2>2. AlignUp(o, a) = a * k
    <3>1. o % a = r
      BY <1>1
    <3>2. AlignUp(o, a) = o
      BY <2>1, <3>1 DEF AlignUp
    <3>3. a * k \in Nat
      OBVIOUS
    <3> QED
      BY <3>2, <3>3, <1>1, <1>2
  <2> QED
    BY <2>2, MultipleOf
<1>3. CASE r # 0
  <2>1. (a - r) % a = a - r
    BY <1>3, SmallRemainder
  <2>2. AlignUp(o, a) = a * k + a
    BY <2>1, <1>1 DEF AlignUp
  <2>3. a * k + a = a * (k + 1)
    OBVIOUS
  <2> QED
    BY <2>2, <2>3, MultipleOf
<1> QED
  BY <1>2, <1>3

\* And so does an address past the last one, which is 0.
LEMMA AddressAligned ==
    ASSUME NEW o \in Nat, NEW a \in 1..MaxAlign, NEW e
    PROVE  Within(AlignUp(o, a), e) % a = 0
<1>1. a \in Nat \ {0} /\ 0 \in 0..a - 1
  OBVIOUS
<1>2. AlignUp(o, a) % a = 0 /\ 0 % a = 0
  BY <1>1, AlignUpAligns, SmallRemainder
<1> QED
  BY <1>2 DEF Within

\* Each part is aligned where it was allocated, until addresses are looked
\* up, and where it is placed.
AlignedSoFar ==
    /\ group = 0 => \A i \in Indices : at[i] % parts[i].align = 0
    /\ \A i \in DOMAIN place : place[i] % parts[i].align = 0

\* Every step keeps it.
LEMMA AlignedStep ==
    ASSUME BandsInv, AlignedSoFar, [Next]_vars PROVE AlignedSoFar'
<1>0. /\ parts \in Seq(AnyPart) /\ at \in Seq(0..Limit) /\ Len(at) = Len(parts) /\ Len(parts) \in Nat
      /\ DOMAIN place \subseteq Indices
      /\ offset \in Nat /\ cursor \in Nat
      /\ group = 0 => DOMAIN place = {}
  BY DEF BandsInv, TypeOK, Progress
<1>1. ASSUME NEW p \in AnyPart, Allocate(p) PROVE AlignedSoFar'
  <2>1. p.align \in 1..MaxAlign
    BY PartTypes
  <2>2. PICK e : /\ parts' = Append(parts, p)
                 /\ at' = Append(at, Within(AlignUp(offset, p.align), e))
                 /\ place' = place /\ group = 0
    BY <1>1 DEF Allocate
  <2>3. Within(AlignUp(offset, p.align), e) % p.align = 0
    BY <1>0, <2>1, AddressAligned
  <2>4. ASSUME NEW i \in Indices' PROVE at'[i] % parts'[i].align = 0
    <3>1. CASE i \in Indices
      <4>1. at'[i] = at[i] /\ parts'[i] = parts[i]
        BY <1>0, <2>2, <3>1 DEF Indices
      <4> QED
        BY <2>2, <3>1, <4>1 DEF AlignedSoFar
    <3>2. CASE i = Len(parts) + 1
      <4>1. at'[i] = Within(AlignUp(offset, p.align), e) /\ parts'[i] = p
        BY <1>0, <2>2, <3>2
      <4> QED
        BY <2>3, <4>1
    <3> QED
      BY <1>0, <2>2, <3>1, <3>2 DEF Indices
  <2>5. DOMAIN place' = {}
    BY <1>0, <2>2
  <2> QED
    BY <2>4, <2>5 DEF AlignedSoFar
<1>2. CASE KeepLayout
  <2>1. group = 0 /\ group' = 9 /\ place' = at /\ parts' = parts
    BY <1>2 DEF KeepLayout
  <2>2. DOMAIN at = Indices
    BY <1>0 DEF Indices
  <2> QED
    BY <2>1, <2>2 DEF AlignedSoFar
<1>3. ASSUME NEW k \in DOMAIN parts, PlacePart(k) PROVE AlignedSoFar'
  <2>1. k \in Indices /\ k \in DOMAIN parts \ DOMAIN place
    BY <1>0, <1>3 DEF Indices, PlacePart, Left
  <2>2. parts[k].align \in 1..MaxAlign
    BY <2>1, IndexTypes DEF BandsInv
  <2>3. PICK e : place' = Put(place, k, Within(AlignUp(cursor, parts[k].align), e))
    BY <1>3 DEF PlacePart
  <2>4. parts' = parts /\ at' = at /\ group' = group
    BY <1>3 DEF PlacePart
  <2>5. Within(AlignUp(cursor, parts[k].align), e) % parts[k].align = 0
    BY <1>0, <2>2, AddressAligned
  <2>6. ASSUME NEW i \in DOMAIN place' PROVE place'[i] % parts'[i].align = 0
    <3>1. CASE i = k
      BY <2>3, <2>4, <2>5, <3>1 DEF Put
    <3>2. CASE i # k
      <4>1. i \in DOMAIN place /\ place'[i] = place[i]
        BY <2>3, <2>6, <3>2 DEF Put
      <4> QED
        BY <2>4, <4>1 DEF AlignedSoFar
    <3> QED
      BY <3>1, <3>2
  <2> QED
    BY <2>4, <2>6 DEF AlignedSoFar, Indices
<1>4. CASE LayOutAgain \/ NextGroup \/ Patch
  <2>1. parts' = parts /\ place' = place /\ group' # 0
    BY <1>4 DEF LayOutAgain, NextGroup, Patch
  <2> QED
    BY <2>1 DEF AlignedSoFar
<1>5. CASE UNCHANGED vars
  BY <1>5 DEF vars, AlignedSoFar, Indices
<1> QED
  BY <1>1, <1>2, <1>3, <1>4, <1>5 DEF Next

-----------------------------------------------------------------------------
(* The theorems.                                                             *)

\* A program's parts, at the end: placed, and known by where they are.
LEMMA AtTheEnd ==
    ASSUME BandsInv, group = 10, NEW i \in Sized
    PROVE  /\ i \in DOMAIN place /\ i \in Indices /\ at[i] = place[i] /\ at[i] \in Nat
           /\ parts[i].size \in Nat /\ End(i) = at[i] + parts[i].size
           /\ Floor <= at[i] /\ End(i) <= cursor /\ cursor = offset
<1>1. i \in Indices /\ Res(i) > 0 /\ Grp(i) \in 1..8 /\ Size(i) \in Nat
  <2>1. i \in Indices /\ Size(i) > 0
    BY DEF Sized, Size
  <2> QED
    BY <2>1, IndexTypes DEF BandsInv
<1>2. i \in DOMAIN place /\ cursor = offset
  BY <1>1 DEF BandsInv, Progress
<1>3. at[i] = place[i] /\ peak <= Limit /\ cursor <= Limit
  BY <1>1 DEF BandsInv, Patched
<1>4. Floor <= place[i] /\ End(i) <= cursor
  BY <1>2, <1>3 DEF BandsInv, PlacedApart
<1>5. at[i] \in Nat
  BY <1>1, IndexTypes DEF BandsInv
<1> QED
  BY <1>1, <1>2, <1>3, <1>4, <1>5 DEF End, Size

\* Addresses and bounds are numbers, and every part has an address
\* (memory.rs:105-145).
THEOREM BandsTypesHold ==
    ASSUME NoEmptyInBands PROVE Spec => []TypeOK
<1>1. BandsInv => TypeOK
  BY DEF BandsInv
<1> QED
  BY <1>1, BandsHold, PTL

\* When no part of a band is empty, no two parts of a finished module share a
\* byte, whatever the shapes of its parts (memory.rs:263-268, 316-440).
THEOREM PartsAreKeptApart ==
    ASSUME NoEmptyInBands PROVE Spec => []PartsKeepApart
<1>1. BandsInv => PartsKeepApart
  <2> SUFFICES ASSUME BandsInv, group = 10 PROVE PartsKeepApart
    BY DEF PartsKeepApart
  <2>1. \A i \in Sized : Floor <= at[i] /\ at[i] + parts[i].size <= offset
    BY AtTheEnd
  <2>2. ASSUME NEW i \in Sized, NEW j \in Sized, i # j
        PROVE  at[i] + parts[i].size <= at[j] \/ at[j] + parts[j].size <= at[i]
    <3>1. End(i) <= place[j] \/ End(j) <= place[i]
      <4>1. i \in DOMAIN place /\ j \in DOMAIN place
        BY AtTheEnd
      <4>2. peak <= Limit /\ cursor <= Limit
        BY DEF BandsInv, Patched
      <4> QED
        BY <2>2, <4>1, <4>2 DEF BandsInv, PlacedApart
    <3> QED
      BY <3>1, AtTheEnd
  <2>3. \A i, j \in Sized : i < j => i # j
    BY DEF Sized, Indices
  <2> QED
    BY <2>1, <2>2, <2>3 DEF PartsKeepApart
<1> QED
  BY <1>1, BandsHold, PTL

\* When no part of a band is empty, each band is its own parts and no byte of
\* another's: what is kept over a restart is what is RETAIN, and only that
\* (memory.rs:101-104, 291-295, 398-403).
THEOREM BandsAreTheirOwn ==
    ASSUME NoEmptyInBands PROVE Spec => []BandsHoldTheirOwn
<1>1. BandsInv => BandsHoldTheirOwn
  <2> SUFFICES ASSUME BandsInv, group = 10, NEW b \in BandNames, NEW i \in Sized
               PROVE  IF parts[i].kind \in Members(b)
                      THEN base[b] <= at[i] /\ at[i] + parts[i].size <= top[b]
                      ELSE at[i] + parts[i].size <= base[b] \/ top[b] <= at[i]
    BY DEF BandsHoldTheirOwn
  <2>1. /\ i \in DOMAIN place /\ i \in Indices /\ at[i] = place[i]
        /\ End(i) = at[i] + parts[i].size
    BY AtTheEnd
  <2>2. /\ parts[i] \in AnyPart /\ Grp(i) \in 1..8
        /\ parts[i].kind \in Members(b) <=> First(b) <= Grp(i) /\ Grp(i) <= Final(b)
        /\ First(b) \in 2..7 /\ Final(b) \in 2..8
    BY <2>1, IndexTypes, MembersAreGroups DEF BandsInv, Grp
  <2>3. peak <= Limit /\ cursor <= Limit
    BY DEF BandsInv, Patched
  <2>4. /\ Final(b) < group => base[b] # Unset
        /\ Grp(i) < First(b) => base[b] = Unset \/ End(i) <= base[b]
        /\ Grp(i) > Final(b) => top[b] <= place[i]
        /\ First(b) <= Grp(i) /\ Grp(i) <= Final(b) =>
             /\ base[b] # Unset /\ base[b] <= place[i]
             /\ Final(b) < group => End(i) <= top[b]
    BY <2>1, <2>3 DEF BandsInv, Bounds
  <2>5. Final(b) < group
    BY <2>2
  <2>6. Grp(i) < First(b) \/ Grp(i) > Final(b) \/ (First(b) <= Grp(i) /\ Grp(i) <= Final(b))
    BY <2>2
  <2>7. CASE First(b) <= Grp(i) /\ Grp(i) <= Final(b)
    BY <2>1, <2>2, <2>4, <2>5, <2>7
  <2>8. CASE Grp(i) < First(b)
    <3>1. End(i) <= base[b]
      BY <2>4, <2>5, <2>8
    <3>2. ~(First(b) <= Grp(i))
      BY <2>2, <2>8
    <3> QED
      BY <2>1, <2>2, <3>1, <3>2
  <2>9. CASE Grp(i) > Final(b)
    <3>1. top[b] <= place[i]
      BY <2>4, <2>9
    <3>2. ~(Grp(i) <= Final(b))
      BY <2>2, <2>9
    <3> QED
      BY <2>1, <2>2, <3>1, <3>2
  <2> QED
    BY <2>6, <2>7, <2>8, <2>9
<1> QED
  BY <1>1, BandsHold, PTL

\* When no part of a band is empty, each part is known by the address it was
\* placed at: no other's entry answers for it (memory.rs:331-332, 431-433).
THEOREM EachIsFoundWhereItWasPlaced ==
    ASSUME NoEmptyInBands PROVE Spec => []EmptyPartsTakeNoEntry
<1>1. BandsInv => EmptyPartsTakeNoEntry
  BY AtTheEnd DEF EmptyPartsTakeNoEntry
<1> QED
  BY <1>1, BandsHold, PTL

\* When no part of a band is empty, every part of a finished module is where
\* its alignment wants it, whatever the alignments (memory.rs:316-440).
THEOREM PartsStayAligned ==
    ASSUME NoEmptyInBands PROVE Spec => []PartsAreAligned
<1>1. Init => BandsInv /\ AlignedSoFar
  <2>1. Init => AlignedSoFar
    BY DEF Init, AlignedSoFar, Indices
  <2> QED
    BY <2>1, InitBands
<1>2. BandsInv /\ AlignedSoFar /\ [Next]_vars => BandsInv' /\ AlignedSoFar'
  BY BandsStep, AlignedStep
<1>3. BandsInv /\ AlignedSoFar => PartsAreAligned
  <2> SUFFICES ASSUME BandsInv, AlignedSoFar, group = 10, NEW i \in Sized
               PROVE  at[i] % parts[i].align = 0
    BY DEF PartsAreAligned
  <2>1. i \in DOMAIN place /\ at[i] = place[i]
    BY AtTheEnd
  <2> QED
    BY <2>1 DEF AlignedSoFar
<1> QED
  BY <1>1, <1>2, <1>3, PTL DEF Spec
=============================================================================
