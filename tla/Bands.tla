-------------------------------- MODULE Bands --------------------------------
(***************************************************************************)
(* The static memory of a compiled module: mir/src/memory.rs, as           *)
(* lower/lower_module.rs drives it.                                        *)
(*                                                                         *)
(* Lowering lays the parts out as it meets them: the locals of the bodies, *)
(* then the globals and the located cells, then the program instances.     *)
(* finalize_bands then lays them out again: what is in no band from the    *)
(* floor up, then the bands, one group after the other,                    *)
(*                                                                         *)
(*    %I | %Q | %M | %M kept | kept instances | kept globals | globals     *)
(*                    '------------- retain ------------'                  *)
(*                                            '------- globals -------'    *)
(*                                                                         *)
(* and notes in remap where each address went, by the address alone.  The  *)
(* addresses the program holds are patched from it at the end.  A part is  *)
(* kept when it is RETAIN.  One iteration of a loop is one action.         *)
(***************************************************************************)
EXTENDS Naturals, Sequences

CONSTANTS
    MaxParts,       \* bound: the parts of a program
    LocalShapes,    \* the <<size, alignment>> of what is in no band
    BandShapes,     \* the same of what is in one
    MaxAlign,       \* the largest alignment: FRAME_ALIGN
    Floor,          \* BUILTIN_RESERVED_FLOOR
    Limit           \* the last address of a module

ASSUME BandsAssumption ==
    /\ MaxParts \in Nat /\ Floor \in Nat \ {0} /\ Limit \in Nat /\ MaxAlign \in Nat
    /\ LocalShapes \subseteq Nat \X (1..MaxAlign)
    /\ BandShapes \subseteq Nat \X (1..MaxAlign)

Unbanded  == {"local", "instance"}
Located   == {"input", "output", "marker", "keptMarker"}
Instances == {"instance", "keptInstance"}
Kinds     == Unbanded \cup Located \cup {"keptInstance", "keptGlobal", "global"}
BandNames == {"input", "output", "marker", "retain", "globals"}

VARIABLES
    parts,      \* the parts, in the order they were allocated
    at,         \* the address the program knows each by
    offset,     \* where the layout ends
    peak,       \* the furthest it went
    group,      \* 0: allocating; 1..8: the group being placed; 9: laid out; 10: patched
    place,      \* where each part placed so far went
    cursor,     \* where the next part goes
    remap,      \* an address, to the one it moved to
    base, top   \* the bounds of the bands; Unset before a band's first part

vars == <<parts, at, offset, peak, group, place, cursor, remap, base, top>>

-----------------------------------------------------------------------------
(* Addresses.                                                                *)

\* The first multiple of a at or after o.
AlignByRemainder(o, a) == o + (o % a)
AlignUp(o, a) == o + ((a - (o % a)) % a)

\* A part that ends past the last address is at 0.
WithinAnything(value, end) == value
Within(value, end) == IF end <= Limit THEN value ELSE 0

\* No band starts at 0: the floor is above it.
Unset == 0

\* An instance holding nothing has a byte of its own, where it is allocated.
Reserved(p) == IF p.kind \in Instances /\ p.size = 0 THEN 1 ELSE p.size

\* The group a part is placed in.  The kept cells end their area.
GroupOfCellsUnsorted(p) ==
    CASE p.kind \in Unbanded -> 1
      [] p.kind = "input" -> 2  [] p.kind = "output" -> 3
      [] p.kind = "marker" -> 5 [] p.kind = "keptMarker" -> 4
      [] p.kind = "keptInstance" -> 6
      [] p.kind = "keptGlobal" -> 7 [] p.kind = "global" -> 8
GroupOf(p) ==
    CASE p.kind \in Unbanded -> 1
      [] p.kind = "input" -> 2  [] p.kind = "output" -> 3
      [] p.kind = "marker" -> 4 [] p.kind = "keptMarker" -> 5
      [] p.kind = "keptInstance" -> 6
      [] p.kind = "keptGlobal" -> 7 [] p.kind = "global" -> 8

\* The first and the last group of a band.
First(b) == CASE b = "input" -> 2 [] b = "output" -> 3 [] b = "marker" -> 4
              [] b = "retain" -> 5 [] b = "globals" -> 7
Final(b) == CASE b = "input" -> 2 [] b = "output" -> 3 [] b = "marker" -> 5
              [] b = "retain" -> 7 [] b = "globals" -> 8

\* The order in which lowering allocates.
Turn(kind) == IF kind = "local" THEN 1 ELSE IF kind \in Instances THEN 3 ELSE 2

Greatest(S) == CHOOSE a \in S : \A b \in S : b <= a
BandAlign   == Greatest({parts[i].align : i \in {j \in DOMAIN parts : parts[j].kind \notin Unbanded}})

\* f, with x at y.
Put(f, x, y) == [z \in DOMAIN f \cup {x} |-> IF z = x THEN y ELSE f[z]]

Left == {i \in DOMAIN parts \ DOMAIN place : GroupOf(parts[i]) = group}

-----------------------------------------------------------------------------
Init ==
    /\ parts = <<>> /\ at = <<>>
    /\ offset = Floor /\ peak = Floor /\ cursor = Floor
    /\ group = 0
    /\ place = <<>> /\ remap = <<>>
    /\ base = [b \in BandNames |-> Unset] /\ top = [b \in BandNames |-> Unset]

\* A part, where the last one ends.
Allocate(p) ==
    /\ group = 0 /\ Len(parts) < MaxParts
    /\ parts # <<>> => Turn(parts[Len(parts)].kind) <= Turn(p.kind)
    /\ LET start == AlignUp(offset, p.align)
           end   == start + Reserved(p)
       IN  /\ parts' = Append(parts, p)
           /\ at' = Append(at, Within(start, end))
           /\ offset' = end
           /\ peak' = IF end > peak THEN end ELSE peak
    /\ UNCHANGED <<group, place, cursor, remap, base, top>>

NoBand == \A i \in DOMAIN parts : parts[i].kind \in Unbanded

\* No band, and nothing moves.
KeepLayout ==
    /\ group = 0 /\ NoBand
    /\ group' = 9
    /\ place' = at
    /\ cursor' = offset
    /\ base' = [b \in BandNames |-> offset] /\ top' = [b \in BandNames |-> offset]
    /\ UNCHANGED <<parts, at, offset, peak, remap>>

LayOutAgain ==
    /\ group = 0 /\ ~NoBand
    /\ group' = 1
    /\ cursor' = Floor
    /\ UNCHANGED <<parts, at, offset, peak, place, remap, base, top>>

\* A part, at the end of its group.  The located cells come in the order of
\* their addresses as written, which is any; the others as allocated.
PlacePart(i) ==
    /\ i \in Left
    /\ parts[i].kind \notin Located => \A j \in Left : i <= j
    /\ LET p     == parts[i]
           size  == IF group = 1 THEN Reserved(p) ELSE p.size
           start == AlignUp(cursor, p.align)
           addr  == Within(start, start + size)
           moves == group = 1 => size > 0 /\ addr # at[i]
       IN  /\ cursor' = start + size
           /\ place' = Put(place, i, addr)
           /\ remap' = IF moves THEN Put(remap, at[i], addr) ELSE remap
           /\ base' = [b \in BandNames |->
                          IF base[b] = Unset /\ group \in First(b)..Final(b) THEN start ELSE base[b]]
    /\ UNCHANGED <<parts, at, offset, peak, group, top>>

\* The group is placed: the bands that end with it are closed.  The first
\* band, and the globals, start at an alignment that suits every part.
NextGroup ==
    /\ group \in 1..8 /\ Left = {}
    /\ group' = group + 1
    /\ cursor' = IF group \in {1, 6} THEN AlignUp(cursor, BandAlign) ELSE cursor
    /\ base' = [b \in BandNames |->
                   IF b = "globals" /\ group = 6 THEN cursor'
                   ELSE IF base[b] = Unset /\ group = Final(b) THEN cursor ELSE base[b]]
    /\ top' = [b \in BandNames |-> IF group = Final(b) THEN cursor ELSE top[b]]
    /\ offset' = IF group = 8 THEN cursor ELSE offset
    /\ UNCHANGED <<parts, at, peak, place, remap>>

\* Whether the layout is one a module can have: otherwise it is refused.
FitsNow == offset <= Limit
Fits == (IF peak > Limit THEN peak ELSE offset) <= Limit

\* Every address the program holds is looked up.
Patch ==
    /\ group = 9 /\ Fits
    /\ group' = 10
    /\ at' = [i \in DOMAIN at |-> IF at[i] \in DOMAIN remap THEN remap[at[i]] ELSE at[i]]
    /\ UNCHANGED <<parts, offset, peak, place, cursor, remap, base, top>>

Parts(kinds, shapes) == {[kind |-> k, size |-> s[1], align |-> s[2]] : k \in kinds, s \in shapes}
AnyPart ==
    Parts(Unbanded, LocalShapes)
        \cup Parts(Kinds \ (Unbanded \cup Located), BandShapes)
        \cup Parts(Located, {s \in BandShapes : s[1] > 0})

Next ==
    \/ \E p \in AnyPart : Allocate(p)
    \/ KeepLayout
    \/ LayOutAgain
    \/ \E i \in DOMAIN parts : PlacePart(i)
    \/ NextGroup
    \/ Patch

Spec == Init /\ [][Next]_vars

-----------------------------------------------------------------------------
(* The properties, of a program with its final addresses.                    *)

Indices == 1..Len(parts)
Sized   == {i \in Indices : parts[i].size > 0}

\* The types: what an address is, and that each part has one.
TypeOK ==
    /\ parts \in Seq(AnyPart) /\ Len(parts) <= MaxParts
    /\ at \in Seq(0..Limit) /\ Len(at) = Len(parts)
    /\ offset \in Nat /\ peak \in Nat /\ cursor \in Nat
    /\ group \in 0..10
    /\ DOMAIN place \subseteq Indices /\ \A i \in DOMAIN place : place[i] \in 0..Limit
    /\ \A a \in DOMAIN remap : a \in 0..Limit /\ remap[a] \in 0..Limit
    /\ base \in [BandNames -> Nat] /\ top \in [BandNames -> Nat]

\* No two parts of a module share a byte, none is in the memory below the
\* floor, and none is past the end, where the strings are put
\* (memory.rs:263-268, lower_module.rs:759-761).
PartsKeepApart ==
    group = 10 =>
        /\ \A i \in Sized : Floor <= at[i] /\ at[i] + parts[i].size <= offset
        /\ \A i, j \in Sized : i < j =>
               at[i] + parts[i].size <= at[j] \/ at[j] + parts[j].size <= at[i]

\* What a band is for.
Members(b) == CASE b = "input" -> {"input"} [] b = "output" -> {"output"}
                [] b = "marker" -> {"marker", "keptMarker"}
                [] b = "retain" -> {"keptMarker", "keptInstance", "keptGlobal"}
                [] b = "globals" -> {"keptGlobal", "global"}

\* Each band holds all of its own, and no byte of another part: a host that
\* restores the retain band brings back nothing transient
\* (memory.rs:101-104, 291-295, 398-403).
BandsHoldTheirOwn ==
    group = 10 =>
        \A b \in BandNames, i \in Sized :
            IF parts[i].kind \in Members(b)
            THEN base[b] <= at[i] /\ at[i] + parts[i].size <= top[b]
            ELSE at[i] + parts[i].size <= base[b] \/ top[b] <= at[i]

\* Every part is where its alignment wants it, after it moved as before.
PartsAreAligned == group = 10 => \A i \in Sized : at[i] % parts[i].align = 0

\* "A part of no size holds nothing to move, and shares its address with the
\* part after it, whose entry it must not take" (memory.rs:331-332): every
\* other part is known by the address it was placed at.
EmptyPartsTakeNoEntry == group = 10 => \A i \in Sized : at[i] = place[i]
=============================================================================
