----------------------------- MODULE MCResolver -----------------------------
(* Instances of Resolver for TLC: the projects in which the workspace asks  *)
(* for what it likes, and each library for one of a few.  Two folders have  *)
(* the first name and three the second, one of them the standard library;   *)
(* a fetched library has a folder inside.                                   *)
EXTENDS Resolver

CONSTANTS work, one, two, other, fetched, inside, std

MCNameOf ==
    [f \in Folders |->
        CASE f \in {one, inside} -> 1 [] f \in {two, other, std} -> 2
          [] f = fetched -> 3 [] OTHER -> None]

MCFetchedIn ==
    [f \in Folders |-> IF f \in {fetched, inside} THEN fetched ELSE IF f = std THEN std ELSE None]

Path(n, f) == [name |-> n, kind |-> "path", dir |-> f]
Url(n, f)  == [name |-> n, kind |-> "url", dir |-> f]
Lost(n)    == [name |-> n, kind |-> "lost"]

\* By name: each folder of that name, the workspace, another's name, the
\* cache by a path, and what is not there.
First  == {{}, {Path(1, one)}, {Path(1, inside)}, {Path(1, work)}}
Second == {{}, {Path(2, two)}, {Path(2, other)}, {Url(2, std)}}
Third  == {{}, {Url(3, fetched)}, {Path(3, fetched)}, {Lost(3)}}

\* What each library may ask for: chains, cycles, and paths out of a fetched one.
OfOne     == {{}, {Path(2, two)}, {Path(2, other), Url(3, fetched)}}
OfTwo     == {{}, {Path(1, one)}, {Path(1, inside), Lost(3)}}
OfOther   == {{}, {Path(2, two)}}
OfFetched == {{}, {Path(1, inside)}, {Path(1, inside), Path(2, two)}, {Url(2, std)}}
OfInside  == {{}, {Path(3, fetched)}, {Path(2, other)}}
OfStd     == {{Path(1, two)}}

MCProjects ==
    {[f \in Folders |->
        CASE f = work -> a \cup b \cup c [] f = one -> d [] f = two -> e [] f = other -> g
          [] f = fetched -> h [] f = inside -> i [] f = std -> j] :
        a \in First, b \in Second, c \in Third, d \in OfOne, e \in OfTwo, g \in OfOther,
        h \in OfFetched, i \in OfInside, j \in OfStd}
=============================================================================
