---------------------------- MODULE LibraryStore ----------------------------
(***************************************************************************)
(* What rk's cache promises of the libraries it fetches: a library is      *)
(* there whole or not at all, stays as it is once it is there, is trusted  *)
(* to be what a URL gives only once that URL gave it, and is read whole.   *)
(* LibraryCache implements this file by file.                              *)
(***************************************************************************)

CONSTANTS
    Processes,
    Libraries,      \* the hashes of what can be fetched
    Urls,
    Complete,       \* all the files of a library
    Nothing         \* no library read

VARIABLES
    kept,           \* a function from the libraries kept to their files
    trusted,        \* the pairs of a URL and a hash it gave
    taken           \* [Processes -> {Complete, Nothing}]: what a build has read

vars == <<kept, trusted, taken>>

Init ==
    /\ kept = [h \in {} |-> Complete]
    /\ trusted = {}
    /\ taken = [p \in Processes |-> Nothing]

\* store: beside its place, then moved there whole.
Keep(h) ==
    /\ h \notin DOMAIN kept
    /\ kept' = [g \in DOMAIN kept \cup {h} |-> Complete]
    /\ UNCHANGED <<trusted, taken>>

\* record_url
Trust(u, h) ==
    /\ h \in DOMAIN kept
    /\ trusted' = trusted \cup {<<u, h>>}
    /\ UNCHANGED <<kept, taken>>

\* A build reads a library that is_cached answers for.
Take(p, u, h) ==
    /\ <<u, h>> \in trusted
    /\ taken[p] = Nothing
    /\ taken' = [taken EXCEPT ![p] = Complete]
    /\ UNCHANGED <<kept, trusted>>

\* The build ends.
End(p) ==
    /\ taken[p] # Nothing
    /\ taken' = [taken EXCEPT ![p] = Nothing]
    /\ UNCHANGED <<kept, trusted>>

Next ==
    \/ \E h \in Libraries : Keep(h)
    \/ \E u \in Urls, h \in Libraries : Trust(u, h)
    \/ \E p \in Processes, u \in Urls, h \in Libraries : Take(p, u, h)
    \/ \E p \in Processes : End(p)

Spec == Init /\ [][Next]_vars
=============================================================================
