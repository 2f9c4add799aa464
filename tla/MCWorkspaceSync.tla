--------------------------- MODULE MCWorkspaceSync ---------------------------
(* Instances of WorkspaceSync for TLC: the workspace folder root holds std,  *)
(* a folder the standard library can be in, which holds sub, a folder that   *)
(* can be a project and a library of its own; out is elsewhere.              *)
EXTENDS WorkspaceSync, TLC

CONSTANTS root, std, sub, out, block, part, other, draft, t1, t2

MCFolders == {root, std, sub, out}
MCAbove == (root :> {root}) @@ (std :> {std, root}) @@ (sub :> {sub, std, root}) @@ (out :> {out})
MCFolderOf == [f \in Files |-> CASE f = block -> std [] f = part -> sub [] f = other -> out]
MCLibraryOrder == <<std, sub>>
MCStandards == {{}, {std}}
NoStandard == {{}}

NoManifest == [state |-> "missing", deps |-> {}]
BrokenManifest == [state |-> "invalid", deps |-> {}]
Depends(on) == [state |-> "valid", deps |-> on]

WatchManifests == {NoManifest, Depends({sub})}
AllManifests == {NoManifest, BrokenManifest, Depends({})}
EditManifests == {NoManifest, Depends({})}

\* Bound: while a second file or a nested project is in play, the disk and the
\* editor have one text at a time, and no draft was opened.
TextsInPlay == ({disk[f] : f \in Files} \cup {buffer[d] : d \in Docs}) \cap Texts
OtherInPlay == disk[other] # Gone \/ buffer[other] # Closed \/ projects # {}
FewAtATime ==
    OtherInPlay => /\ Cardinality(TextsInPlay) <= 1
                   /\ \A d \in Drafts : buffer[d] = Closed /\ ~Held(d)

\* Sound for the runs of safety properties only.
TextsAlike == Permutations(Texts)
=============================================================================
