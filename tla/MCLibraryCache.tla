--------------------------- MODULE MCLibraryCache ---------------------------
(* Instances of LibraryCache for TLC.                                        *)
EXTENDS LibraryCache, TLC

CONSTANTS p, q, r, std, old, new, config, source, archive

\* Sound for the runs of safety properties only.
ProcessesAlike == Permutations(Processes) \cup Permutations(Parts)
=============================================================================
