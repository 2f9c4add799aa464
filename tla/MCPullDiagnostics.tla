-------------------------- MODULE MCPullDiagnostics --------------------------
(* Instances of PullDiagnostics for TLC: a file is clean or has an error.    *)
EXTENDS PullDiagnostics

CONSTANTS a, b, clean, error, noErrors, oneError

MCFingerprint == [l \in Lists |-> IF l = clean THEN noErrors ELSE oneError]
=============================================================================
