---------------------------- MODULE MCAuthStore ----------------------------
(* Small instances of AuthStore for TLC.                                   *)
EXTENDS AuthStore, TLC

Symmetry == Permutations(Replicas) \cup Permutations(Calls) \cup Permutations(Tokens)
=============================================================================
