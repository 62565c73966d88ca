----------------------------- MODULE MCBrowser -----------------------------
(* Small instances of Browser for TLC.                                     *)
EXTENDS Browser, TLC

CONSTANTS a, b

\* a is there from the start, b is created by somebody.
MCSeed == {[name |-> a, role |-> "writer"]}
MCCreated == {[name |-> a, role |-> "reader"], [name |-> b, role |-> "reader"]}

Symmetry == Permutations(Calls) \cup Permutations(Replicas)
=============================================================================
