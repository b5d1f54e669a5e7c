---------------------------- MODULE MCTokenAuth ----------------------------
(* Instances of TokenAuth for TLC.                                         *)
EXTENDS TokenAuth, TLC

Symmetry == Permutations(Requests) \cup Permutations(Tokens \ Foreign)
=============================================================================
