--------------------------- MODULE MCSignSession ----------------------------
(* Instances of SignSession for TLC.                                       *)
EXTENDS SignSession, TLC

Symmetry == Permutations(Party)

=============================================================================
