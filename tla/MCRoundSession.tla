--------------------------- MODULE MCRoundSession ---------------------------
(* Instances of RoundSession for TLC.                                      *)
EXTENDS RoundSession, TLC

Symmetry == Permutations(Party)

=============================================================================
