----------------------------- MODULE MCLimiters -----------------------------
(***************************************************************************)
(* Limiters for TLC.                                                       *)
(***************************************************************************)
EXTENDS Limiters, TLC

CONSTANTS c1, c2

CallerSymmetry == Permutations({c1, c2})

=============================================================================
