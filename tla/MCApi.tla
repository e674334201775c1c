------------------------------- MODULE MCApi -------------------------------
(* Instances of Api for TLC. *)
EXTENDS Api, TLC

CONSTANTS t1, t2

TwoTokens == {t1, t2}

Symmetry == Permutations(Tokens)
=============================================================================
