---------------------------- MODULE MCMainTurns -----------------------------
(* Small instances of MainTurns.                                           *)
EXTENDS MainTurns, TLC

CONSTANTS p1, p2, a1, o1

PersonSymmetry == Permutations(Person)
=============================================================================
