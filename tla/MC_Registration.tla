-------------------------- MODULE MC_Registration --------------------------
(* The constants of Registration for TLC. *)
EXTENDS Registration, TLC

CONSTANTS n1, f1, f2, t1

MCName  == {n1}
MCFrame == {f1, f2}
MCTable == {t1}

Symmetry == Permutations(MCFrame)
=============================================================================
