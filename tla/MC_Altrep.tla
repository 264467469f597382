----------------------------- MODULE MC_Altrep ------------------------------
(***************************************************************************)
(* Two data frames of two columns, on two connections.                     *)
(***************************************************************************)
EXTENDS Altrep, TLC

CONSTANTS c1, c2, f1, f2

HomeApart == f1 :> c1 @@ f2 :> c2
=============================================================================
