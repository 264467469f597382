-------------------------- MODULE MC_ArrowResults --------------------------
(***************************************************************************)
(* Instances of ArrowResults for TLC: two connections, and two results     *)
(* that compete for the first or run on one connection each.               *)
(***************************************************************************)
EXTENDS ArrowResults, TLC

CONSTANTS c1, c2, r1, r2

HomeShared == r1 :> c1 @@ r2 :> c1
HomeAlone  == r2 :> c1
HomeApart  == r1 :> c1 @@ r2 :> c2

=============================================================================
