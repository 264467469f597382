----------------------------- MODULE LazyFrame ------------------------------
(***************************************************************************)
(* What a lazy data frame promises R code: it is undecided until its query *)
(* has run, then it is the rows of that one run for good, or an error for  *)
(* good.  Whatever columns it gives out are of that run, complete, and     *)
(* stay what they were.                                                    *)
(***************************************************************************)
EXTENDS Naturals

CONSTANTS Frame, Cols, Version

VARIABLES
  data,    \* the run a frame shows, 0 while it shows none
  broken,  \* the frame answers its stored error
  given    \* per column the run that was given out, 0 for none

lazyVars == <<data, broken, given>>

Init ==
  /\ data = [f \in Frame |-> 0]
  /\ broken = [f \in Frame |-> FALSE]
  /\ given = [f \in Frame |-> [k \in Cols |-> 0]]

Undecided(f) == data[f] = 0 /\ ~broken[f]

Settle(f) ==
  /\ Undecided(f)
  /\ \E v \in Version : data' = [data EXCEPT ![f] = v]
  /\ UNCHANGED <<broken, given>>

Break(f) ==
  /\ Undecided(f)
  /\ broken' = [broken EXCEPT ![f] = TRUE]
  /\ UNCHANGED <<data, given>>

Give(f, k) ==
  /\ data[f] # 0 /\ given[f][k] = 0
  /\ given' = [given EXCEPT ![f][k] = data[f]]
  /\ UNCHANGED <<data, broken>>

Next == \E f \in Frame : Settle(f) \/ Break(f) \/ \E k \in Cols : Give(f, k)

Spec == Init /\ [][Next]_lazyVars
=============================================================================
