----------------------------- MODULE MC_Drivers -----------------------------
(***************************************************************************)
(* Small instances of Drivers: one database file, a symbolic link to it,   *)
(* the in-memory database, and two settings.                               *)
(***************************************************************************)
EXTENDS Drivers

CONSTANTS d1, d2, d3, c1, c2

MC_Name == {"memory", "file", "link"}
MC_Target == [p \in MC_Name |-> IF p = "link" THEN "file" ELSE p]

Symmetry == Permutations(Drv) \cup Permutations(Conn)

=============================================================================
