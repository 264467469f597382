--------------------------- MODULE MC_DbiResults ---------------------------
(***************************************************************************)
(* A result of any class, and beside it, on its connection, one that       *)
(* streams or is kept whole.                                               *)
(***************************************************************************)
EXTENDS DbiResults

CONSTANTS r1, r2

MCResult == {r1, r2}

Sent(class, type, params) == [class |-> class, type |-> type, params |-> params]

MCKind ==
  r1 :> { Sent("frame", "SELECT", TRUE), Sent("frame", "RETURNING", FALSE), Sent("frame", "COUNT", TRUE),
          Sent("arrow", "SELECT", TRUE), Sent("arrow", "RETURNING", TRUE), Sent("legacy", "SELECT", TRUE) }
  @@ r2 :> { Sent("arrow", "SELECT", FALSE), Sent("legacy", "SELECT", FALSE) }
=============================================================================
