--------------------------- MODULE MCSchemaIndex ---------------------------
(* Values for checking SchemaIndex with TLC.                               *)
EXTENDS SchemaIndex, TLC

CONSTANTS r1, r2, r3, r4, p1, p2, b0

TwoProcesses == (r1 :> p1) @@ (r2 :> p1) @@ (r3 :> p2) @@ (r4 :> p2)
=============================================================================
