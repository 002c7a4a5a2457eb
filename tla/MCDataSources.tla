---------------------------- MODULE MCDataSources ----------------------------
(* An upload that two tabs remove while it is read, and a warehouse that is removed. *)
EXTENDS DataSources

CONSTANTS up, wh, d1, d2, d3, q1

Named == [x \in {d1, d2, d3, q1} |-> IF x \in {d1, d2, q1} THEN up ELSE wh]
=============================================================================
