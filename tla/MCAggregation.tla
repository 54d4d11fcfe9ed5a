--------------------------- MODULE MCAggregation ---------------------------
(* Instances of Aggregation for TLC; the constants are given in the .cfg's. *)
EXTENDS Aggregation
============================================================================
