---------------------------- MODULE MCRetrieval -----------------------------
(* Retrieval for TLC, with its values. *)
EXTENDS Retrieval, RetrievalValues
============================================================================
