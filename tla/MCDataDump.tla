---------------------------- MODULE MCDataDump -----------------------------
(* Instances of DataDump for TLC; the constants are given in the .cfg's. *)
EXTENDS DataDump, TLC

Symmetry == Permutations(Dumps) \union Permutations(Reqs)
============================================================================
