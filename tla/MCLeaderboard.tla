--------------------------- MODULE MCLeaderboard ---------------------------
(* Instances of Leaderboard for TLC; the constants are given in the .cfg's. *)
EXTENDS Leaderboard
============================================================================
