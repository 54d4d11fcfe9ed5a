------------------------------ MODULE MCPublic ------------------------------
(***************************************************************************)
(* What others see of a user, for TLC: the leaderboard, and what is shared *)
(* (Sharing).  They share no state: a behaviour is of the one or the other *)
(* part, chosen at the start, while the other rests in an initial state.   *)
(* The fairness is that of the leaderboard.                                *)
(***************************************************************************)
EXTENDS MCLeaderboard

VARIABLES part, date, days, shares

\* from August 2023 to January 2025, with the changes of the clock in Central Europe
S == INSTANCE Sharing WITH FirstDate <- 577, LastDate <- 1128, Hour <- 13,
         SpringForward <- {820}, FallBack <- {666, 1030}, Entities <- {"project", "label"},
         MaxDays <- {-1, 0, 1, 7, 30, 183, 184, 365, 366}, Asked <- {"last_7_days"}

sharingVars == <<date, days, shares>>
publicVars  == <<part, vars, sharingVars>>

PublicInit == part \in {"leaderboard", "sharing"} /\ Init /\ S!Init

PublicNext ==
    \/ part = "leaderboard" /\ Next /\ UNCHANGED <<part, sharingVars>>
    \/ part = "sharing" /\ S!Next /\ UNCHANGED <<part, vars>>

PublicSpec == PublicInit /\ [][PublicNext]_publicVars /\ Fairness

\* The routes agree on what is shared, on every date (Sharing).
SharingAgrees == part = "sharing" => S!SharingAgrees
=============================================================================
