---------------------------- MODULE DailyLedger ----------------------------
(***************************************************************************)
(* What the daily aggregation promises the reader of summaries             *)
(* (getMissingIntervals): a user's days are recorded one after the other,  *)
(* each once it is over, and what is recorded stays.  The first day may be *)
(* any.  Aggregation implements it when nothing but the cron job and       *)
(* crashes disturbs it.                                                    *)
(***************************************************************************)
EXTENDS Integers

CONSTANT Users

VARIABLES
    today,
    days         \* days recorded, of each user

vars == <<today, days>>

Init == today = 0 /\ days = [u \in Users |-> {}]

Midnight == today' = today + 1 /\ UNCHANGED days

Record(u, d) ==
    /\ d < today
    /\ days[u] = {} \/ d - 1 \in days[u]
    /\ days' = [days EXCEPT ![u] = @ \union {d}]
    /\ UNCHANGED today

Next == Midnight \/ \E u \in Users : \E d \in 0 .. today : Record(u, d)

Spec == Init /\ [][Next]_vars
============================================================================
