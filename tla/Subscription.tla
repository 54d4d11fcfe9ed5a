---------------------------- MODULE Subscription ----------------------------
(***************************************************************************)
(* A user's subscription: what Stripe knows, the webhooks that report it,  *)
(* the dates in the user's row, the reminder mail before and after expiry  *)
(* with its mark in the key-value store, the retention job, and the        *)
(* cancellation when the account is deleted (routes/subscription.go,       *)
(* services/misc.go, services/housekeeping.go).                            *)
(*                                                                         *)
(* Time is counted in days, of which only differences matter; 0 stands for *)
(* a date that is nil.  A day is the time from one check for reminders to  *)
(* the next, which is twelve hours in the code, and the retention job runs *)
(* on some of these days.  Whole-row updates that overlap are in Accounts; *)
(* here a handler reads and writes the row in one step.                    *)
(***************************************************************************)
EXTENDS Integers, Sequences, SequencesExt

CONSTANTS
    Period,     \* length of a paid period
    Notice,     \* notifyBeforeSubscriptionExpiry, shorter than a period
    MaxDay,     \* bound: the last day
    MaxOrders,  \* bound: what the user does, and faults, together
    MaxFaults   \* bound: faults: failing queries, mails and calls of Stripe, and
                \* webhooks that overtake others

VARIABLES
    now,
    stripe,     \* the subscription as Stripe has it
    pending,    \* webhooks that were sent and not handled
    row,        \* the user
    mark,       \* key-value "sub_reminder": when the last reminder was sent
    clears,     \* goroutines that are to delete the mark
    check,      \* NotifyExpiringSubscription between its two queries
    mails,      \* reminders in the mail queue
    sent,       \* the last reminder: day, for which end (ghost)
    cleanup,    \* the retention job in the queue, with its copy of the user
    leaving,    \* a deletion that waits its five minutes
    cancelling, \* what the subscriber of the deletion works on
    today,      \* the jobs that have run today
    orders, faults

vars == <<now, stripe, pending, row, mark, clears, check, mails, sent, cleanup,
          leaving, cancelling, today, orders, faults>>
jobs == <<check, mails, sent, cleanup, leaving, cancelling, today>>

Nobody == [there |-> FALSE, until |-> 0, renewal |-> 0, customer |-> FALSE]

Init ==
    /\ now = 1
    /\ stripe = [status |-> "none", end |-> 0, cancel |-> FALSE]
    /\ pending = <<>>
    /\ row = [Nobody EXCEPT !.there = TRUE]
    /\ mark = 0 /\ clears = 0
    /\ check = {} /\ mails = <<>> /\ sent = [day |-> 0, until |-> 0]
    /\ cleanup = {} /\ leaving = {} /\ cancelling = {} /\ today = {}
    /\ orders = 0 /\ faults = 0

Active(u)  == u.until > now                    \* HasActiveSubscription
Expired(u) == u.until # 0 /\ u.until <= now    \* SubscriptionExpiredSince
Fault      == faults < MaxFaults /\ orders + faults < MaxOrders /\ faults' = faults + 1

----------------------------------------------------------------------------
(***************************************************************************)
(* Stripe and its customer.                                                *)
(***************************************************************************)
Event(s)     == [kind |-> "subscription", of |-> s]
Checkout     == [kind |-> "checkout", of |-> [status |-> "none", end |-> 0, cancel |-> FALSE]]
Order        == orders + faults < MaxOrders /\ orders' = orders + 1
Tell(s, seq) == stripe' = s /\ pending' = pending \o seq

\* PostCheckout leads to Stripe, which tells of the session and the subscription
\* in either order
Subscribe ==
    /\ row.there /\ stripe.status \in {"none", "canceled"} /\ Order
    /\ LET s == [status |-> "active", end |-> now + Period, cancel |-> FALSE] IN
       \/ Tell(s, <<Checkout, Event(s)>>)
       \/ Tell(s, <<Event(s), Checkout>>)
    /\ UNCHANGED <<now, row, mark, clears, jobs, faults>>

\* PostPortal leads to Stripe: cancel at the end, take that back, cancel at once
Portal ==
    /\ row.there /\ row.customer /\ stripe.status = "active" /\ Order
    /\ \E s \in {[stripe EXCEPT !.cancel = ~ @], [stripe EXCEPT !.status = "canceled"]} :
          Tell(s, <<Event(s)>>)
    /\ UNCHANGED <<now, row, mark, clears, jobs, faults>>

\* the period is over: paid again, not paid, or ended as the user wished
PeriodEnds ==
    /\ stripe.status = "active" /\ stripe.end = now
    /\ \E s \in IF stripe.cancel THEN {[stripe EXCEPT !.status = "canceled"]}
                ELSE {[stripe EXCEPT !.end = now + Period], [stripe EXCEPT !.status = "past_due"]} :
          Tell(s, <<Event(s)>>)
    /\ UNCHANGED <<now, row, mark, clears, jobs, orders, faults>>

----------------------------------------------------------------------------
(***************************************************************************)
(* Webhooks.                                                               *)
(***************************************************************************)
\* mutant: the event is taken for old when the user has a later date
HandleSubscriptionEventMonotone(s) ==
    /\ row' = IF s.status = "active" /\ s.end > row.until
              THEN [row EXCEPT !.until = s.end, !.renewal = IF s.cancel THEN 0 ELSE s.end]
              ELSE row
    /\ clears' = clears

\* mutant: a subscription that ended leaves its renewal behind
HandleSubscriptionEventHalf(s) ==
    /\ row' = CASE s.status = "active" -> [row EXCEPT !.until = s.end, !.renewal = s.end]
                [] s.status = "canceled" -> [row EXCEPT !.until = 0]
                [] OTHER -> row
    /\ clears' = clears

\* handleSubscriptionEvent: the dates change only with the end of the period; a
\* planned cancellation takes the renewal away
HandleSubscriptionEvent(s) ==
    LET fresh == row.until # s.end
        dated == IF fresh THEN [row EXCEPT !.until = s.end, !.renewal = s.end] ELSE row
    IN CASE s.status = "active" ->
              /\ row' = IF s.cancel /\ s.end > now THEN [dated EXCEPT !.renewal = 0] ELSE dated
              /\ clears' = IF fresh THEN clears + 1 ELSE clears
         [] s.status = "canceled" ->
              row' = [row EXCEPT !.until = 0, !.renewal = 0] /\ UNCHANGED clears
         [] OTHER -> UNCHANGED <<row, clears>>

\* PostWebhook: the user is found by the customer or by the address; an event for
\* which nobody is found, or whose update fails, is answered 200 and gone.  An
\* event may be delivered again before the next one, or overtake others.
PostWebhook(i) ==
    /\ pending' \in {pending, RemoveAt(pending, i)}
    /\ LET e == pending[i] IN
       \/ /\ i = 1 /\ row.there /\ UNCHANGED faults
          /\ IF e.kind = "checkout"
             THEN row' = [row EXCEPT !.customer = TRUE] /\ UNCHANGED clears
             ELSE HandleSubscriptionEvent(e.of)
       \/ i = 1 /\ ~ row.there /\ UNCHANGED <<row, clears, faults>>
       \/ i = 1 /\ Fault /\ UNCHANGED <<row, clears>>
       \/ i > 1 /\ row.there /\ e.kind # "checkout" /\ Fault /\ HandleSubscriptionEvent(e.of)
    /\ UNCHANGED <<now, stripe, mark, jobs, orders>>

\* clearSubscriptionNotificationStatus, in its own goroutine
ClearSubscriptionNotificationStatus ==
    /\ clears > 0
    /\ clears' = clears - 1
    /\ mark' = 0
    /\ UNCHANGED <<now, stripe, pending, row, jobs, orders, faults>>

----------------------------------------------------------------------------
(***************************************************************************)
(* The reminder.                                                           *)
(***************************************************************************)
\* NotifyExpiringSubscription reads the users first ...
ReadUsers ==
    /\ "notify" \notin today /\ check = {}
    /\ today' = today \union {"notify"}
    /\ \/ check' = {row} /\ UNCHANGED faults
       \/ Fault /\ UNCHANGED check
    /\ UNCHANGED <<now, stripe, pending, row, mark, clears, mails, sent, cleanup, leaving,
                   cancelling, orders>>

\* mutant: reminds again on the day the notice ends
AlreadySentStrictly == mark # 0 /\ now - mark < Notice

AlreadySent == mark # 0 /\ now - mark <= Notice

\* mutant: who has expired is not reminded any more
DueAhead(u) == u.until > now /\ ~ (u.renewal > now) /\ u.until - now <= Notice

Due(u) == u.until # 0 /\ ~ (u.renewal > now) /\ u.until - now <= Notice

\* ... then the marks, and queues a mail for who is due
NotifyExpiringSubscription ==
    /\ check # {}
    /\ check' = {}
    /\ \E u \in check :
          \/ /\ UNCHANGED faults
             /\ mails' = IF u.there /\ ~ AlreadySent /\ Due(u)
                         THEN Append(mails, [until |-> u.until, out |-> FALSE]) ELSE mails
          \/ Fault /\ UNCHANGED mails
    /\ UNCHANGED <<now, stripe, pending, row, mark, clears, sent, cleanup, leaving,
                   cancelling, today, orders>>

\* the mail goes out, the mark is written next; either may fail
SendMail ==
    /\ mails # <<>>
    /\ \/ /\ ~ Head(mails).out
          /\ sent' = [day |-> now, until |-> Head(mails).until]
          /\ mails' = [mails EXCEPT ![1].out = TRUE]
          /\ UNCHANGED <<mark, faults>>
       \/ /\ Head(mails).out
          /\ mark' = now
          /\ mails' = Tail(mails)
          /\ UNCHANGED <<sent, faults>>
       \/ Fault /\ mails' = Tail(mails) /\ UNCHANGED <<mark, sent>>
    /\ UNCHANGED <<now, stripe, pending, row, clears, check, cleanup, leaving, cancelling,
                   today, orders>>

----------------------------------------------------------------------------
(***************************************************************************)
(* Retention, and the deletion of the account.                             *)
(***************************************************************************)
\* MinDataAge spares who has an active subscription; the others' jobs keep a copy
RunCleanDataJob == row.there /\ ~ Active(row) /\ cleanup' = {row}

RunCleanData ==
    /\ "clean" \notin today /\ cleanup = {}
    /\ today' = today \union {"clean"}
    /\ \/ RunCleanDataJob /\ UNCHANGED faults
       \/ ~ (row.there /\ ~ Active(row)) /\ UNCHANGED <<cleanup, faults>>
       \/ Fault /\ UNCHANGED cleanup
    /\ UNCHANGED <<now, stripe, pending, row, mark, clears, check, mails, sent, leaving,
                   cancelling, orders>>

\* old data of the user is removed; the age is computed from the copy
CleanUserDataBefore ==
    /\ cleanup # {}
    /\ cleanup' = {}
    /\ UNCHANGED <<now, stripe, pending, row, mark, clears, check, mails, sent, leaving,
                   cancelling, today, orders, faults>>

RequestDeletion ==
    /\ row.there /\ leaving = {} /\ Order
    /\ leaving' = {row}
    /\ UNCHANGED <<now, stripe, pending, row, mark, clears, check, mails, sent, cleanup,
                   cancelling, today, faults>>

\* mutant: the subscriber is told of an active subscription only
DeleteUserQuietly ==
    /\ leaving # {} /\ row.there
    /\ row' = [row EXCEPT !.there = FALSE]
    /\ UNCHANGED <<now, stripe, pending, mark, clears, jobs, orders, faults>>

\* five minutes later: the deletion is published with the copy, then done
DeleteUser ==
    /\ leaving # {} /\ row.there /\ cancelling = {}
    /\ row' = [row EXCEPT !.there = FALSE]
    /\ cancelling' = {u \in leaving : Active(u)}
    /\ UNCHANGED <<now, stripe, pending, mark, clears, check, mails, sent, cleanup, leaving,
                   today, orders, faults>>

\* the active subscription of the customer is looked up and cancelled
CancelUserSubscription ==
    /\ cancelling # {}
    /\ cancelling' = {}
    /\ \/ /\ \E u \in cancelling : u.customer
          /\ stripe.status = "active" /\ stripe.end > now
          /\ LET s == [stripe EXCEPT !.status = "canceled"] IN Tell(s, <<Event(s)>>)
          /\ UNCHANGED faults
       \/ /\ ~ (stripe.status = "active" /\ stripe.end > now /\ \E u \in cancelling : u.customer)
          /\ UNCHANGED <<stripe, pending, faults>>
       \/ Fault /\ UNCHANGED <<stripe, pending>>
    /\ UNCHANGED <<now, row, mark, clears, check, mails, sent, cleanup, leaving, today,
                   orders>>

----------------------------------------------------------------------------
\* A day passes: the check for reminders is done, and so is what takes minutes.
Prompt == /\ check = {} /\ mails = <<>> /\ cleanup = {} /\ clears = 0 /\ cancelling = {}
          /\ leaving # {} => ~ row.there
          /\ "notify" \in today
          /\ faults = 0 => pending = <<>>
          /\ ~ (stripe.status = "active" /\ stripe.end = now)

Tick ==
    /\ Prompt
    /\ now < MaxDay
    /\ now' = now + 1
    /\ today' = {}
    /\ UNCHANGED <<stripe, pending, row, mark, clears, check, mails, sent, cleanup, leaving,
                   cancelling, orders, faults>>

AtStripe == Subscribe \/ Portal \/ PeriodEnds
Webhooks == \E i \in DOMAIN pending : PostWebhook(i)
Server   == \/ ClearSubscriptionNotificationStatus \/ ReadUsers
            \/ NotifyExpiringSubscription \/ SendMail \/ RunCleanData
            \/ CleanUserDataBefore \/ DeleteUser \/ CancelUserSubscription

Next == AtStripe \/ Webhooks \/ Server \/ RequestDeletion \/ Tick

Spec == Init /\ [][Next]_vars

\* Jobs and goroutines run; users, Stripe and the clock owe nothing.
FairSpec == Spec /\ WF_vars(Server)

----------------------------------------------------------------------------
(***************************************************************************)
(* Properties.                                                             *)
(***************************************************************************)
Days   == 0..(MaxDay + Period)
Users  == [there : BOOLEAN, until : Days, renewal : Days, customer : BOOLEAN]
States == [status : {"none", "active", "past_due", "canceled"}, end : Days, cancel : BOOLEAN]

\* Every variable stays within its type; a renewal is never dated without an end.
TypeOK ==
    /\ now \in 1..MaxDay
    /\ stripe \in States
    /\ pending \in Seq([kind : {"subscription", "checkout"}, of : States])
    /\ row \in Users /\ row.renewal \in {0, row.until}
    /\ mark \in Days /\ clears \in Nat
    /\ check \subseteq Users /\ cleanup \subseteq Users /\ leaving \subseteq Users
    /\ cancelling \subseteq Users /\ today \subseteq {"notify", "clean"}
    /\ mails \in Seq([until : Days, out : BOOLEAN])
    /\ sent \in [day : Days, until : Days]
    /\ orders \in Nat /\ faults \in Nat

\* Webhooks that arrive in order and are all handled leave the row with the end
\* of the period Stripe has, and without a renewal when the user has cancelled.
RowFollowsStripe ==
    (faults = 0 /\ pending = <<>> /\ row.there) =>
        /\ stripe.status = "active" => row.until = stripe.end
        /\ stripe.status \in {"none", "canceled"} => row.until = 0 /\ row.renewal = 0
        /\ stripe.status = "active" /\ stripe.cancel /\ stripe.end > now => row.renewal = 0

\* "The user has gotten no such e-mail before recently": two reminders of the same
\* end are more than Notice days apart, whatever clears the mark in between (unless
\* the second was queued just before the next period began).
RemindersApart ==
    [][ (faults = 0 /\ sent' # sent /\ sent.until = sent'.until /\ row.until = sent.until)
        => sent'.day - sent.day > Notice ]_vars

\* From the check after a subscription ran out its old data may be cleaned, but not
\* before the reminder went out: the checks of two jobs with the same dates agree.
WarnedBeforeCleaned ==
    [][ (faults = 0 /\ cleanup' = {}) =>
        \A u \in cleanup : u.until \in 1..(now - 1) /\ u = row => sent.until = u.until ]_vars

\* Who deletes the account is not charged again, when the copy the deletion works
\* on is up to date and no call fails.
DeletedIsCancelled ==
    (leaving = {[row EXCEPT !.there = TRUE]} /\ ~ row.there
        /\ Active(row) /\ row.customer)
    ~> (stripe.status # "active" \/ faults > 0)
============================================================================
