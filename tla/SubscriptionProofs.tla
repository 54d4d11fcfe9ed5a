------------------------- MODULE SubscriptionProofs -------------------------
(***************************************************************************)
(* Proofs about Subscription: what the row says when webhooks come in      *)
(* order, that reminders of one end are apart, and that old data is not    *)
(* cleaned before the reminder, for any number of days, orders and faults, *)
(* any length of the period and any shorter notice.                        *)
(***************************************************************************)
EXTENDS Subscription, SequenceTheorems, TLAPS

\* The notice is shorter than a period: seven days of a month (notifyBeforeSubscriptionExpiry).
Bounds ==
    /\ Period \in Nat /\ Notice \in Nat /\ Notice < Period
    /\ MaxDay \in Nat \ {0}
    /\ MaxOrders \in Nat /\ MaxFaults \in Nat

EventState == [kind : {"subscription", "checkout"}, of : States]
MailState  == [until : Days, out : BOOLEAN]
Reports(e) == e.kind = "subscription"

\* What is said of the row is said of its copies; events report a subscription that exists.
TInv ==
    /\ TypeOK
    /\ \A u \in check : u.renewal \in {0, u.until}
    /\ \A u \in cleanup : u.there
    /\ \A i \in DOMAIN pending : Reports(pending[i]) => pending[i].of.status # "none"

----------------------------------------------------------------------------
(***************************************************************************)
(* The webhooks of a day.                                                  *)
(***************************************************************************)

\* The row has what the subscription says.
Agrees(s) ==
    /\ s.status = "active" => row.until = s.end
    /\ s.status \in {"none", "canceled"} => row.until = 0 /\ row.renewal = 0
    /\ s.status = "active" /\ s.cancel /\ s.end > now => row.renewal = 0

\* The last report on its way is of the subscription as it is; without one the row agrees.
Told ==
    \/ (\A i \in DOMAIN pending : ~ Reports(pending[i])) /\ Agrees(stripe)
    \/ \E i \in DOMAIN pending :
          /\ Reports(pending[i]) /\ pending[i].of = stripe
          /\ \A j \in DOMAIN pending : j > i => ~ Reports(pending[j])

\* A period that began before today was in the row when today began; what was reported
\* of the subscription earlier today is of the same period.
Old(s) == s.status = "active" /\ s.end # now + Period

Steady(s, n) ==
    /\ row.until = s.end
    /\ \A j \in DOMAIN pending : j < n /\ Reports(pending[j]) =>
          pending[j].of.status = "active" /\ pending[j].of.end = s.end

OldIsKnown ==
    /\ Old(stripe) => Steady(stripe, Len(pending) + 1)
    /\ \A i \in DOMAIN pending :
          Reports(pending[i]) /\ Old(pending[i].of) => Steady(pending[i].of, i)

WebhookInv == faults = 0 /\ row.there => Told /\ OldIsKnown

----------------------------------------------------------------------------
(***************************************************************************)
(* The reminders.                                                          *)
(***************************************************************************)

\* The mail in the queue was sent, its mark is not yet written.
Out == mails # <<>> /\ Head(mails).out

\* One check a day, one mail at most, and nothing is left at midnight.
OneMail ==
    /\ Len(mails) <= 1
    /\ check # {} => mails = <<>>
    /\ "notify" \notin today => check = {} /\ mails = <<>>
    /\ mails # <<>> => Head(mails).until # 0 /\ Head(mails).until <= now + Notice
    /\ Out => sent.day = now /\ sent.until = Head(mails).until
    /\ sent.day <= now /\ sent.until <= sent.day + Notice

\* The mark says when the last reminder was sent; where it was cleared, the row has changed
\* to another end since.
Marked ==
    /\ row.until <= now + Period
    /\ clears > 0 => row.until \in {0, now + Period}
    /\ Out \/ mark \in {0, sent.day}
    /\ ~ Out /\ mark = 0 /\ sent.until # 0 => row.until # sent.until
    /\ mails # <<>> /\ ~ Out /\ sent.until = Head(mails).until /\ row.until = sent.until =>
          now - sent.day > Notice

\* When the end of the row is not of today's making, checks and mails of today have it,
\* and so has every reminder since it was made; on the day of the end one is sent.
Settled == row.there /\ row.until # 0 /\ row.until # now + Period

Warned ==
    Settled =>
        /\ \A u \in check : u.there /\ u.until = row.until
        /\ mails # <<>> => Head(mails).until = row.until
        /\ sent.day + Period > row.until => sent.until = row.until
        /\ row.until < now => sent.until = row.until
        /\ row.until = now /\ "notify" \in today /\ check = {} /\ mails = <<>> =>
              sent.until = row.until

RemindInv == faults = 0 => Marked /\ Warned

SInv == TInv /\ WebhookInv /\ OneMail /\ RemindInv

----------------------------------------------------------------------------
(***************************************************************************)
(* Types.                                                                  *)
(***************************************************************************)
LEMMA Constants ==
  ASSUME Bounds, TInv
  PROVE  /\ Period \in Nat /\ Notice \in Nat /\ MaxDay \in Nat
         /\ now \in Nat /\ now >= 1 /\ now <= MaxDay
         /\ now + Period \in Days /\ 0 \in Days /\ now \in Days
         /\ \A d \in Days : d \in Nat
  BY DEF Bounds, TInv, TypeOK, Days

LEMMA MailElements ==
  ASSUME NEW s \in Seq(MailState)
  PROVE  /\ s # <<>> => Head(s) \in MailState /\ s[1] = Head(s) /\ 1 \in DOMAIN s
                        /\ Tail(s) \in Seq(MailState)
         /\ \A x \in MailState : Append(s, x) \in Seq(MailState)
  OBVIOUS

LEMMA RemoveElements ==
  ASSUME NEW s \in Seq(EventState), NEW i \in DOMAIN s
  PROVE  /\ RemoveAt(s, i) \in Seq(EventState)
         /\ \A k \in DOMAIN RemoveAt(s, i) : \E j \in DOMAIN s : RemoveAt(s, i)[k] = s[j]
         /\ i = 1 => RemoveAt(s, i) = Tail(s)
  <1> DEFINE p == SubSeq(s, 1, i - 1)
             q == SubSeq(s, i + 1, Len(s))
  <1>1. Len(s) \in Nat /\ i \in 1 .. Len(s) /\ DOMAIN s = 1 .. Len(s)
    OBVIOUS
  <1>2. /\ p \in Seq(EventState) /\ Len(p) = i - 1
        /\ \A k \in 1 .. Len(p) : k \in DOMAIN s /\ p[k] = s[k]
    BY <1>1
  <1>3. /\ q \in Seq(EventState) /\ Len(q) = Len(s) - i
        /\ \A k \in 1 .. Len(q) : i + k \in DOMAIN s /\ q[k] = s[i + k]
    BY <1>1
  <1>4. RemoveAt(s, i) = p \o q
    BY DEF RemoveAt
  <1>5. i = 1 => p = <<>> /\ q = Tail(s)
    BY <1>1, <1>2, <1>3
  <1> HIDE DEF p, q
  <1>6. p \o q \in Seq(EventState) /\ (p = <<>> => p \o q = q)
    BY <1>2, <1>3
  <1>7. \A k \in DOMAIN (p \o q) : \E j \in DOMAIN s : (p \o q)[k] = s[j]
    <2> SUFFICES ASSUME NEW k \in DOMAIN (p \o q) PROVE \E j \in DOMAIN s : (p \o q)[k] = s[j]
      OBVIOUS
    <2>1. /\ Len(p \o q) = Len(p) + Len(q)
          /\ \A n \in 1 .. Len(p) + Len(q) : (p \o q)[n] = IF n <= Len(p) THEN p[n] ELSE q[n - Len(p)]
      BY <1>2, <1>3, ConcatProperties
    <2> DEFINE a == Len(p)
               b == Len(q)
    <2>2. a \in Nat /\ b \in Nat /\ k \in 1 .. a + b
      BY <1>2, <1>3, <1>6, <2>1
    <2>3. (p \o q)[k] = IF k <= a THEN p[k] ELSE q[k - a]
      BY <2>1, <2>2
    <2>4. (k <= a /\ k \in 1 .. a) \/ (~ k <= a /\ k - a \in 1 .. b)
      <3> HIDE DEF a, b
      <3> QED BY <2>2
    <2>5. k <= a /\ k \in 1 .. a => k \in DOMAIN s /\ (p \o q)[k] = s[k]
      BY <1>2, <2>3
    <2>6. ~ k <= a /\ k - a \in 1 .. b => i + (k - a) \in DOMAIN s /\ (p \o q)[k] = s[i + (k - a)]
      BY <1>3, <2>3
    <2> HIDE DEF a, b
    <2> QED BY <2>4, <2>5, <2>6
  <1> QED BY <1>4, <1>5, <1>6, <1>7

LEMMA InitTypes == ASSUME Bounds, Init PROVE TInv
  <1>1. 0 \in Days
    BY DEF Bounds, Days
  <1>2. row \in Users /\ stripe \in States /\ row.renewal = 0
    BY <1>1 DEF Init, Nobody, States, Users
  <1>3. pending = <<>> /\ mails = <<>> /\ sent \in [day : Days, until : Days]
    BY <1>1 DEF Init
  <1>4. now \in 1 .. MaxDay /\ mark \in Days /\ clears \in Nat /\ orders \in Nat /\ faults \in Nat
    BY <1>1 DEF Init, Bounds
  <1>5. check = {} /\ cleanup = {} /\ leaving = {} /\ cancelling = {} /\ today = {}
    BY DEF Init
  <1>6. /\ pending \in Seq([kind : {"subscription", "checkout"}, of : States])
        /\ mails \in Seq([until : Days, out : BOOLEAN])
    BY <1>3
  <1> QED BY <1>2, <1>3, <1>4, <1>5, <1>6 DEF TInv, TypeOK

\* The messages with which Stripe tells of a subscription.
Messages(s) == {<<Checkout, Event(s)>>, <<Event(s), Checkout>>, <<Event(s)>>}

LEMMA MessageElements ==
  ASSUME 0 \in Days, NEW s \in States, NEW seq \in Messages(s)
  PROVE  /\ seq \in Seq(EventState)
         /\ \A k \in DOMAIN seq : Reports(seq[k]) => seq[k].of = s
         /\ \E k \in DOMAIN seq : Reports(seq[k]) /\ \A j \in DOMAIN seq : j > k => ~ Reports(seq[j])
  <1>1. /\ Checkout \in EventState /\ ~ Reports(Checkout)
        /\ Event(s) \in EventState /\ Reports(Event(s)) /\ Event(s).of = s
    BY DEF Checkout, Event, EventState, States, Reports
  <1> DEFINE c == Checkout
             e == Event(s)
  <1>2. c \in EventState /\ e \in EventState /\ ~ Reports(c) /\ Reports(e) /\ e.of = s
    BY <1>1
  <1>3. seq \in {<<c, e>>, <<e, c>>, <<e>>}
    BY DEF Messages
  <1> HIDE DEF c, e
  <1>4. CASE seq = <<c, e>>
    <2>1. seq \in Seq(EventState) /\ DOMAIN seq = 1 .. 2 /\ seq[1] = c /\ seq[2] = e
      BY <1>2, <1>4
    <2>2. \A k \in DOMAIN seq : Reports(seq[k]) => seq[k].of = s
      BY <1>2, <2>1
    <2>3. 2 \in DOMAIN seq /\ Reports(seq[2]) /\ \A j \in DOMAIN seq : j > 2 => ~ Reports(seq[j])
      BY <1>2, <2>1
    <2> QED BY <2>1, <2>2, <2>3
  <1>5. CASE seq = <<e, c>>
    <2>1. seq \in Seq(EventState) /\ DOMAIN seq = 1 .. 2 /\ seq[1] = e /\ seq[2] = c
      BY <1>2, <1>5
    <2>2. \A k \in DOMAIN seq : Reports(seq[k]) => seq[k].of = s
      BY <1>2, <2>1
    <2>3. 1 \in DOMAIN seq /\ Reports(seq[1]) /\ \A j \in DOMAIN seq : j > 1 => ~ Reports(seq[j])
      BY <1>2, <2>1
    <2> QED BY <2>1, <2>2, <2>3
  <1>6. CASE seq = <<e>>
    <2>1. seq \in Seq(EventState) /\ DOMAIN seq = 1 .. 1 /\ seq[1] = e
      BY <1>2, <1>6
    <2>2. \A k \in DOMAIN seq : Reports(seq[k]) => seq[k].of = s
      BY <1>2, <2>1
    <2>3. 1 \in DOMAIN seq /\ Reports(seq[1]) /\ \A j \in DOMAIN seq : j > 1 => ~ Reports(seq[j])
      BY <1>2, <2>1
    <2> QED BY <2>1, <2>2, <2>3
  <1> QED BY <1>3, <1>4, <1>5, <1>6


\* What Stripe tells is typed, whatever the customer orders.
LEMMA TellTypes ==
  ASSUME Bounds, TInv, NEW s \in States, s.status # "none", NEW seq \in Messages(s), Tell(s, seq)
  PROVE  /\ stripe' \in States
         /\ pending' \in Seq(EventState)
         /\ \A i \in DOMAIN pending' : Reports(pending'[i]) => pending'[i].of.status # "none"
  <1> DEFINE old == pending
  <1>1. 0 \in Days
    BY Constants
  <1>2. /\ seq \in Seq(EventState)
        /\ \A k \in DOMAIN seq : Reports(seq[k]) => seq[k].of.status # "none"
    BY <1>1, MessageElements
  <1>3. /\ old \in Seq(EventState) /\ pending' = old \o seq /\ stripe' = s
        /\ \A i \in DOMAIN old : Reports(old[i]) => old[i].of.status # "none"
    BY DEF Tell, TInv, TypeOK, EventState
  <1> HIDE DEF old
  <1>4. old \o seq \in Seq(EventState)
    BY <1>2, <1>3
  <1>5. \A i \in DOMAIN (old \o seq) :
            \/ i \in DOMAIN old /\ (old \o seq)[i] = old[i]
            \/ \E k \in DOMAIN seq : (old \o seq)[i] = seq[k]
    <2> SUFFICES ASSUME NEW i \in DOMAIN (old \o seq)
                 PROVE  \/ i \in DOMAIN old /\ (old \o seq)[i] = old[i]
                        \/ \E k \in DOMAIN seq : (old \o seq)[i] = seq[k]
      OBVIOUS
    <2>1. i \in 1 .. (Len(old) + Len(seq)) /\ Len(old) \in Nat /\ Len(seq) \in Nat
      BY <1>2, <1>3
    <2>2. CASE i <= Len(old)
      BY <1>2, <1>3, <2>1, <2>2
    <2>3. CASE ~ i <= Len(old)
      <3>1. i - Len(old) \in DOMAIN seq /\ (old \o seq)[i] = seq[i - Len(old)]
        BY <1>2, <1>3, <2>1, <2>3
      <3> QED BY <3>1
    <2> QED BY <2>2, <2>3
  <1> QED BY <1>2, <1>3, <1>4, <1>5

\* A step that leaves Stripe and the webhooks alone.
LEMMA LocalTypes ==
  ASSUME TInv, UNCHANGED <<stripe, pending>>,
         now' \in 1 .. MaxDay, row' \in Users, row'.renewal \in {0, row'.until},
         mark' \in Days, clears' \in Nat,
         \A u \in check' : u \in Users /\ u.renewal \in {0, u.until},
         \A u \in cleanup' : u \in Users /\ u.there,
         leaving' \subseteq Users, cancelling' \subseteq Users, today' \subseteq {"notify", "clean"},
         mails' \in Seq([until : Days, out : BOOLEAN]),
         sent' \in [day : Days, until : Days], orders' \in Nat, faults' \in Nat
  PROVE  TInv'
  BY DEF TInv, TypeOK, Days, Users, States, Reports

\* A step of Stripe.
LEMMA StripeTypes ==
  ASSUME Bounds, TInv, NEW s \in States, s.status # "none", NEW seq \in Messages(s), Tell(s, seq),
         UNCHANGED <<now, row, mark, clears, check, mails, sent, cleanup, leaving, today>>,
         cancelling' \subseteq Users, orders' \in Nat, faults' \in Nat
  PROVE  TInv'
  <1>1. /\ stripe' \in States
        /\ pending' \in Seq(EventState)
        /\ \A i \in DOMAIN pending' : Reports(pending'[i]) => pending'[i].of.status # "none"
    BY TellTypes
  <1> QED BY <1>1 DEF TInv, TypeOK, Days, Users, States, Reports, EventState

\* handleSubscriptionEvent leaves a row.
LEMMA HandledTypes ==
  ASSUME Bounds, TInv, NEW s \in States, HandleSubscriptionEvent(s)
  PROVE  row' \in Users /\ row'.renewal \in {0, row'.until} /\ clears' \in Nat
  <1> DEFINE fresh == row.until # s.end
             dated == IF fresh THEN [row EXCEPT !.until = s.end, !.renewal = s.end] ELSE row
  <1>1. row \in Users /\ row.renewal \in {0, row.until} /\ clears \in Nat /\ s.end \in Days /\ 0 \in Days
    BY Constants DEF TInv, TypeOK, States
  <1>2. dated \in Users /\ dated.renewal \in {0, dated.until}
    BY <1>1 DEF Users
  <1>3. [row EXCEPT !.until = 0, !.renewal = 0] \in Users
        /\ [row EXCEPT !.until = 0, !.renewal = 0].renewal = 0
    BY <1>1 DEF Users
  <1>4. \/ row' = dated /\ clears' \in {clears, clears + 1}
        \/ row' = [dated EXCEPT !.renewal = 0] /\ clears' \in {clears, clears + 1}
        \/ row' = [row EXCEPT !.until = 0, !.renewal = 0] /\ clears' = clears
        \/ row' = row /\ clears' = clears
    BY DEF HandleSubscriptionEvent
  <1> DEFINE ended == [row EXCEPT !.until = 0, !.renewal = 0]
             unpaid == [dated EXCEPT !.renewal = 0]
  <1> HIDE DEF dated
  <1>5. unpaid \in Users /\ unpaid.renewal = 0
    BY <1>1, <1>2 DEF Users
  <1>6. ended \in Users /\ ended.renewal = 0
    BY <1>3
  <1>7. clears' \in Nat
    BY <1>1, <1>4
  <1>8. row' \in {dated, unpaid, ended, row}
    BY <1>4
  <1> HIDE DEF unpaid, ended
  <1> QED BY <1>1, <1>2, <1>5, <1>6, <1>7, <1>8

LEMMA FaultType == ASSUME TInv, Fault PROVE faults' \in Nat
  BY DEF Fault, TInv, TypeOK

LEMMA OrderType == ASSUME TInv, Order PROVE orders' \in Nat
  BY DEF Order, TInv, TypeOK

LEMMA WebhookTypes == ASSUME Bounds, TInv, Webhooks PROVE TInv'
  <1>1. PICK i \in DOMAIN pending : PostWebhook(i)
    BY DEF Webhooks
  <1>2. /\ pending \in Seq(EventState) /\ pending[i] \in EventState /\ pending[i].of \in States
        /\ \A k \in DOMAIN pending : Reports(pending[k]) => pending[k].of.status # "none"
    <2>1. /\ pending \in Seq(EventState)
          /\ \A k \in DOMAIN pending : Reports(pending[k]) => pending[k].of.status # "none"
      BY DEF TInv, TypeOK, EventState
    <2>2. pending[i] \in EventState
      BY <2>1
    <2> QED BY <2>1, <2>2 DEF EventState
  <1>3. /\ pending' \in Seq(EventState)
        /\ \A k \in DOMAIN pending' : Reports(pending'[k]) => pending'[k].of.status # "none"
    BY <1>1, <1>2, RemoveElements DEF PostWebhook
  <1>4. row' \in Users /\ row'.renewal \in {0, row'.until} /\ clears' \in Nat
    <2>1. CASE HandleSubscriptionEvent(pending[i].of)
      BY <1>2, <2>1, HandledTypes
    <2>2. CASE row' = [row EXCEPT !.customer = TRUE] /\ UNCHANGED clears
      BY <2>2 DEF TInv, TypeOK, Users
    <2>3. CASE UNCHANGED <<row, clears>>
      BY <2>3 DEF TInv, TypeOK
    <2> QED BY <1>1, <2>1, <2>2, <2>3 DEF PostWebhook
  <1>5. faults' \in Nat
    BY <1>1, FaultType DEF PostWebhook, TInv, TypeOK
  <1> QED BY <1>1, <1>3, <1>4, <1>5
          DEF PostWebhook, jobs, TInv, TypeOK, Days, Users, States, Reports, EventState

LEMMA AtStripeTypes == ASSUME Bounds, TInv, AtStripe PROVE TInv'
  <1>0. /\ now + Period \in Days /\ stripe \in States /\ cancelling \subseteq Users
        /\ orders \in Nat /\ faults \in Nat
    BY Constants DEF TInv, TypeOK
  <1>1. CASE Subscribe
    <2> DEFINE s == [status |-> "active", end |-> now + Period, cancel |-> FALSE]
    <2>1. s \in States /\ s.status # "none"
      BY <1>0 DEF States
    <2>2. /\ \E seq \in Messages(s) : Tell(s, seq)
          /\ UNCHANGED <<now, row, mark, clears, check, mails, sent, cleanup, leaving, today,
                         cancelling, faults>>
          /\ orders' \in Nat
      BY <1>1, OrderType DEF Subscribe, jobs, Messages
    <2> HIDE DEF s
    <2> QED BY <1>0, <2>1, <2>2, StripeTypes
  <1>2. CASE Portal
    <2>1. PICK s \in {[stripe EXCEPT !.cancel = ~ @], [stripe EXCEPT !.status = "canceled"]} :
              Tell(s, <<Event(s)>>)
      BY <1>2 DEF Portal
    <2>2. stripe.status = "active"
      BY <1>2 DEF Portal
    <2>3. s \in States /\ s.status # "none"
      BY <1>0, <2>1, <2>2 DEF States
    <2>4. /\ \E seq \in Messages(s) : Tell(s, seq)
          /\ UNCHANGED <<now, row, mark, clears, check, mails, sent, cleanup, leaving, today,
                         cancelling, faults>>
          /\ orders' \in Nat
      BY <1>2, <2>1, OrderType DEF Portal, jobs, Messages
    <2> QED BY <1>0, <2>3, <2>4, StripeTypes
  <1>3. CASE PeriodEnds
    <2>1. PICK s \in {[stripe EXCEPT !.status = "canceled"], [stripe EXCEPT !.end = now + Period],
                      [stripe EXCEPT !.status = "past_due"]} :
              Tell(s, <<Event(s)>>)
      BY <1>3 DEF PeriodEnds
    <2>2. stripe.status = "active"
      BY <1>3 DEF PeriodEnds
    <2>3. s \in States /\ s.status # "none"
      BY <1>0, <2>1, <2>2 DEF States
    <2>4. /\ \E seq \in Messages(s) : Tell(s, seq)
          /\ UNCHANGED <<now, row, mark, clears, check, mails, sent, cleanup, leaving, today,
                         cancelling, orders, faults>>
      BY <1>3, <2>1 DEF PeriodEnds, jobs, Messages
    <2> QED BY <1>0, <2>3, <2>4, StripeTypes
  <1> QED BY <1>1, <1>2, <1>3 DEF AtStripe

LEMMA ReminderTypes ==
  ASSUME Bounds, TInv,
         ClearSubscriptionNotificationStatus \/ ReadUsers \/ NotifyExpiringSubscription \/ SendMail
  PROVE  TInv'
  <1>0. /\ now \in 1 .. MaxDay /\ row \in Users /\ row.renewal \in {0, row.until}
        /\ mark \in Days /\ clears \in Nat /\ now \in Days /\ 0 \in Days
        /\ \A u \in check : u \in Users /\ u.renewal \in {0, u.until}
        /\ \A u \in cleanup : u \in Users /\ u.there
        /\ leaving \subseteq Users /\ cancelling \subseteq Users /\ today \subseteq {"notify", "clean"}
        /\ mails \in Seq([until : Days, out : BOOLEAN])
        /\ sent \in [day : Days, until : Days] /\ orders \in Nat /\ faults \in Nat
    BY Constants DEF TInv, TypeOK
  <1>1. CASE ClearSubscriptionNotificationStatus
    <2>1. clears - 1 \in Nat
      BY <1>0, <1>1 DEF ClearSubscriptionNotificationStatus
    <2> QED BY <1>0, <1>1, <2>1, LocalTypes DEF ClearSubscriptionNotificationStatus, jobs
  <1>2. CASE ReadUsers
    BY <1>0, <1>2, LocalTypes, FaultType DEF ReadUsers
  <1>3. CASE NotifyExpiringSubscription
    <2>1. mails' \in Seq([until : Days, out : BOOLEAN])
      <3>1. PICK u \in check : mails' = mails \/ mails' = Append(mails, [until |-> u.until, out |-> FALSE])
        BY <1>3 DEF NotifyExpiringSubscription
      <3>2. [until |-> u.until, out |-> FALSE] \in MailState
        BY <1>0 DEF Users, MailState
      <3>3. mails \in Seq(MailState)
        BY <1>0 DEF MailState
      <3>4. mails' \in Seq(MailState)
        BY <3>1, <3>2, <3>3, MailElements
      <3> QED BY <3>4 DEF MailState
    <2>2. faults' \in Nat
      BY <1>0, <1>3, FaultType DEF NotifyExpiringSubscription
    <2> QED BY <1>0, <1>3, <2>1, <2>2, LocalTypes DEF NotifyExpiringSubscription
  <1>4. CASE SendMail
    <2> DEFINE m == mails
    <2>0. m \in Seq(MailState) /\ m # <<>>
      BY <1>0, <1>4 DEF SendMail, MailState
    <2>1. Tail(m) \in Seq([until : Days, out : BOOLEAN]) /\ Head(m).until \in Days
      <3> HIDE DEF m
      <3>1. Tail(m) \in Seq(MailState) /\ Head(m) \in MailState
        BY <2>0, MailElements
      <3> QED BY <3>1 DEF MailState
    <2>2. [m EXCEPT ![1].out = TRUE] \in Seq([until : Days, out : BOOLEAN])
      <3> HIDE DEF m
      <3>1. 1 \in DOMAIN m /\ m[1] \in MailState
        BY <2>0, MailElements
      <3> DEFINE x == [m[1] EXCEPT !.out = TRUE]
      <3>2. x \in MailState
        BY <3>1 DEF MailState
      <3> HIDE DEF x
      <3>3. [m EXCEPT ![1] = x] \in Seq(MailState)
        BY <2>0, <3>1, <3>2
      <3> QED BY <3>3 DEF x, MailState
    <2>3. [day |-> now, until |-> Head(m).until] \in [day : Days, until : Days]
      BY <1>0, <2>1
    <2>4. /\ mails' \in Seq([until : Days, out : BOOLEAN]) /\ mark' \in Days
          /\ sent' \in [day : Days, until : Days] /\ faults' \in Nat
      BY <1>0, <1>4, <2>1, <2>2, <2>3, FaultType DEF SendMail
    <2> QED BY <1>0, <1>4, <2>4, LocalTypes DEF SendMail
  <1> QED BY <1>1, <1>2, <1>3, <1>4

LEMMA AccountTypes ==
  ASSUME Bounds, TInv,
         \/ RunCleanData \/ CleanUserDataBefore \/ DeleteUser \/ CancelUserSubscription
         \/ RequestDeletion \/ Tick \/ UNCHANGED vars
  PROVE  TInv'
  <1>0. /\ now \in 1 .. MaxDay /\ row \in Users /\ row.renewal \in {0, row.until}
        /\ mark \in Days /\ clears \in Nat /\ stripe \in States
        /\ \A u \in check : u \in Users /\ u.renewal \in {0, u.until}
        /\ \A u \in cleanup : u \in Users /\ u.there
        /\ leaving \subseteq Users /\ cancelling \subseteq Users /\ today \subseteq {"notify", "clean"}
        /\ mails \in Seq([until : Days, out : BOOLEAN])
        /\ sent \in [day : Days, until : Days] /\ orders \in Nat /\ faults \in Nat
    BY DEF TInv, TypeOK
  <1>1. CASE RunCleanData
    BY <1>0, <1>1, LocalTypes, FaultType DEF RunCleanData, RunCleanDataJob
  <1>2. CASE CleanUserDataBefore
    BY <1>0, <1>2, LocalTypes DEF CleanUserDataBefore
  <1>3. CASE DeleteUser
    <2>1. row' \in Users /\ row'.renewal \in {0, row'.until}
      BY <1>0, <1>3 DEF DeleteUser, Users
    <2>2. cancelling' \subseteq Users
      BY <1>0, <1>3 DEF DeleteUser
    <2> QED BY <1>0, <1>3, <2>1, <2>2, LocalTypes DEF DeleteUser
  <1>4. CASE CancelUserSubscription
    <2> DEFINE s == [stripe EXCEPT !.status = "canceled"]
    <2>1. s \in States /\ s.status # "none"
      BY <1>0 DEF States
    <2>2. \/ Tell(s, <<Event(s)>>) /\ UNCHANGED faults
          \/ UNCHANGED <<stripe, pending>> /\ faults' \in Nat
      BY <1>0, <1>4, FaultType DEF CancelUserSubscription
    <2>3. /\ cancelling' = {}
          /\ UNCHANGED <<now, row, mark, clears, check, mails, sent, cleanup, leaving, today, orders>>
      BY <1>4 DEF CancelUserSubscription
    <2>4. <<Event(s)>> \in Messages(s)
      BY DEF Messages
    <2> HIDE DEF s
    <2>5. CASE Tell(s, <<Event(s)>>) /\ UNCHANGED faults
      BY <1>0, <2>1, <2>3, <2>4, <2>5, StripeTypes
    <2>6. CASE UNCHANGED <<stripe, pending>> /\ faults' \in Nat
      BY <1>0, <2>3, <2>6, LocalTypes
    <2> QED BY <2>2, <2>5, <2>6
  <1>5. CASE RequestDeletion
    <2>1. leaving' \subseteq Users /\ orders' \in Nat
      BY <1>0, <1>5, OrderType DEF RequestDeletion
    <2> QED BY <1>0, <1>5, <2>1, LocalTypes DEF RequestDeletion
  <1>6. CASE Tick
    <2>1. now' \in 1 .. MaxDay
      BY <1>0, <1>6 DEF Tick, Bounds
    <2> QED BY <1>0, <1>6, <2>1, LocalTypes DEF Tick
  <1>7. CASE UNCHANGED vars
    BY <1>0, <1>7, LocalTypes DEF vars
  <1> QED BY <1>1, <1>2, <1>3, <1>4, <1>5, <1>6, <1>7

LEMMA NextTypes == ASSUME Bounds, TInv, [Next]_vars PROVE TInv'
  BY AtStripeTypes, WebhookTypes, ReminderTypes, AccountTypes DEF Next, Server


----------------------------------------------------------------------------
(***************************************************************************)
(* Webhooks that arrive in order.                                          *)
(***************************************************************************)
LEMMA WebhookInit == ASSUME Init PROVE WebhookInv
  <1>1. /\ pending = <<>> /\ row.until = 0 /\ row.renewal = 0
        /\ stripe.status = "none"
    BY DEF Init, Nobody
  <1> QED BY <1>1 DEF WebhookInv, Told, Agrees, OldIsKnown, Old

\* No step takes a fault back.
LEMMA NoFaultBefore == ASSUME TInv, [Next]_vars, faults' = 0 PROVE faults = 0
  <1>1. faults \in Nat
    BY DEF TInv, TypeOK
  <1>2. Fault => faults # faults' - 1 \/ faults' # 0
    BY <1>1 DEF Fault
  <1>3. Fault => FALSE
    BY <1>1 DEF Fault
  <1> QED BY <1>3
      DEF Next, AtStripe, Subscribe, Portal, PeriodEnds, Webhooks, PostWebhook, Server,
          ClearSubscriptionNotificationStatus, ReadUsers, NotifyExpiringSubscription, SendMail,
          RunCleanData, CleanUserDataBefore, DeleteUser, CancelUserSubscription, RequestDeletion,
          Tick, vars

\* A step that moves neither the clock nor Stripe, nor the dates.
LEMMA WebhookQuiet ==
  ASSUME WebhookInv, UNCHANGED <<now, stripe, pending>>, faults' = 0 => faults = 0,
         row'.there => row.there, row'.until = row.until, row'.renewal = row.renewal
  PROVE  WebhookInv'
  <1> SUFFICES ASSUME faults' = 0, row'.there PROVE Told' /\ OldIsKnown'
    BY DEF WebhookInv
  <1>1. Told /\ OldIsKnown
    BY DEF WebhookInv
  <1>2. Told'
    BY <1>1 DEF Told, Agrees, Reports
  <1>3. OldIsKnown'
    BY <1>1 DEF OldIsKnown, Old, Steady, Reports
  <1> QED BY <1>2, <1>3

\* Stripe tells of a subscription that ended, or whose period begins today, or goes on.
LEMMA WebhookTell ==
  ASSUME Bounds, TInv, WebhookInv, UNCHANGED <<now, row>>, faults' = 0 => faults = 0,
         NEW s \in States, NEW seq \in Messages(s), Tell(s, seq),
         Old(s) => stripe.status = "active" /\ stripe.end = s.end
  PROVE  WebhookInv'
  <1> SUFFICES ASSUME faults' = 0, row'.there PROVE Told' /\ OldIsKnown'
    BY DEF WebhookInv
  <1> DEFINE p == pending
             q == p \o seq
  <1>1. OldIsKnown /\ stripe' = s /\ pending' = q
    BY DEF WebhookInv, Tell
  <1>2. /\ seq \in Seq(EventState)
        /\ \A k \in DOMAIN seq : Reports(seq[k]) => seq[k].of = s
        /\ \E k \in DOMAIN seq : Reports(seq[k]) /\ \A j \in DOMAIN seq : j > k => ~ Reports(seq[j])
    BY Constants, MessageElements
  <1>3. p \in Seq(EventState)
    BY DEF TInv, TypeOK, EventState
  <1>4. /\ Old(stripe) => Steady(stripe, Len(p) + 1)
        /\ \A i \in DOMAIN p : Reports(p[i]) /\ Old(p[i].of) =>
              /\ row.until = p[i].of.end
              /\ \A j \in DOMAIN p : j < i /\ Reports(p[j]) =>
                    p[j].of.status = "active" /\ p[j].of.end = p[i].of.end
    BY <1>1 DEF OldIsKnown, Steady
  <1>5. Old(s) => /\ row.until = s.end
                  /\ \A j \in DOMAIN p : Reports(p[j]) =>
                        p[j].of.status = "active" /\ p[j].of.end = s.end
    <2> SUFFICES ASSUME Old(s)
                 PROVE  /\ row.until = s.end
                        /\ \A j \in DOMAIN p : Reports(p[j]) =>
                              p[j].of.status = "active" /\ p[j].of.end = s.end
      OBVIOUS
    <2>1. Old(stripe)
      BY DEF Old
    <2>2. \A j \in DOMAIN p : j < Len(p) + 1
      BY <1>3
    <2> QED BY <1>4, <2>1, <2>2 DEF Steady
  <1> HIDE DEF p
  <1>6. /\ Len(p) \in Nat /\ Len(seq) \in Nat /\ DOMAIN p = 1 .. Len(p) /\ DOMAIN seq = 1 .. Len(seq)
        /\ DOMAIN q = 1 .. (Len(p) + Len(seq)) /\ Len(q) = Len(p) + Len(seq)
        /\ \A i \in 1 .. Len(p) : q[i] = p[i]
        /\ \A k \in 1 .. Len(seq) : q[Len(p) + k] = seq[k]
    BY <1>2, <1>3
  <1> HIDE DEF q
  <1>7. \A i \in DOMAIN q : i > Len(p) => i - Len(p) \in DOMAIN seq /\ q[i] = seq[i - Len(p)]
    BY <1>6
  <1>8. \A i \in DOMAIN q : i \in DOMAIN p \/ i > Len(p)
    BY <1>6
  <1>9. Told'
    <2>1. PICK k \in DOMAIN seq : Reports(seq[k]) /\ \A j \in DOMAIN seq : j > k => ~ Reports(seq[j])
      BY <1>2
    <2>2. Len(p) + k \in DOMAIN q /\ q[Len(p) + k] = seq[k]
      BY <1>6
    <2>3. \A j \in DOMAIN q : j > Len(p) + k => ~ Reports(q[j])
      <3> SUFFICES ASSUME NEW j \in DOMAIN q, j > Len(p) + k PROVE ~ Reports(q[j])
        OBVIOUS
      <3>1. j > Len(p) /\ j - Len(p) > k
        BY <1>6
      <3> QED BY <1>7, <2>1, <3>1
    <2>4. q[Len(p) + k].of = s
      BY <1>2, <2>1, <2>2
    <2> QED BY <1>1, <2>1, <2>2, <2>3, <2>4 DEF Told, Reports
  <1>10. \A i \in DOMAIN q : Reports(q[i]) /\ Old(q[i].of) =>
            /\ row.until = q[i].of.end
            /\ \A j \in DOMAIN q : j < i /\ Reports(q[j]) =>
                  q[j].of.status = "active" /\ q[j].of.end = q[i].of.end
    <2> SUFFICES ASSUME NEW i \in DOMAIN q, Reports(q[i]), Old(q[i].of)
                 PROVE  /\ row.until = q[i].of.end
                        /\ \A j \in DOMAIN q : j < i /\ Reports(q[j]) =>
                              q[j].of.status = "active" /\ q[j].of.end = q[i].of.end
      OBVIOUS
    <2>1. CASE i \in DOMAIN p
      <3>1. \A j \in DOMAIN q : j < i => j \in DOMAIN p /\ q[j] = p[j]
        BY <1>6, <2>1
      <3> QED BY <1>4, <1>6, <2>1, <3>1
    <2>2. CASE i > Len(p)
      <3>1. q[i].of = s
        BY <1>2, <1>7, <2>2
      <3>2. Old(s)
        BY <3>1
      <3>3. \A j \in DOMAIN q : Reports(q[j]) => q[j].of.status = "active" /\ q[j].of.end = s.end
        <4> SUFFICES ASSUME NEW j \in DOMAIN q, Reports(q[j])
                     PROVE  q[j].of.status = "active" /\ q[j].of.end = s.end
          OBVIOUS
        <4>1. CASE j \in DOMAIN p
          BY <1>5, <1>6, <3>2, <4>1
        <4>2. CASE j > Len(p)
          BY <1>2, <1>7, <3>2, <4>2 DEF Old
        <4> QED BY <1>8, <4>1, <4>2
      <3> QED BY <1>5, <3>1, <3>2, <3>3
    <2> QED BY <1>8, <2>1, <2>2
  <1>11. Old(s) => row.until = s.end /\ \A j \in DOMAIN q : Reports(q[j]) =>
                      q[j].of.status = "active" /\ q[j].of.end = s.end
    <2> SUFFICES ASSUME Old(s), NEW j \in DOMAIN q, Reports(q[j])
                 PROVE  q[j].of.status = "active" /\ q[j].of.end = s.end
      BY <1>5
    <2>1. CASE j \in DOMAIN p
      BY <1>5, <1>6, <2>1
    <2>2. CASE j > Len(p)
      BY <1>2, <1>7, <2>2 DEF Old
    <2> QED BY <1>8, <2>1, <2>2
  <1>12. OldIsKnown'
    BY <1>1, <1>10, <1>11 DEF OldIsKnown, Old, Steady, Reports
  <1> QED BY <1>9, <1>12

\* handleSubscriptionEvent: the row then agrees with what was reported.
LEMMA HandledAgrees ==
  ASSUME Bounds, TInv, NEW s \in States, s.status # "none", HandleSubscriptionEvent(s), now' = now
  PROVE  /\ Agrees(s)' /\ row'.there = row.there
         /\ s.status = "active" => row'.until = s.end
         /\ \/ row'.until = row.until /\ clears' = clears
            \/ row'.until = 0 /\ clears' = clears
            \/ s.status = "active" /\ row.until # s.end /\ row'.until = s.end /\ clears' = clears + 1
  <1>1. row \in Users /\ s.end \in Nat /\ now \in Nat
    BY Constants DEF TInv, TypeOK, States, Users
  <1>2. CASE s.status = "active"
    <2> DEFINE dated == IF row.until # s.end THEN [row EXCEPT !.until = s.end, !.renewal = s.end] ELSE row
               unpaid == [dated EXCEPT !.renewal = 0]
    <2>1. /\ row' = IF s.cancel /\ s.end > now THEN unpaid ELSE dated
          /\ clears' = IF row.until # s.end THEN clears + 1 ELSE clears
      BY <1>2 DEF HandleSubscriptionEvent
    <2>2. dated \in [there : BOOLEAN, until : Nat, renewal : Nat, customer : BOOLEAN]
          /\ dated.there = row.there /\ dated.until = s.end
      BY <1>1, Constants DEF Users
    <2> HIDE DEF dated
    <2>3. unpaid.there = row.there /\ unpaid.until = s.end /\ unpaid.renewal = 0
      BY <2>2
    <2> HIDE DEF unpaid
    <2>4. row'.there = row.there /\ row'.until = s.end /\ (s.cancel /\ s.end > now => row'.renewal = 0)
      BY <2>1, <2>2, <2>3
    <2> QED BY <1>2, <2>1, <2>4 DEF Agrees
  <1>3. CASE s.status = "canceled"
    <2>1. row' = [row EXCEPT !.until = 0, !.renewal = 0] /\ clears' = clears
      BY <1>3 DEF HandleSubscriptionEvent
    <2>2. row'.until = 0 /\ row'.renewal = 0 /\ row'.there = row.there
      BY <1>1, <2>1 DEF Users
    <2> QED BY <1>3, <2>1, <2>2 DEF Agrees
  <1>4. CASE s.status = "past_due"
    BY <1>4 DEF HandleSubscriptionEvent, Agrees
  <1> QED BY <1>2, <1>3, <1>4 DEF States

\* A webhook of a subscription starts a period in the row only on the day it begins.
LEMMA WebhookMoves ==
  ASSUME Bounds, TInv, WebhookInv, PostWebhook(1), 1 \in DOMAIN pending, faults' = 0, faults = 0
  PROVE  /\ row'.there = row.there
         /\ \/ row'.until = row.until /\ clears' = clears
            \/ row'.until = 0 /\ clears' = clears
            \/ row.there /\ row'.until = now + Period /\ clears' = clears + 1
  <1> DEFINE e == pending[1]
  <1>0. /\ e.of \in States /\ e.kind \in {"subscription", "checkout"}
        /\ Reports(e) => e.of.status # "none"
        /\ row \in Users
    <2>1. pending \in Seq(EventState) /\ row \in Users
      BY DEF TInv, TypeOK, EventState
    <2>2. e \in EventState
      BY <2>1
    <2> QED BY <2>1, <2>2 DEF TInv, EventState
  <1>1. ~ Fault /\ now' = now
    BY DEF Fault, PostWebhook, TInv, TypeOK
  <1>2. \/ row.there /\ e.kind = "checkout" /\ row' = [row EXCEPT !.customer = TRUE] /\ clears' = clears
        \/ row.there /\ Reports(e) /\ HandleSubscriptionEvent(e.of)
        \/ UNCHANGED <<row, clears>>
    BY <1>0, <1>1 DEF PostWebhook, Reports
  <1>3. Reports(e) /\ Old(e.of) /\ row.there => row.until = e.of.end
    BY DEF WebhookInv, OldIsKnown, Steady
  <1> HIDE DEF e
  <1>4. CASE row.there /\ Reports(e) /\ HandleSubscriptionEvent(e.of)
    BY <1>0, <1>1, <1>3, <1>4, HandledAgrees DEF Old
  <1>5. CASE row.there /\ row' = [row EXCEPT !.customer = TRUE] /\ clears' = clears
    BY <1>0, <1>5 DEF Users
  <1> QED BY <1>2, <1>4, <1>5

\* A webhook is handled, and perhaps delivered again.
LEMMA WebhookHandled ==
  ASSUME Bounds, TInv, WebhookInv, NEW n \in DOMAIN pending, PostWebhook(n),
         faults' = 0 => faults = 0
  PROVE  WebhookInv'
  <1> SUFFICES ASSUME faults' = 0, row'.there PROVE Told' /\ OldIsKnown'
    BY DEF WebhookInv
  <1>0. faults = 0 /\ ~ Fault /\ now' = now /\ stripe' = stripe
    BY DEF Fault, PostWebhook, TInv, TypeOK
  <1>1. n = 1
    BY <1>0 DEF PostWebhook
  <1>2. PICK p \in Seq(EventState) :
            /\ p = pending /\ 1 \in DOMAIN p
            /\ \A k \in DOMAIN p : Reports(p[k]) => p[k].of.status # "none"
    BY <1>1 DEF TInv, TypeOK, EventState
  <1>3. PICK e \in EventState : e = p[1] /\ (Reports(e) => e.of.status # "none")
    BY <1>2
  <1>4. row'.there = row.there
    BY <1>0, <1>1, WebhookMoves
  <1>5. Told /\ OldIsKnown
    BY <1>0, <1>4 DEF WebhookInv
  <1>6. \/ ~ Reports(e) /\ row' = [row EXCEPT !.customer = TRUE]
        \/ Reports(e) /\ HandleSubscriptionEvent(e.of)
    <2>1. \/ row' = [row EXCEPT !.customer = TRUE] /\ e.kind = "checkout"
          \/ HandleSubscriptionEvent(e.of) /\ e.kind # "checkout"
      BY <1>0, <1>1, <1>2, <1>3, <1>4 DEF PostWebhook
    <2> QED BY <2>1 DEF Reports, EventState
  <1>7. PICK q : q = pending' /\ (q = p \/ q = Tail(p))
    BY <1>1, <1>2, RemoveElements DEF PostWebhook
  <1>8. \E d \in {0, 1} :
           /\ \A k \in DOMAIN q : k \in Nat \ {0} /\ k + d \in DOMAIN p /\ q[k] = p[k + d]
           /\ \A m \in DOMAIN p : m > d => m - d \in DOMAIN q /\ q[m - d] = p[m]
           /\ \A m \in DOMAIN p : m > d \/ m = 1
    <2>1. Len(p) \in Nat /\ DOMAIN p = 1 .. Len(p)
      BY <1>2
    <2>2. CASE q = p
      <3>1. /\ \A k \in DOMAIN q : k \in Nat \ {0} /\ k + 0 \in DOMAIN p /\ q[k] = p[k + 0]
            /\ \A m \in DOMAIN p : m > 0 => m - 0 \in DOMAIN q /\ q[m - 0] = p[m]
            /\ \A m \in DOMAIN p : m > 0
        BY <2>1, <2>2
      <3> QED BY <3>1
    <2>3. CASE q = Tail(p)
      <3>1. Len(q) = Len(p) - 1 /\ DOMAIN q = 1 .. (Len(p) - 1)
            /\ \A k \in 1 .. (Len(p) - 1) : q[k] = p[k + 1]
        BY <1>2, <2>1, <2>3
      <3>2. \A m \in DOMAIN p : m > 1 => m - 1 \in DOMAIN q /\ (m - 1) + 1 = m
        BY <2>1, <3>1
      <3>3. /\ \A k \in DOMAIN q : k \in Nat \ {0} /\ k + 1 \in DOMAIN p /\ q[k] = p[k + 1]
            /\ \A m \in DOMAIN p : m > 1 => m - 1 \in DOMAIN q /\ q[m - 1] = p[m]
            /\ \A m \in DOMAIN p : m > 1 \/ m = 1
        BY <2>1, <3>1, <3>2
      <3> QED BY <3>3
    <2> QED BY <1>7, <2>2, <2>3
  <1>9. PICK d \in {0, 1} :
           /\ \A k \in DOMAIN q : k \in Nat \ {0} /\ k + d \in DOMAIN p /\ q[k] = p[k + d]
           /\ \A m \in DOMAIN p : m > d => m - d \in DOMAIN q /\ q[m - d] = p[m]
           /\ \A m \in DOMAIN p : m > d \/ m = 1
    BY <1>8
  <1>10. /\ ~ Reports(e) => row'.until = row.until /\ row'.renewal = row.renewal
         /\ Reports(e) => Agrees(e.of)' /\ (e.of.status = "active" => row'.until = e.of.end)
    <2>1. row \in Users /\ (Reports(e) => e.of \in States)
      BY <1>3 DEF TInv, TypeOK, EventState
    <2>2. CASE ~ Reports(e)
      BY <1>6, <2>1, <2>2 DEF Users
    <2>3. CASE Reports(e)
      BY <1>0, <1>3, <1>6, <2>1, <2>3, HandledAgrees
    <2> QED BY <2>2, <2>3
  <1>11. \A m \in DOMAIN p : m \in Nat
    BY <1>2
  <1>12. Told'
    <2>1. ASSUME \A m \in DOMAIN p : ~ Reports(p[m]), Agrees(stripe)
          PROVE  Told'
      <3>1. ~ Reports(e)
        BY <1>2, <1>3, <2>1
      <3>2. Agrees(stripe)'
        BY <1>0, <1>10, <2>1, <3>1 DEF Agrees
      <3>3. \A k \in DOMAIN q : ~ Reports(q[k])
        BY <1>9, <2>1
      <3> QED BY <1>7, <3>2, <3>3 DEF Told, Reports
    <2>2. ASSUME NEW m \in DOMAIN p, Reports(p[m]), p[m].of = stripe,
                 \A j \in DOMAIN p : j > m => ~ Reports(p[j])
          PROVE  Told'
      <3>1. CASE m > d
        <4>1. m - d \in DOMAIN q /\ q[m - d] = p[m]
          BY <1>9, <3>1
        <4>2. \A j \in DOMAIN q : j > m - d => ~ Reports(q[j])
          <5> SUFFICES ASSUME NEW j \in DOMAIN q, j > m - d PROVE ~ Reports(q[j])
            OBVIOUS
          <5>1. j + d \in DOMAIN p /\ q[j] = p[j + d] /\ j + d > m
            BY <1>9, <1>11
          <5> QED BY <2>2, <5>1
        <4> QED BY <1>0, <1>7, <2>2, <4>1, <4>2 DEF Told, Reports
      <3>2. CASE ~ m > d
        <4>1. m = 1 /\ d = 1
          BY <1>9, <1>11, <3>2
        <4>2. Agrees(stripe)'
          <5>1. Agrees(e.of)' /\ e.of = stripe'
            BY <1>0, <1>3, <1>10, <2>2, <4>1
          <5> QED BY <5>1 DEF Agrees
        <4>3. \A k \in DOMAIN q : ~ Reports(q[k])
          <5> SUFFICES ASSUME NEW k \in DOMAIN q PROVE ~ Reports(q[k])
            OBVIOUS
          <5>1. k + 1 \in DOMAIN p /\ q[k] = p[k + 1] /\ k + 1 > 1
            BY <1>9, <4>1
          <5> QED BY <2>2, <4>1, <5>1
        <4> QED BY <1>7, <4>2, <4>3 DEF Told, Reports
      <3> QED BY <3>1, <3>2
    <2> QED BY <1>2, <1>5, <2>1, <2>2 DEF Told
  <1>13. OldIsKnown'
    <2>1. ASSUME Old(stripe)
          PROVE  /\ row'.until = stripe.end
                 /\ \A j \in DOMAIN q : Reports(q[j]) => q[j].of.status = "active" /\ q[j].of.end = stripe.end
      <3>1. /\ row.until = stripe.end
            /\ \A j \in DOMAIN p : j < Len(p) + 1 /\ Reports(p[j]) =>
                  p[j].of.status = "active" /\ p[j].of.end = stripe.end
        BY <1>2, <1>5, <2>1 DEF OldIsKnown, Steady
      <3>2. \A j \in DOMAIN p : j < Len(p) + 1
        BY <1>2
      <3>3. Reports(e) => e.of.status = "active" /\ e.of.end = stripe.end
        BY <1>2, <1>3, <3>1, <3>2
      <3>4. row'.until = stripe.end
        BY <1>10, <3>1, <3>3
      <3> QED BY <1>9, <3>1, <3>2, <3>4
    <2>2. ASSUME NEW i \in DOMAIN q, Reports(q[i]), Old(q[i].of)
          PROVE  /\ row'.until = q[i].of.end
                 /\ \A j \in DOMAIN q : j < i /\ Reports(q[j]) =>
                       q[j].of.status = "active" /\ q[j].of.end = q[i].of.end
      <3>1. i + d \in DOMAIN p /\ q[i] = p[i + d] /\ i \in Nat \ {0}
        BY <1>9
      <3>2. /\ row.until = q[i].of.end
            /\ \A j \in DOMAIN p : j < i + d /\ Reports(p[j]) =>
                  p[j].of.status = "active" /\ p[j].of.end = q[i].of.end
        BY <1>2, <1>5, <2>2, <3>1 DEF OldIsKnown, Steady
      <3>3. row'.until = q[i].of.end
        <4>1. CASE ~ Reports(e)
          BY <1>10, <3>2, <4>1
        <4>2. CASE Reports(e)
          <5>1. e.of.status = "active" /\ e.of.end = q[i].of.end
            <6>1. CASE i + d = 1
              BY <1>3, <2>2, <3>1, <6>1 DEF Old
            <6>2. CASE i + d # 1
              <7>1. 1 < i + d
                BY <3>1, <6>2
              <7> QED BY <1>2, <1>3, <3>2, <4>2, <7>1
            <6> QED BY <6>1, <6>2
          <5> QED BY <1>10, <4>2, <5>1
        <4> QED BY <4>1, <4>2
      <3>4. ASSUME NEW j \in DOMAIN q, j < i, Reports(q[j])
            PROVE  q[j].of.status = "active" /\ q[j].of.end = q[i].of.end
        <4>1. j + d \in DOMAIN p /\ q[j] = p[j + d] /\ j + d < i + d
          BY <1>9, <3>1, <3>4
        <4> QED BY <3>2, <3>4, <4>1
      <3> QED BY <3>3, <3>4
    <2>3. Old(stripe)' => Steady(stripe, Len(pending) + 1)'
      BY <1>0, <1>7, <2>1 DEF Old, Steady, Reports
    <2>4. \A i \in DOMAIN q : Reports(q[i]) /\ Old(q[i].of)' => Steady(q[i].of, i)'
      BY <1>0, <1>7, <2>2 DEF Old, Steady, Reports
    <2> QED BY <1>7, <2>3, <2>4 DEF OldIsKnown, Reports
  <1> QED BY <1>12, <1>13

\* At midnight, with every webhook handled, the row has Stripe's end.
LEMMA WebhookTick == ASSUME Bounds, TInv, WebhookInv, Tick PROVE WebhookInv'
  <1> SUFFICES ASSUME faults' = 0, row'.there PROVE Told' /\ OldIsKnown'
    BY DEF WebhookInv
  <1>1. /\ pending = <<>> /\ pending' = <<>> /\ row' = row /\ stripe' = stripe
        /\ now' = now + 1 /\ now \in Nat /\ stripe.end \in Nat
    BY Constants DEF Tick, Prompt, TInv, TypeOK, States
  <1>2. Agrees(stripe)
    BY <1>1 DEF WebhookInv, Told, Tick
  <1>3. Agrees(stripe)'
    BY <1>1, <1>2 DEF Agrees
  <1>4. Told' /\ OldIsKnown'
    BY <1>1, <1>3 DEF Told, OldIsKnown, Old, Steady, Agrees
  <1> QED BY <1>4

LEMMA WebhookNext == ASSUME Bounds, TInv, WebhookInv, [Next]_vars PROVE WebhookInv'
  <1>0. (faults' = 0 => faults = 0) /\ stripe \in States /\ row \in Users
    BY NoFaultBefore DEF TInv, TypeOK
  <1>1. ASSUME UNCHANGED <<now, stripe, pending>>, row' = row \/ row' = [row EXCEPT !.there = FALSE]
        PROVE  WebhookInv'
    BY <1>0, <1>1, WebhookQuiet DEF Users
  <1>2. CASE Subscribe
    <2> DEFINE s == [status |-> "active", end |-> now + Period, cancel |-> FALSE]
    <2>1. s \in States /\ ~ Old(s)
      BY Constants DEF States, Old
    <2>2. (\E seq \in Messages(s) : Tell(s, seq)) /\ UNCHANGED <<now, row>>
      BY <1>2 DEF Subscribe, Messages
    <2> HIDE DEF s
    <2> QED BY <1>0, <2>1, <2>2, WebhookTell
  <1>3. CASE Portal
    <2>1. PICK s \in {[stripe EXCEPT !.cancel = ~ @], [stripe EXCEPT !.status = "canceled"]} :
              Tell(s, <<Event(s)>>)
      BY <1>3 DEF Portal
    <2>2. s \in States /\ (Old(s) => stripe.status = "active" /\ stripe.end = s.end)
      BY <1>0, <1>3, <2>1 DEF States, Old, Portal
    <2>3. <<Event(s)>> \in Messages(s) /\ UNCHANGED <<now, row>>
      BY <1>3 DEF Portal, Messages
    <2> QED BY <1>0, <2>1, <2>2, <2>3, WebhookTell
  <1>4. CASE PeriodEnds
    <2>1. PICK s \in {[stripe EXCEPT !.status = "canceled"], [stripe EXCEPT !.end = now + Period],
                      [stripe EXCEPT !.status = "past_due"]} :
              Tell(s, <<Event(s)>>)
      BY <1>4 DEF PeriodEnds
    <2>2. s \in States /\ ~ Old(s)
      BY <1>0, <2>1, Constants DEF States, Old
    <2>3. <<Event(s)>> \in Messages(s) /\ UNCHANGED <<now, row>>
      BY <1>4 DEF PeriodEnds, Messages
    <2> QED BY <1>0, <2>1, <2>2, <2>3, WebhookTell
  <1>5. CASE CancelUserSubscription
    <2> DEFINE s == [stripe EXCEPT !.status = "canceled"]
    <2>1. s \in States /\ ~ Old(s)
      BY <1>0 DEF States, Old
    <2>2. \/ Tell(s, <<Event(s)>>) /\ UNCHANGED <<now, row>>
          \/ UNCHANGED <<now, row, stripe, pending>>
      BY <1>5 DEF CancelUserSubscription
    <2>3. <<Event(s)>> \in Messages(s)
      BY DEF Messages
    <2> HIDE DEF s
    <2>4. CASE Tell(s, <<Event(s)>>) /\ UNCHANGED <<now, row>>
      BY <1>0, <2>1, <2>3, <2>4, WebhookTell
    <2> QED BY <1>1, <2>2, <2>4
  <1>6. CASE Webhooks
    BY <1>0, <1>6, WebhookHandled DEF Webhooks
  <1>7. CASE Tick
    BY <1>7, WebhookTick
  <1>8. CASE \/ ClearSubscriptionNotificationStatus \/ ReadUsers \/ NotifyExpiringSubscription
             \/ SendMail \/ RunCleanData \/ CleanUserDataBefore \/ DeleteUser \/ RequestDeletion
             \/ UNCHANGED vars
    BY <1>1, <1>8 DEF ClearSubscriptionNotificationStatus, ReadUsers, NotifyExpiringSubscription,
       SendMail, RunCleanData, CleanUserDataBefore, DeleteUser, RequestDeletion, vars, jobs
  <1> QED BY <1>2, <1>3, <1>4, <1>5, <1>6, <1>7, <1>8 DEF Next, AtStripe, Server


----------------------------------------------------------------------------
(***************************************************************************)
(* Reminders.                                                              *)
(***************************************************************************)
LEMMA OneMailChanges ==
  ASSUME NEW s \in Seq(MailState), Len(s) <= 1
  PROVE  /\ s # <<>> => /\ Tail(s) = <<>>
                        /\ [s EXCEPT ![1].out = TRUE] # <<>> /\ Len([s EXCEPT ![1].out = TRUE]) = 1
                        /\ Head([s EXCEPT ![1].out = TRUE]).out
                        /\ Head([s EXCEPT ![1].out = TRUE]).until = Head(s).until
         /\ \A x : Append(<<>>, x) # <<>> /\ Len(Append(<<>>, x)) = 1 /\ Head(Append(<<>>, x)) = x
  <1>1. \A x : Append(<<>>, x) # <<>> /\ Len(Append(<<>>, x)) = 1 /\ Head(Append(<<>>, x)) = x
    OBVIOUS
  <1>2. ASSUME s # <<>>
        PROVE  /\ Tail(s) = <<>>
               /\ [s EXCEPT ![1].out = TRUE] # <<>> /\ Len([s EXCEPT ![1].out = TRUE]) = 1
               /\ Head([s EXCEPT ![1].out = TRUE]).out
               /\ Head([s EXCEPT ![1].out = TRUE]).until = Head(s).until
    <2> DEFINE x == [s[1] EXCEPT !.out = TRUE]
    <2>1. Len(s) \in Nat /\ DOMAIN s = 1 .. Len(s) /\ (Len(s) = 0 => s = <<>>)
      OBVIOUS
    <2>2. Len(s) = 1 /\ 1 \in DOMAIN s
      BY <1>2, <2>1
    <2>3. s[1] \in MailState /\ Head(s) = s[1]
      BY <1>2, MailElements
    <2>4. x \in MailState /\ x.out /\ x.until = s[1].until
      BY <2>3 DEF MailState
    <2>5. [s EXCEPT ![1].out = TRUE] = [s EXCEPT ![1] = x]
      BY DEF x
    <2> HIDE DEF x
    <2> DEFINE t == [s EXCEPT ![1] = x]
    <2>6. t \in Seq(MailState) /\ Len(t) = Len(s) /\ t[1] = x
      <3>1. 1 \in 1 .. Len(s)
        BY <2>2
      <3> QED BY <2>4, <3>1, ExceptSeq
    <2>7. [s EXCEPT ![1].out = TRUE] = t
      BY <2>5
    <2>8. Tail(s) = <<>>
      <3>1. Tail(s) \in Seq(MailState) /\ Len(Tail(s)) = Len(s) - 1
        BY <1>2, HeadTailProperties
      <3> DEFINE r == Tail(s)
      <3>2. r \in Seq(MailState) /\ Len(r) = 0
        BY <2>2, <3>1
      <3> HIDE DEF r
      <3>3. r = <<>>
        BY <3>2
      <3> QED BY <3>3 DEF r
    <2> HIDE DEF t
    <2>9. t # <<>> /\ Len(t) = 1 /\ Head(t) = x
      BY <2>2, <2>6
    <2> QED BY <2>3, <2>4, <2>7, <2>8, <2>9
  <1> QED BY <1>1, <1>2

LEMMA MailTypes ==
  ASSUME Bounds, TInv
  PROVE  /\ mails \in Seq(MailState) /\ (mails # <<>> => Head(mails).until \in Nat /\ Head(mails).out \in BOOLEAN)
         /\ sent.day \in Nat /\ sent.until \in Nat /\ mark \in Nat /\ clears \in Nat
         /\ row.until \in Nat /\ now \in Nat /\ now >= 1
         /\ \A u \in check : u.until \in Nat
  <1>1. mails \in Seq(MailState)
    BY DEF TInv, TypeOK, MailState
  <1>2. mails # <<>> => Head(mails).until \in Nat /\ Head(mails).out \in BOOLEAN
    BY <1>1, MailElements, Constants DEF MailState
  <1> QED BY <1>1, <1>2, Constants DEF TInv, TypeOK, Users

\* What the check does: one mail for who is due, or none.
LEMMA NotifyIs ==
  ASSUME TInv, OneMail, NotifyExpiringSubscription
  PROVE  /\ mails = <<>> /\ check' = {} /\ "notify" \in today
         /\ UNCHANGED <<now, row, mark, clears, sent, today>>
         /\ \E u \in check :
               \/ /\ u.there /\ ~ AlreadySent /\ Due(u) /\ faults' = faults
                  /\ mails' # <<>> /\ Len(mails') = 1
                  /\ Head(mails').until = u.until /\ ~ Head(mails').out
               \/ mails' = <<>> /\ faults' = faults /\ ~ (u.there /\ ~ AlreadySent /\ Due(u))
               \/ mails' = <<>> /\ Fault
  <1>1. mails = <<>> /\ "notify" \in today
    BY DEF OneMail, NotifyExpiringSubscription
  <1>2. \A x : Append(mails, x) # <<>> /\ Len(Append(mails, x)) = 1 /\ Head(Append(mails, x)) = x
    BY <1>1
  <1>3. PICK u \in check :
            \/ /\ UNCHANGED faults
               /\ mails' = IF u.there /\ ~ AlreadySent /\ Due(u)
                           THEN Append(mails, [until |-> u.until, out |-> FALSE]) ELSE mails
            \/ Fault /\ UNCHANGED mails
    BY DEF NotifyExpiringSubscription
  <1> DEFINE x == [until |-> u.until, out |-> FALSE]
  <1>4. x.until = u.until /\ ~ x.out
    OBVIOUS
  <1>5. \/ faults' = faults /\ u.there /\ ~ AlreadySent /\ Due(u) /\ mails' = Append(mails, x)
        \/ faults' = faults /\ ~ (u.there /\ ~ AlreadySent /\ Due(u)) /\ mails' = <<>>
        \/ mails' = <<>> /\ Fault
    BY <1>1, <1>3
  <1> HIDE DEF x
  <1>6. CASE faults' = faults /\ u.there /\ ~ AlreadySent /\ Due(u) /\ mails' = Append(mails, x)
    <2>1. mails' # <<>> /\ Len(mails') = 1 /\ Head(mails') = x
      BY <1>2, <1>6
    <2> QED BY <1>1, <1>4, <1>6, <2>1 DEF NotifyExpiringSubscription
  <1> QED BY <1>1, <1>5, <1>6 DEF NotifyExpiringSubscription

\* What the sending does: the mail goes out, the mark follows, or a fault takes it away.
LEMMA SendIs ==
  ASSUME Bounds, TInv, OneMail, SendMail
  PROVE  /\ mails # <<>> /\ check = {} /\ UNCHANGED <<now, row, clears, check, today>>
         /\ \/ /\ ~ Out /\ mails' # <<>> /\ Len(mails') = 1
               /\ Head(mails').out /\ Head(mails').until = Head(mails).until
               /\ sent' = [day |-> now, until |-> Head(mails).until]
               /\ UNCHANGED <<mark, faults>>
            \/ Out /\ mark' = now /\ mails' = <<>> /\ UNCHANGED <<sent, faults>>
            \/ Fault /\ mails' = <<>> /\ UNCHANGED <<mark, sent>>
  <1>1. mails \in Seq(MailState) /\ mails # <<>> /\ Len(mails) <= 1 /\ check = {}
    BY MailTypes DEF OneMail, SendMail
  <1>2. /\ Tail(mails) = <<>>
        /\ [mails EXCEPT ![1].out = TRUE] # <<>> /\ Len([mails EXCEPT ![1].out = TRUE]) = 1
        /\ Head([mails EXCEPT ![1].out = TRUE]).out
        /\ Head([mails EXCEPT ![1].out = TRUE]).until = Head(mails).until
    BY <1>1, OneMailChanges
  <1> QED BY <1>1, <1>2 DEF SendMail, Out

LEMMA OneMailInit == ASSUME Bounds, Init PROVE OneMail
  <1>1. mails = <<>> /\ Len(mails) = 0 /\ check = {} /\ sent.day = 0 /\ sent.until = 0 /\ now = 1
    BY DEF Init
  <1> QED BY <1>1 DEF OneMail, Out, Bounds

\* Steps that concern neither checks nor mails.
LEMMA OneMailQuiet ==
  ASSUME OneMail, UNCHANGED <<now, mails, check, sent>>, today \subseteq today'
  PROVE  OneMail'
  BY DEF OneMail, Out

LEMMA OneMailNext == ASSUME Bounds, TInv, OneMail, [Next]_vars PROVE OneMail'
  <1>0. /\ now \in Nat /\ sent.day \in Nat /\ sent.until \in Nat /\ Notice \in Nat
        /\ (mails # <<>> => Head(mails).until \in Nat)
    BY MailTypes DEF Bounds
  <1>1. CASE ReadUsers
    BY <1>1 DEF OneMail, ReadUsers, Out
  <1>2. CASE NotifyExpiringSubscription
    <2>1. PICK u \in check :
             \/ /\ Due(u) /\ mails' # <<>> /\ Len(mails') = 1
                /\ Head(mails').until = u.until /\ ~ Head(mails').out
             \/ mails' = <<>>
      BY <1>2, NotifyIs
    <2>2. mails = <<>> /\ check' = {} /\ "notify" \in today /\ UNCHANGED <<now, sent, today>>
      BY <1>2, NotifyIs
    <2>3. u.until \in Nat
      BY MailTypes
    <2>4. Due(u) => u.until # 0 /\ u.until <= now + Notice
      BY <1>0, <2>3 DEF Due
    <2>5. ~ Out'
      BY <2>1 DEF Out
    <2>6. Len(mails') <= 1
      <3>1. CASE mails' = <<>>
        <4>1. Len(<<>>) = 0
          OBVIOUS
        <4> QED BY <3>1, <4>1
      <3>2. CASE Len(mails') = 1
        BY <3>2
      <3> QED BY <2>1, <3>1, <3>2
    <2> QED BY <2>1, <2>2, <2>4, <2>5, <2>6 DEF OneMail
  <1>3. CASE SendMail
    <2>1. /\ mails # <<>> /\ check = {} /\ UNCHANGED <<now, check, today>>
          /\ \/ /\ mails' # <<>> /\ Len(mails') = 1 /\ Head(mails').until = Head(mails).until
                /\ sent' = [day |-> now, until |-> Head(mails).until]
             \/ mails' = <<>> /\ UNCHANGED sent
      BY <1>3, SendIs
    <2>2. CASE mails' = <<>> /\ UNCHANGED sent
      BY <2>1, <2>2 DEF OneMail, Out
    <2>3. CASE /\ mails' # <<>> /\ Len(mails') = 1 /\ Head(mails').until = Head(mails).until
               /\ sent' = [day |-> now, until |-> Head(mails).until]
      <3>1. sent'.day = now /\ sent'.until = Head(mails).until
        BY <2>3
      <3> QED BY <1>0, <2>1, <2>3, <3>1 DEF OneMail, Out
    <2> QED BY <2>1, <2>2, <2>3
  <1>4. CASE Tick
    <2>1. /\ mails = <<>> /\ mails' = <<>> /\ check' = {} /\ sent' = sent /\ now' = now + 1
      BY <1>4 DEF Tick, Prompt
    <2> QED BY <1>0, <2>1 DEF OneMail, Out
  <1>5. CASE \/ AtStripe \/ Webhooks \/ ClearSubscriptionNotificationStatus \/ RunCleanData
             \/ CleanUserDataBefore \/ DeleteUser \/ CancelUserSubscription \/ RequestDeletion
             \/ UNCHANGED vars
    <2>1. UNCHANGED <<now, mails, check, sent>> /\ today \subseteq today'
      BY <1>5 DEF AtStripe, Subscribe, Portal, PeriodEnds, Webhooks, PostWebhook,
         ClearSubscriptionNotificationStatus, RunCleanData, CleanUserDataBefore, DeleteUser,
         CancelUserSubscription, RequestDeletion, vars, jobs
    <2> QED BY <2>1, OneMailQuiet
  <1> QED BY <1>1, <1>2, <1>3, <1>4, <1>5 DEF Next, Server

LEMMA RemindInit == ASSUME Bounds, Init PROVE RemindInv
  <1>1. /\ mails = <<>> /\ check = {} /\ sent.day = 0 /\ sent.until = 0 /\ now = 1
        /\ row.until = 0 /\ mark = 0 /\ clears = 0
    BY DEF Init, Nobody
  <1> QED BY <1>1 DEF RemindInv, Marked, Warned, Settled, Out, Bounds

\* A webhook is handled: the row keeps its end, or loses it, or has one that no reminder and
\* no mail in the queue has.
LEMMA RemindWebhook ==
  ASSUME Bounds, TInv, OneMail, RemindInv, faults = 0,
         UNCHANGED <<now, mark, check, mails, sent, today>>, row'.there => row.there,
         \/ row'.until = row.until /\ clears' = clears
         \/ row'.until = 0 /\ clears' = clears
         \/ row'.until = now + Period /\ clears' = clears + 1
  PROVE  RemindInv'
  <1>0. /\ now \in Nat /\ sent.day \in Nat /\ sent.until \in Nat /\ Notice \in Nat
        /\ Period \in Nat /\ Notice < Period /\ row.until \in Nat
        /\ (mails # <<>> => Head(mails).until \in Nat)
    BY MailTypes DEF Bounds
  <1>1. /\ sent.until # now + Period
        /\ mails # <<>> => Head(mails).until # now + Period /\ Head(mails).until # 0
    BY <1>0 DEF OneMail
  <1>2. Marked /\ Warned
    BY DEF RemindInv
  <1>3. Marked'
    <2>1. CASE row'.until = row.until /\ clears' = clears
      BY <1>2, <2>1 DEF Marked, Out
    <2>2. CASE row'.until = 0 /\ clears' = clears
      BY <1>0, <1>1, <1>2, <2>2 DEF Marked, Out
    <2>3. CASE row'.until = now + Period /\ clears' = clears + 1
      BY <1>0, <1>1, <1>2, <2>3 DEF Marked, Out
    <2> QED BY <2>1, <2>2, <2>3
  <1>4. Warned'
    <2>1. Settled' => row'.until = row.until /\ Settled
      BY DEF Settled
    <2> QED BY <1>2, <2>1 DEF Warned
  <1> QED BY <1>3, <1>4 DEF RemindInv

\* The mark is cleared.
LEMMA RemindClear ==
  ASSUME Bounds, TInv, OneMail, RemindInv, ClearSubscriptionNotificationStatus
  PROVE  RemindInv'
  <1> SUFFICES ASSUME faults = 0 PROVE Marked' /\ Warned'
    BY DEF RemindInv, ClearSubscriptionNotificationStatus
  <1>0. /\ now \in Nat /\ sent.day \in Nat /\ sent.until \in Nat /\ Notice \in Nat
        /\ Period \in Nat /\ Notice < Period /\ clears \in Nat
    BY MailTypes DEF Bounds
  <1>1. Marked /\ Warned /\ sent.until # now + Period
    BY <1>0 DEF RemindInv, OneMail
  <1>2. /\ clears > 0 /\ clears' = clears - 1 /\ mark' = 0
        /\ UNCHANGED <<now, row, check, mails, sent, today>>
    BY DEF ClearSubscriptionNotificationStatus, jobs
  <1>3. Marked'
    BY <1>0, <1>1, <1>2 DEF Marked, Out
  <1>4. Warned'
    BY <1>1, <1>2 DEF Warned, Settled
  <1> QED BY <1>3, <1>4

\* The users are read for the check.
LEMMA RemindRead == ASSUME OneMail, RemindInv, ReadUsers, faults' = 0 => faults = 0 PROVE RemindInv'
  <1> SUFFICES ASSUME faults' = 0 PROVE Marked' /\ Warned'
    BY DEF RemindInv
  <1>1. /\ check' \in {check, {row}} /\ mails = <<>> /\ check = {}
        /\ today' = today \union {"notify"}
        /\ UNCHANGED <<now, row, mark, clears, mails, sent>>
    BY DEF ReadUsers, OneMail
  <1>2. Marked /\ Warned
    BY DEF RemindInv
  <1>3. Marked'
    BY <1>1, <1>2 DEF Marked, Out
  <1>4. check' = {row}
    BY DEF ReadUsers, Fault
  <1>5. Warned'
    BY <1>1, <1>2, <1>4 DEF Warned, Settled
  <1> QED BY <1>3, <1>5

\* The check queues a mail.
LEMMA RemindNotify ==
  ASSUME Bounds, TInv, OneMail, RemindInv, NotifyExpiringSubscription, faults' = 0 => faults = 0
  PROVE  RemindInv'
  <1> SUFFICES ASSUME faults' = 0 PROVE Marked' /\ Warned'
    BY DEF RemindInv
  <1>0. /\ now \in Nat /\ now >= 1 /\ sent.day \in Nat /\ sent.until \in Nat /\ Notice \in Nat
        /\ Period \in Nat /\ Notice < Period /\ mark \in Nat /\ row.until \in Nat
    BY MailTypes DEF Bounds
  <1>1. /\ mails = <<>> /\ check' = {} /\ "notify" \in today
        /\ UNCHANGED <<now, row, mark, clears, sent, today>>
    BY NotifyIs
  <1>2. ~ Fault
    BY DEF Fault, TInv, TypeOK
  <1>3. PICK u \in check :
           \/ /\ u.there /\ ~ AlreadySent /\ Due(u)
              /\ mails' # <<>> /\ Len(mails') = 1
              /\ Head(mails').until = u.until /\ ~ Head(mails').out
           \/ mails' = <<>> /\ ~ (u.there /\ ~ AlreadySent /\ Due(u))
    BY <1>2, NotifyIs
  <1>4. u.until \in Nat /\ u.renewal \in {0, u.until}
    BY MailTypes DEF TInv
  <1>5. Marked /\ Warned /\ ~ Out /\ ~ Out'
    BY <1>1, <1>3 DEF RemindInv, Out
  <1>6. mark \in {0, sent.day} /\ (mark = 0 /\ sent.until # 0 => row.until # sent.until)
    BY <1>5 DEF Marked
  <1>7. Marked'
    <2>1. ASSUME mails' # <<>>, sent.until = Head(mails').until, row.until = sent.until
          PROVE  now - sent.day > Notice
      <3>1. sent.until # 0 /\ ~ AlreadySent
        BY <1>3, <2>1 DEF Due
      <3>2. mark # 0 /\ mark = sent.day
        BY <1>6, <2>1, <3>1
      <3>3. ~ now - mark <= Notice
        BY <3>1, <3>2 DEF AlreadySent
      <3> QED BY <1>0, <3>2, <3>3
    <2> QED BY <1>1, <1>5, <1>6, <2>1 DEF Marked
  <1>8. Warned'
    <2> SUFFICES ASSUME Settled
                 PROVE  /\ mails' # <<>> => Head(mails').until = row.until
                        /\ row.until = now /\ mails' = <<>> => sent.until = row.until
      BY <1>1, <1>5 DEF Warned, Settled
    <2>1. u.there /\ u.until = row.until
      BY <1>5 DEF Warned
    <2>2. ASSUME row.until = now, mails' = <<>> PROVE sent.until = row.until
      <3>1. Due(u)
        BY <1>0, <1>4, <2>1, <2>2 DEF Due
      <3>2. mark # 0 /\ now - mark <= Notice
        BY <1>3, <2>1, <2>2, <3>1 DEF AlreadySent
      <3>3. sent.day + Period > row.until
        BY <1>0, <1>6, <2>2, <3>2
      <3> QED BY <1>5, <3>3 DEF Warned
    <2> QED BY <1>3, <2>1, <2>2
  <1> QED BY <1>7, <1>8

\* The mail goes out.
LEMMA RemindSend ==
  ASSUME Bounds, TInv, OneMail, RemindInv, SendMail, faults' = 0 => faults = 0
  PROVE  RemindInv'
  <1> SUFFICES ASSUME faults' = 0 PROVE Marked' /\ Warned'
    BY DEF RemindInv
  <1>0. /\ now \in Nat /\ now >= 1
    BY MailTypes
  <1>1. ~ Fault
    BY DEF Fault, TInv, TypeOK
  <1>2. /\ mails # <<>> /\ check = {} /\ UNCHANGED <<now, row, clears, check, today>>
        /\ \/ /\ ~ Out /\ mails' # <<>> /\ Head(mails').out /\ Head(mails').until = Head(mails).until
              /\ sent' = [day |-> now, until |-> Head(mails).until] /\ mark' = mark
           \/ Out /\ mark' = now /\ mails' = <<>> /\ sent' = sent
    BY <1>1, SendIs
  <1>3. Marked /\ Warned
    BY DEF RemindInv
  <1>4. CASE /\ ~ Out /\ mails' # <<>> /\ Head(mails').out /\ Head(mails').until = Head(mails).until
             /\ sent' = [day |-> now, until |-> Head(mails).until] /\ mark' = mark
    <2>1. sent'.day = now /\ sent'.until = Head(mails).until /\ Out'
      BY <1>4 DEF Out
    <2>2. Marked'
      BY <1>2, <1>3, <1>4, <2>1 DEF Marked
    <2>3. Warned'
      BY <1>2, <1>3, <1>4, <2>1 DEF Warned, Settled
    <2> QED BY <2>2, <2>3
  <1>5. CASE Out /\ mark' = now /\ mails' = <<>> /\ sent' = sent
    <2>1. sent.day = now /\ sent.until = Head(mails).until /\ ~ Out'
      BY <1>5 DEF OneMail, Out
    <2>2. Marked'
      BY <1>0, <1>2, <1>3, <1>5, <2>1 DEF Marked
    <2>3. Warned'
      BY <1>2, <1>3, <1>5, <2>1 DEF Warned, Settled
    <2> QED BY <2>2, <2>3
  <1> QED BY <1>2, <1>4, <1>5

\* Midnight: the day's check is done.
LEMMA RemindTick ==
  ASSUME Bounds, TInv, OneMail, RemindInv, Tick
  PROVE  RemindInv'
  <1> SUFFICES ASSUME faults = 0 PROVE Marked' /\ Warned'
    BY DEF RemindInv, Tick
  <1>0. /\ now \in Nat /\ sent.day \in Nat /\ sent.until \in Nat /\ Notice \in Nat
        /\ Period \in Nat /\ Notice < Period /\ row.until \in Nat /\ sent.day <= now
    BY MailTypes DEF Bounds, OneMail
  <1>1. /\ check = {} /\ mails = <<>> /\ clears = 0 /\ "notify" \in today
        /\ now' = now + 1 /\ today' = {}
        /\ UNCHANGED <<row, mark, clears, check, mails, sent>>
    BY DEF Tick, Prompt
  <1>2. Marked /\ Warned
    BY DEF RemindInv
  <1>3. Marked'
    BY <1>0, <1>1, <1>2 DEF Marked, Out
  <1>4. Warned'
    <2> SUFFICES ASSUME Settled'
                 PROVE  /\ sent.day + Period > row.until => sent.until = row.until
                        /\ row.until < now + 1 => sent.until = row.until
      BY <1>1 DEF Warned
    <2>1. CASE row.until = now + Period
      BY <1>0, <2>1
    <2>2. CASE row.until # now + Period
      <3>1. Settled
        BY <1>1, <2>2 DEF Settled
      <3>2. /\ sent.day + Period > row.until => sent.until = row.until
            /\ row.until < now => sent.until = row.until
            /\ row.until = now => sent.until = row.until
        BY <1>1, <1>2, <3>1 DEF Warned
      <3> QED BY <1>0, <3>2
    <2> QED BY <2>1, <2>2
  <1> QED BY <1>3, <1>4

LEMMA RemindNext ==
  ASSUME Bounds, TInv, WebhookInv, OneMail, RemindInv, [Next]_vars
  PROVE  RemindInv'
  <1>0. (faults' = 0 => faults = 0) /\ row \in Users
    BY NoFaultBefore DEF TInv, TypeOK
  <1>1. ASSUME UNCHANGED <<now, mark, clears, check, mails, sent>>,
               row' = row \/ row' = [row EXCEPT !.there = FALSE],
               today' = today \/ today' = today \union {"clean"}
        PROVE  RemindInv'
    <2>1. row'.until = row.until /\ (row'.there => row.there) /\ ("notify" \in today' <=> "notify" \in today)
      BY <1>0, <1>1 DEF Users
    <2>2. Marked => Marked'
      BY <1>1, <2>1 DEF Marked, Out
    <2>3. Warned => Warned'
      BY <1>1, <2>1 DEF Warned, Settled
    <2> QED BY <1>0, <2>2, <2>3 DEF RemindInv
  <1>2. CASE Webhooks
    <2> SUFFICES ASSUME faults' = 0 PROVE RemindInv'
      BY DEF RemindInv
    <2>1. PICK i \in DOMAIN pending : PostWebhook(i)
      BY <1>2 DEF Webhooks
    <2>2. ~ Fault /\ faults = 0
      BY <1>0 DEF Fault, TInv, TypeOK
    <2>3. i = 1
      BY <2>1, <2>2 DEF PostWebhook
    <2>4. /\ row'.there = row.there
          /\ \/ row'.until = row.until /\ clears' = clears
             \/ row'.until = 0 /\ clears' = clears
             \/ row.there /\ row'.until = now + Period /\ clears' = clears + 1
      BY <2>1, <2>2, <2>3, WebhookMoves
    <2>5. UNCHANGED <<now, mark, check, mails, sent, today>>
      BY <2>1 DEF PostWebhook, jobs
    <2> QED BY <2>2, <2>4, <2>5, RemindWebhook
  <1>3. CASE \/ AtStripe \/ RunCleanData \/ CleanUserDataBefore \/ DeleteUser
             \/ CancelUserSubscription \/ RequestDeletion \/ UNCHANGED vars
    <2>1. /\ UNCHANGED <<now, mark, clears, check, mails, sent>>
          /\ row' = row \/ row' = [row EXCEPT !.there = FALSE]
          /\ today' = today \/ today' = today \union {"clean"}
      BY <1>3 DEF AtStripe, Subscribe, Portal, PeriodEnds, RunCleanData, CleanUserDataBefore,
         DeleteUser, CancelUserSubscription, RequestDeletion, vars, jobs
    <2> QED BY <1>1, <2>1
  <1> QED BY <1>0, <1>2, <1>3, RemindClear, RemindRead, RemindNotify, RemindSend, RemindTick
          DEF Next, Server

----------------------------------------------------------------------------
(***************************************************************************)
(* Theorems.                                                               *)
(***************************************************************************)
LEMMA InvInit == ASSUME Bounds, Init PROVE SInv
  BY InitTypes, WebhookInit, OneMailInit, RemindInit DEF SInv

LEMMA InvNext == ASSUME Bounds, SInv, [Next]_vars PROVE SInv'
  BY NextTypes, WebhookNext, OneMailNext, RemindNext DEF SInv

\* Every variable stays within its type, whatever overtakes and fails; a renewal is never
\* dated without an end.
THEOREM TypeCorrect == ASSUME Bounds PROVE Spec => []TypeOK
  <1> QED BY InvInit, InvNext, PTL DEF Spec, SInv, TInv

\* Webhooks that arrive in order, though some twice, leave the row with the end of the
\* period that Stripe has, and without a renewal once the user has cancelled.
THEOREM RowIsStripes == ASSUME Bounds PROVE Spec => []RowFollowsStripe
  <1>1. SInv => RowFollowsStripe
    <2> SUFFICES ASSUME SInv, faults = 0, pending = <<>>, row.there
                 PROVE  /\ stripe.status = "active" => row.until = stripe.end
                        /\ stripe.status \in {"none", "canceled"} => row.until = 0 /\ row.renewal = 0
                        /\ stripe.status = "active" /\ stripe.cancel /\ stripe.end > now =>
                              row.renewal = 0
      BY DEF RowFollowsStripe
    <2>1. Agrees(stripe)
      BY DEF SInv, WebhookInv, Told
    <2> QED BY <2>1 DEF Agrees
  <1> QED BY <1>1, InvInit, InvNext, PTL DEF Spec

\* Two reminders of one end are more than the notice apart, although every new period
\* clears the mark of the last one in a goroutine of its own.
THEOREM RemindersStayApart == ASSUME Bounds PROVE Spec => RemindersApart
  <1> DEFINE Apart == faults = 0 /\ sent' # sent /\ sent.until = sent'.until /\ row.until = sent.until
                      => sent'.day - sent.day > Notice
  <1>1. ASSUME SInv, [Next]_vars PROVE Apart
    <2> SUFFICES ASSUME faults = 0, sent' # sent, sent.until = sent'.until, row.until = sent.until
                 PROVE  sent'.day - sent.day > Notice
      OBVIOUS
    <2>1. SendMail
      BY <1>1 DEF Next, AtStripe, Subscribe, Portal, PeriodEnds, Webhooks, PostWebhook, Server,
         ClearSubscriptionNotificationStatus, ReadUsers, NotifyExpiringSubscription,
         RunCleanData, CleanUserDataBefore, DeleteUser, CancelUserSubscription, RequestDeletion,
         Tick, vars, jobs
    <2>2. ~ Out /\ mails # <<>> /\ sent' = [day |-> now, until |-> Head(mails).until]
      BY <1>1, <2>1, SendIs DEF SInv
    <2>3. sent'.day = now /\ sent'.until = Head(mails).until
      BY <2>2
    <2>4. now - sent.day > Notice
      BY <1>1, <2>2, <2>3 DEF SInv, RemindInv, Marked
    <2> QED BY <2>3, <2>4
  <1>2. SInv /\ [Next]_vars => [Apart]_vars
    BY <1>1
  <1>3. Init => SInv
    BY InvInit
  <1>4. SInv /\ [Next]_vars => SInv'
    BY InvNext
  <1>5. Spec => [][Apart]_vars
    BY <1>2, <1>3, <1>4, PTL DEF Spec
  <1> QED BY <1>5 DEF RemindersApart

\* Old data of a subscription that ran out is not cleaned unless its reminder went out: the
\* retention job and the reminder, which keep copies of the row, agree.
THEOREM CleanedAfterWarning == ASSUME Bounds PROVE Spec => WarnedBeforeCleaned
  <1> DEFINE Warning == faults = 0 /\ cleanup' = {} =>
                        \A u \in cleanup : u.until \in 1..(now - 1) /\ u = row => sent.until = u.until
  <1>1. ASSUME SInv PROVE Warning
    <2> SUFFICES ASSUME faults = 0, row \in cleanup, row.until \in 1..(now - 1)
                 PROVE  sent.until = row.until
      OBVIOUS
    <2>1. row.there /\ now \in Nat /\ Period \in Nat
      BY <1>1, Constants DEF SInv, TInv
    <2>2. Settled /\ row.until < now
      BY <2>1 DEF Settled
    <2> QED BY <1>1, <2>2 DEF SInv, RemindInv, Warned
  <1>2. SInv /\ [Next]_vars => [Warning]_vars
    BY <1>1
  <1>3. Init => SInv
    BY InvInit
  <1>4. SInv /\ [Next]_vars => SInv'
    BY InvNext
  <1>5. Spec => [][Warning]_vars
    BY <1>2, <1>3, <1>4, PTL DEF Spec
  <1> QED BY <1>5 DEF WarnedBeforeCleaned
=============================================================================
