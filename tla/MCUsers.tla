------------------------------ MODULE MCUsers -------------------------------
(***************************************************************************)
(* The three parts of the server that keep users, for TLC: the row and its *)
(* copies (Accounts), the subscription (Subscription), sign-up (Signup).   *)
(* They meet in the users' table only, by the whole-row updates that       *)
(* Accounts has; so each behaviour is one part's, chosen at the start, and *)
(* the other parts rest in their initial state.                            *)
(***************************************************************************)
EXTENDS Accounts, Sequences

CONSTANTS
    Period, Notice, MaxDay, MaxOrders,   \* of Subscription
    Names, Founder, Codes, NoCode        \* of Signup

VARIABLES
    part,
    now, stripe, pending, subscriber, mark, clears, check, mails, sent, cleanup,
    leaving, cancelling, today, orders, failures,
    config, crowded, codes, users, form, given, errors

subscriptionVars == <<now, stripe, pending, subscriber, mark, clears, check, mails, sent,
                      cleanup, leaving, cancelling, today, orders, failures>>
signupVars == <<config, crowded, codes, users, form, given, errors>>
allVars == <<part, vars, subscriptionVars, signupVars>>

S == INSTANCE Subscription WITH row <- subscriber, faults <- failures
G == INSTANCE Signup WITH overlap <- crowded, req <- form, faults <- errors

AllInit ==
    /\ part \in {"accounts", "subscription", "signup"}
    /\ Init /\ S!Init /\ G!Init
    /\ part # "accounts" => overlap = FALSE
    /\ part # "signup" => ~ crowded /\ users = {} /\ ~ config.allow /\ ~ config.invites

AccountNext      == part = "accounts" /\ Next /\ UNCHANGED <<part, subscriptionVars, signupVars>>
SubscriptionNext == part = "subscription" /\ S!Next /\ UNCHANGED <<part, vars, signupVars>>
SignupNext       == part = "signup" /\ G!Next /\ UNCHANGED <<part, vars, subscriptionVars>>

AllNext == AccountNext \/ SubscriptionNext \/ SignupNext

\* The fairness of the parts, where something is asked of it: a goroutine of the server goes on.
Sessions    == part = "accounts" /\ overlap
Going(r)    == Sessions /\ ReqStep(r)
Computing   == Sessions /\ Compute
Expiring    == Sessions /\ Expire
Subscribing == part = "subscription" /\ S!Server

AllFairSpec ==
    /\ AllInit /\ [][AllNext]_allVars
    /\ \A r \in Reqs : WF_vars(Going(r))
    /\ WF_vars(Computing) /\ WF_vars(Expiring)
    /\ WF_subscriptionVars(Subscribing)

----------------------------------------------------------------------------
\* The properties of the parts, which state them in their modules.

\* Every variable of every part stays within its type.
AllTypesOK == TypeOK /\ S!TypeOK /\ G!TypeOK

\* Webhooks handled in order leave the row with Stripe's dates (Subscription).
RowFollowsStripe == S!RowFollowsStripe

\* Two reminders of one end are more than Notice days apart (Subscription).
RemindersApart == S!RemindersApart

\* Old data of an expired subscriber is not cleaned unwarned (Subscription).
WarnedBeforeCleaned == S!WarnedBeforeCleaned

\* Who deletes the account is not charged again (Subscription).
DeletedIsCancelled == part = "subscription" => S!DeletedIsCancelled

\* One request per name is told that it created the account (Signup).
CreatedOnce == G!CreatedOnce

\* An invite code admits one account (Signup).
OneAccountPerCode == G!OneAccountPerCode

\* The administrator is the first account and the only one (Signup).
OneAdministrator == G!OneAdministrator
============================================================================
