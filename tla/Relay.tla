-------------------------------- MODULE Relay -------------------------------
(***************************************************************************)
(* Heartbeats relayed from server to server: the middleware in front of    *)
(* the heartbeat handler (middlewares/custom/wakatime.go) on several       *)
(* servers, each of which relays what one user sends to the server behind  *)
(* it, in a chain, a cycle, or a chain that runs into a cycle.             *)
(*                                                                         *)
(* A post goes from server to server as at most one request at a time; it  *)
(* is numbered as its client sent it.                                      *)
(***************************************************************************)
EXTENDS Integers, FiniteSets

CONSTANTS
    Servers,
    Outside,     \* wakatime.com, or whatever does not relay
    Routes,      \* functions from servers to a server, Outside, or Nowhere
    Nowhere,     \* no API key is set: nothing is relayed
    Hashes,
    MaxPosts,    \* bound: posts
    MaxLoad,     \* bound: hashes in them, lost or refused requests and restarts together
    MaxFailures  \* maxFailuresPerDay

VARIABLES
    behind,     \* where each server relays to
    run,        \* how often each server was started: its InstanceId
    known,      \* hashCache
    failures,   \* failureCache, -1 if there is no entry
    handed,     \* hashes each server's own handler was given
    post,       \* the request of each post, and the servers it has passed
    refused,    \* requests answered with an error status: [by, at, pc]
    sent,       \* hashes that clients sent
    faults

vars == <<behind, run, known, failures, handed, post, refused, sent, faults>>

Posts  == 1 .. MaxPosts
NoOrigin == <<Nowhere, 0>>
Self(s)  == <<s, run[s]>>
Gone   == [pc |-> "gone", at |-> Nowhere, origin |-> NoOrigin, body |-> {}, todo |-> {}, new |-> {},
           passed |-> {}]

Init ==
    /\ behind \in Routes
    /\ run = [s \in Servers |-> 0]
    /\ known = [s \in Servers |-> {}] /\ handed = [s \in Servers |-> {}]
    /\ failures = [s \in Servers |-> -1]
    /\ post = [p \in Posts |-> [Gone EXCEPT !.pc = "idle"]]
    /\ refused = {}
    /\ sent = 0 /\ faults = 0

Fault == sent + faults < MaxLoad /\ faults' = faults + 1

At(p, pc) == post[p].pc = pc
Arrived(s, origin, body, passed) ==
    [pc |-> "arrived", at |-> s, origin |-> origin, body |-> body, todo |-> body, new |-> {},
     passed |-> passed \union {s}]
\* the own handler (module Ingest), which the middleware calls in any case
HandOn(p, body) == handed' = [handed EXCEPT ![post[p].at] = @ \union body]

Client(p) ==
    /\ At(p, "idle") /\ (p > 1 => ~ At(p - 1, "idle"))
    /\ \E s \in Servers, body \in (SUBSET Hashes) \ {{}} :
          /\ sent' = sent + Cardinality(body) /\ sent' + faults <= MaxLoad
          /\ post' = [post EXCEPT ![p] = Arrived(s, NoOrigin, body, {})]
    /\ UNCHANGED <<behind, run, known, failures, handed, refused, faults>>

\* ServeHTTP: a request that began here, or whose user has no key, is only handled
ServeOnly(p) ==
    /\ At(p, "arrived")
    /\ post[p].origin = Self(post[p].at) \/ behind[post[p].at] = Nowhere
    /\ HandOn(p, post[p].body)
    /\ post' = [post EXCEPT ![p] = Gone]
    /\ UNCHANGED <<behind, run, known, failures, refused, sent, faults>>

Filtering(p) ==
    \/ At(p, "arrived") /\ post[p].origin # Self(post[p].at) /\ behind[post[p].at] # Nowhere
    \/ At(p, "look")

\* filterByCache, heartbeat by heartbeat: those that are known are dropped, the others
\* become known
\* mutant: nothing is known
LookNever(p) ==
    /\ Filtering(p)
    /\ \E h \in post[p].todo :
          post' = [post EXCEPT ![p].pc = "set", ![p].todo = @ \ {h}, ![p].new = @ \union {h}]
    /\ UNCHANGED <<behind, run, known, failures, handed, refused, sent, faults>>

Look(p) ==
    /\ Filtering(p)
    /\ \E h \in post[p].todo :
          post' = IF h \in known[post[p].at] THEN [post EXCEPT ![p].pc = "look", ![p].todo = @ \ {h}]
                  ELSE [post EXCEPT ![p].pc = "set", ![p].todo = @ \ {h}, ![p].new = @ \union {h}]
    /\ UNCHANGED <<behind, run, known, failures, handed, refused, sent, faults>>

SetKnown(p) ==
    /\ At(p, "set")
    /\ known' = [known EXCEPT ![post[p].at] = @ \union post[p].new]
    /\ post' = [post EXCEPT ![p].pc = "look"]
    /\ UNCHANGED <<behind, run, failures, handed, refused, sent, faults>>

\* nothing is new: the request is handled as it came; else what is new is relayed, and
\* handled
Relayed(p) ==
    /\ At(p, "look") /\ post[p].todo = {}
    /\ IF post[p].new = {}
       THEN HandOn(p, post[p].body) /\ post' = [post EXCEPT ![p] = Gone]
       ELSE HandOn(p, post[p].new) /\ post' = [post EXCEPT ![p].pc = "send"]
    /\ UNCHANGED <<behind, run, known, failures, refused, sent, faults>>

\* the goroutine send: an origin is passed on, or is the own; or the request gets lost,
\* or is answered with an error.  It is not repeated.
Send(p) ==
    LET s == post[p].at
        origin == IF post[p].origin = NoOrigin THEN Self(s) ELSE post[p].origin
        fault == Fault /\ post' = [post EXCEPT ![p] = Gone]
    IN /\ At(p, "send")
       /\ \/ /\ post' = [post EXCEPT ![p] =
                    IF behind[s] \in Servers
                    THEN Arrived(behind[s], origin, post[p].new, post[p].passed) ELSE Gone]
             /\ UNCHANGED <<refused, faults>>
          \/ fault /\ UNCHANGED refused
          \/ fault /\ refused' = refused \union {[by |-> p, at |-> s, pc |-> "look"]}
       /\ UNCHANGED <<behind, run, known, failures, handed, sent>>

\* the counter is looked up, set to zero if it was not there, and incremented
LookFailures ==
    /\ \E r \in refused :
          /\ r.pc = "look"
          /\ refused' = (refused \ {r}) \union
                {[r EXCEPT !.pc = IF failures[r.at] = -1 THEN "zero" ELSE "count"]}
    /\ UNCHANGED <<behind, run, known, failures, handed, post, sent, faults>>

ZeroFailures ==
    /\ \E r \in refused :
          /\ r.pc = "zero"
          /\ refused' = (refused \ {r}) \union {[r EXCEPT !.pc = "count"]}
          /\ failures' = [failures EXCEPT ![r.at] = 0]
    /\ UNCHANGED <<behind, run, known, handed, post, sent, faults>>

\* the failure that reaches the maximum has the key removed, by an event that
\* services/user.go receives
CountFailure ==
    /\ \E r \in refused :
          /\ r.pc = "count" /\ refused' = refused \ {r}
          /\ failures' = [failures EXCEPT ![r.at] = @ + 1]
          /\ behind' = IF failures[r.at] + 1 = MaxFailures THEN [behind EXCEPT ![r.at] = Nowhere]
                       ELSE behind
    /\ UNCHANGED <<run, known, handed, post, sent, faults>>

\* an entry ends after ten minutes: whatever relayed it has arrived or timed out
Forget ==
    /\ \E s \in Servers : \E h \in known[s] :
          /\ \A p \in Posts : s \notin post[p].passed
          /\ known' = [known EXCEPT ![s] = @ \ {h}]
    /\ UNCHANGED <<behind, run, failures, handed, post, refused, sent, faults>>

\* a server starts again: what it was doing and its caches are lost, its id is another
Restart(s) ==
    /\ Fault
    /\ run' = [run EXCEPT ![s] = @ + 1]
    /\ known' = [known EXCEPT ![s] = {}] /\ failures' = [failures EXCEPT ![s] = -1]
    /\ post' = [p \in Posts |-> IF post[p].at = s THEN Gone ELSE post[p]]
    /\ refused' = {r \in refused : r.at # s}
    /\ UNCHANGED <<behind, handed, sent>>

Relaying(p) ==
    ServeOnly(p) \/ Look(p) \/ SetKnown(p) \/ Relayed(p) \/ Send(p)

Next ==
    \/ \E p \in Posts : Client(p) \/ Relaying(p)
    \/ LookFailures \/ ZeroFailures \/ CountFailure \/ Forget \/ \E s \in Servers : Restart(s)

Spec == Init /\ [][Next]_vars

\* requests go on
FairSpec == Spec /\ \A p \in Posts : WF_vars(Relaying(p))

----------------------------------------------------------------------------
\* Properties

TypeOK ==
    /\ \A s \in Servers : known[s] \subseteq Hashes /\ handed[s] \subseteq Hashes
    /\ \A s \in Servers : failures[s] \in -1 .. MaxLoad
    /\ \A p \in Posts : post[p].new \subseteq post[p].body /\ post[p].todo \subseteq post[p].body

\* Relaying comes to an end, also in a cycle that the post entered from outside, where
\* no server has the id it began with; and what a server handles the server behind it
\* handles too, if no request was lost and no server restarted.
RelayEnds ==
    <>[](/\ \A p \in Posts : post[p].pc \in {"idle", "gone"}
         /\ faults = 0 =>
               \A s \in Servers : behind[s] \in Servers => handed[s] \subseteq handed[behind[s]])
============================================================================
