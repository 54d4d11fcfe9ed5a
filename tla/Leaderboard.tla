---------------------------- MODULE Leaderboard ----------------------------
(***************************************************************************)
(* The public leaderboard: services/leaderboard.go with its table, and the *)
(* part of services/user.go that concerns it (Update and Delete, which     *)
(* publish the user before they write it).                                 *)
(*                                                                         *)
(* The items of a user are removed and generated anew by two goroutines    *)
(* that know nothing of each other: the scheduled generation, which goes   *)
(* through a list of users read at its start, and the handler of the       *)
(* user.update event, which acts on the published copy of the user.        *)
(***************************************************************************)
EXTENDS Integers, FiniteSets

CONSTANTS
    Users,
    Reqs,              \* requests and jobs that save or delete a user
    Readers,           \* requests that show the leaderboard
    IgnorePreference,  \* app.ignore_user_leaderboard_preference
    MaxSaves,          \* bound: calls of Update and Delete
    MaxFaults,         \* bound: failing queries
    MaxCrashes         \* bound: crashes of the server process

ASSUME ConstantsAssumption ==
    /\ IgnorePreference \in BOOLEAN
    /\ MaxSaves \in Nat /\ MaxFaults \in Nat /\ MaxCrashes \in Nat

VARIABLES
    public,   \* users.public_leaderboard, or "gone" without such a user
    items,    \* leaderboard_items: how often a user's items are there
    page,     \* the cached page: {}, or {the users on it}
    req,      \* per request: where its Update or Delete is
    handler,  \* the handler of user.update events
    comp,     \* the two calls of ComputeLeaderboard
    reader,   \* per reader: what the query has returned
    saves, faults, crashes

vars == <<public, items, page, req, handler, comp, reader, saves, faults, crashes>>

Pref      == {"on", "off"}
Computers == {"cron", "event"}

NoItems     == [total |-> 0, languages |-> 0]
IdleReq     == [pc |-> "idle", user |-> {}, pref |-> "off", delete |-> FALSE]
IdleHandler == [pc |-> "idle", user |-> {}, pref |-> "off"]
IdleComp    == [pc |-> "idle", todo |-> {}, current |-> {}]

Init ==
    /\ public \in [Users -> Pref]
    /\ items = [u \in Users |-> NoItems]
    /\ page = {}
    /\ req = [r \in Reqs |-> IdleReq]
    /\ handler = IdleHandler
    /\ comp = [c \in Computers |-> IdleComp]
    /\ reader = [r \in Readers |-> {}]
    /\ saves = 0 /\ faults = 0 /\ crashes = 0

Fault == faults < MaxFaults /\ faults' = faults + 1

\* Requests that hold the same cached object of a user see each other's values.
Shared(u)     == {req[r].pref : r \in {q \in Reqs : req[q].user = {u}}}
Listed(u)     == items[u] # NoItems
WantsToBe(u)  == public[u] = "on" \/ (IgnorePreference /\ public[u] # "gone")

----------------------------------------------------------------------------
(***************************************************************************)
(* Update and Delete of a user: any request may save any preference, be it *)
(* new or in a stale copy.  The event bus hands the copy over when the     *)
(* handler is free, and only then the row is written.                      *)
(***************************************************************************)
Begin(r, u, pref, delete) ==
    /\ req[r].pc = "idle" /\ public[u] # "gone"
    /\ saves < MaxSaves
    /\ saves' = saves + 1
    /\ req' = [req EXCEPT ![r] = [pc |-> "publish", user |-> {u}, pref |-> pref,
                                  delete |-> delete]]
    /\ UNCHANGED <<public, items, page, handler, comp, reader, faults, crashes>>

Publish(r) ==
    /\ req[r].pc = "publish"
    /\ handler.pc = "idle" /\ comp["event"].pc = "idle"
    /\ handler' = [pc |-> "check", user |-> req[r].user, pref |-> req[r].pref]
    /\ req' = [req EXCEPT ![r].pc = "write"]
    /\ UNCHANGED <<public, items, page, comp, reader, saves, faults, crashes>>

WriteUser(r) ==
    \E u \in req[r].user :
        /\ req[r].pc = "write"
        /\ req' = [req EXCEPT ![r] = IdleReq]
        /\ \/ /\ ~ req[r].delete
              /\ \/ public[u] = "gone" /\ UNCHANGED public
                 \/ public[u] # "gone" /\ \E p \in Shared(u) : public' = [public EXCEPT ![u] = p]
              /\ UNCHANGED <<items, faults>>
           \/ /\ req[r].delete
              /\ public' = [public EXCEPT ![u] = "gone"]
              /\ items' = [items EXCEPT ![u] = NoItems]
              /\ UNCHANGED faults
           \/ Fault /\ UNCHANGED <<public, items>>
        /\ UNCHANGED <<page, handler, comp, reader, saves, crashes>>

----------------------------------------------------------------------------
(***************************************************************************)
(* The handler of user.update events.  A failing count is taken for none.  *)
(***************************************************************************)
Compute(c, users) ==
    comp' = [comp EXCEPT ![c] = [pc |-> "delete", todo |-> users, current |-> {}]]

CheckListed ==
    /\ handler.pc = "check"
    /\ \E u \in handler.user, exists \in BOOLEAN :
          \E pref \in {handler.pref} \union Shared(u) :
            /\ \/ exists = Listed(u) /\ UNCHANGED faults
               \/ ~ exists /\ Fault
            /\ \/ /\ pref = "on" /\ ~ exists
                  /\ Compute("event", {u})
                  /\ handler' = IdleHandler
               \/ /\ pref = "off" /\ exists
                  /\ handler' = [handler EXCEPT !.pc = "clear"]
                  /\ UNCHANGED comp
               \/ /\ (pref = "on") = exists
                  /\ handler' = IdleHandler
                  /\ UNCHANGED comp
    /\ UNCHANGED <<public, items, page, req, reader, saves, crashes>>

ClearListed ==
    /\ handler.pc = "clear"
    /\ handler' = IdleHandler
    /\ page' = {}
    /\ \/ /\ \E u \in handler.user : items' = [items EXCEPT ![u] = NoItems]
          /\ UNCHANGED faults
       \/ Fault /\ UNCHANGED items
    /\ UNCHANGED <<public, req, comp, reader, saves, crashes>>

----------------------------------------------------------------------------
(***************************************************************************)
(* ComputeLeaderboard, run by the scheduled generation and by the handler. *)
(***************************************************************************)
\* mutant: only users who are not listed yet
StartGenerationMissing ==
    /\ comp["cron"].pc = "idle"
    /\ Compute("cron", {u \in Users : WantsToBe(u) /\ ~ Listed(u)})
    /\ UNCHANGED <<public, items, page, req, handler, reader, saves, faults, crashes>>

StartGeneration ==
    /\ comp["cron"].pc = "idle"
    /\ \/ Compute("cron", {u \in Users : WantsToBe(u)}) /\ UNCHANGED faults
       \/ Fault /\ UNCHANGED comp
    /\ UNCHANGED <<public, items, page, req, handler, reader, saves, crashes>>

compRest == <<req, handler, reader, saves, crashes>>

\* on to the next user
Skip(c, u) == comp' = [comp EXCEPT ![c].pc = "delete", ![c].todo = @ \ {u}, ![c].current = {}]

\* mutant: the items of a user who has none of one kind are not removed first
DeleteItemsLazily(c, u) ==
    /\ comp[c].pc = "delete" /\ u \in comp[c].todo
    /\ comp' = [comp EXCEPT ![c].pc = "total", ![c].todo = @ \ {u}, ![c].current = {u}]
    /\ items' = [items EXCEPT ![u] = IF @.languages = 0 THEN @ ELSE NoItems]
    /\ UNCHANGED <<compRest, public, page, faults>>

DeleteItems(c, u) ==
    /\ comp[c].pc = "delete" /\ u \in comp[c].todo
    /\ \/ /\ comp' = [comp EXCEPT ![c].pc = "total", ![c].todo = @ \ {u}, ![c].current = {u}]
          /\ items' = [items EXCEPT ![u] = NoItems]
          /\ UNCHANGED faults
       \/ Fault /\ Skip(c, u) /\ UNCHANGED items
    /\ UNCHANGED <<compRest, public, page>>

\* mutant: the user is inserted with its id only
InsertBare(u, added) ==
    /\ items' = [items EXCEPT ![u] = added]
    /\ public' = [public EXCEPT ![u] = IF @ = "gone" THEN "null" ELSE @]

\* gorm inserts the user of an item as well when there is none with that id, and
\* takes the column's default, true, for a preference of false
Insert(u, added) ==
    /\ items' = [items EXCEPT ![u] = added]
    /\ public' = [public EXCEPT ![u] = IF @ = "gone" THEN "on" ELSE @]

InsertTotal(c, u) ==
    /\ comp[c].pc = "total" /\ u \in comp[c].current
    /\ \/ /\ Insert(u, [items[u] EXCEPT !.total = @ + 1])
          /\ comp' = [comp EXCEPT ![c].pc = "languages"]
          /\ UNCHANGED faults
       \/ Fault /\ Skip(c, u) /\ UNCHANGED <<items, public>>
    /\ UNCHANGED <<compRest, page>>

\* no item is generated for a user without a language
InsertLanguages(c, u) ==
    /\ comp[c].pc = "languages" /\ u \in comp[c].current
    /\ Skip(c, u)
    /\ \/ Insert(u, [items[u] EXCEPT !.languages = @ + 1]) /\ UNCHANGED faults
       \/ UNCHANGED <<items, public, faults>>
       \/ Fault /\ UNCHANGED <<items, public>>
    /\ UNCHANGED <<compRest, page>>

\* mutant: the cached pages are kept until they expire
EndComputeQuietly(c) ==
    /\ comp[c].pc = "delete" /\ comp[c].todo = {}
    /\ comp' = [comp EXCEPT ![c] = IdleComp]
    /\ UNCHANGED <<compRest, page, public, items, faults>>

EndCompute(c) ==
    /\ comp[c].pc = "delete" /\ comp[c].todo = {}
    /\ comp' = [comp EXCEPT ![c] = IdleComp]
    /\ page' = {}
    /\ UNCHANGED <<compRest, public, items, faults>>

----------------------------------------------------------------------------
(***************************************************************************)
(* GetAggregatedByInterval: query, then fill the cache.  A page that is    *)
(* cached is shown, which changes nothing.                                 *)
(***************************************************************************)
ReadPage(r) ==
    /\ page = {} /\ reader[r] = {}
    /\ reader' = [reader EXCEPT ![r] = {{u \in Users : items[u].total > 0}}]
    /\ UNCHANGED <<public, items, page, req, handler, comp, saves, faults, crashes>>

FillPage(r) ==
    /\ reader[r] # {}
    /\ page' = reader[r]
    /\ reader' = [reader EXCEPT ![r] = {}]
    /\ UNCHANGED <<public, items, req, handler, comp, saves, faults, crashes>>

Expire ==
    /\ page # {}
    /\ page' = {}
    /\ UNCHANGED <<public, items, req, handler, comp, reader, saves, faults, crashes>>

Crash ==
    /\ crashes < MaxCrashes
    /\ crashes' = crashes + 1
    /\ page' = {}
    /\ req' = [r \in Reqs |-> IdleReq]
    /\ handler' = IdleHandler
    /\ comp' = [c \in Computers |-> IdleComp]
    /\ reader' = [r \in Readers |-> {}]
    /\ UNCHANGED <<public, items, saves, faults>>

ReqStep(r)     == Publish(r) \/ WriteUser(r)
HandlerStep    == CheckListed \/ ClearListed
ComputeStep(c) == EndCompute(c) \/ \E u \in Users : DeleteItems(c, u) \/ InsertTotal(c, u)
                                                    \/ InsertLanguages(c, u)

Next ==
    \/ \E r \in Reqs, u \in Users, p \in Pref, d \in BOOLEAN : Begin(r, u, p, d)
    \/ \E r \in Reqs : ReqStep(r)
    \/ HandlerStep \/ StartGeneration
    \/ \E c \in Computers : ComputeStep(c)
    \/ \E r \in Readers : ReadPage(r) \/ FillPage(r)
    \/ Expire \/ Crash

Spec == Init /\ [][Next]_vars

\* The cron library fires for ever, and the Go scheduler starves no goroutine.
Fairness ==
    /\ WF_vars(StartGeneration) /\ WF_vars(HandlerStep)
    /\ \A r \in Reqs : WF_vars(ReqStep(r))
    /\ \A c \in Computers : WF_vars(ComputeStep(c))
    /\ \A r \in Readers : WF_vars(FillPage(r))

FairSpec == Spec /\ Fairness

----------------------------------------------------------------------------
(***************************************************************************)
(* Properties.                                                             *)
(***************************************************************************)
Column    == Pref \union {"gone"}
Items     == [total : Nat, languages : Nat]
CompState == [pc : {"idle", "delete", "total", "languages"}, todo : SUBSET Users,
              current : SUBSET Users]
ReqState  == [pc : {"idle", "publish", "write"}, user : SUBSET Users, pref : Pref,
              delete : BOOLEAN]

\* Every variable stays within its type (the column, the table, each goroutine).
TypeOK ==
    /\ public \in [Users -> Column]
    /\ items \in [Users -> Items]
    /\ page \in SUBSET SUBSET Users
    /\ req \in [Reqs -> ReqState]
    /\ handler \in [pc : {"idle", "check", "clear"}, user : SUBSET Users, pref : Pref]
    /\ comp \in [Computers -> CompState]
    /\ reader \in [Readers -> SUBSET SUBSET Users]
    /\ saves \in Nat /\ faults \in Nat /\ crashes \in Nat

\* The table has no key that keeps an item from being inserted twice (a TODO of
\* GetAllAggregatedByInterval asks for it); the two goroutines can leave an item
\* twice, but removing the items first keeps the copies from piling up.
AtMostTwo == \A u \in Users : items[u].total <= 2 /\ items[u].languages <= 2

\* "Statistics are updated at least every 12 hours": a user who stays opted in is
\* listed again and again, and in the end never twice, whatever failed before.
ListedOnce(u) ==
    <>[](public[u] = "on") =>
        /\ []<>(items[u].total = 1)
        /\ <>[](items[u].total <= 1 /\ items[u].languages <= 1)

EachListedOnce == \A u \in Users : ListedOnce(u)

\* A page filled from an old query does not outlive the next generation: a user
\* whose items are gone for good disappears from the cached page, too, even if
\* the page never expires.
PagesForget == \A u \in Users : <>[](items[u] = NoItems) => <>[](u \notin UNION page)

\* The leaderboard shows users "given they opted in to get listed": a user who
\* stays opted out is off the list in the end.
OptedOutIsDropped == \A u \in Users : <>[](public[u] = "off") => <>[](~ Listed(u))
============================================================================
