------------------------- MODULE LeaderboardProofs -------------------------
(***************************************************************************)
(* Proofs about Leaderboard for every number of users, requests, failing   *)
(* queries and crashes, whether preferences are ignored or not.            *)
(***************************************************************************)
EXTENDS Leaderboard, TLAPS

\* What a goroutine that has removed a user's items may still insert.
TotalDue(c, u) == IF comp[c].pc = "total" /\ u \in comp[c].current THEN 1 ELSE 0

LanguagesDue(c, u) ==
    IF comp[c].pc \in {"total", "languages"} /\ u \in comp[c].current THEN 1 ELSE 0

\* What is there and what is still due never exceeds one per goroutine.
DueBounded ==
    \A u \in Users :
        /\ items[u].total + TotalDue("cron", u) + TotalDue("event", u) <= 2
        /\ items[u].languages + LanguagesDue("cron", u) + LanguagesDue("event", u) <= 2

----------------------------------------------------------------------------
LEMMA InitTypes == Init => TypeOK
  BY ConstantsAssumption
     DEF Init, TypeOK, Column, Items, CompState, ReqState, Pref, NoItems, IdleReq,
         IdleHandler, IdleComp

LEMMA RequestTypes ==
  ASSUME TypeOK, NEW r \in Reqs,
         ReqStep(r) \/ \E u \in Users, p \in Pref, d \in BOOLEAN : Begin(r, u, p, d)
  PROVE  TypeOK'
  <1>1. ASSUME NEW u \in Users, NEW p \in Pref, NEW d \in BOOLEAN, Begin(r, u, p, d)
        PROVE  TypeOK'
    <2>1. [pc |-> "publish", user |-> {u}, pref |-> p, delete |-> d] \in ReqState
      BY DEF ReqState
    <2> QED BY <1>1, <2>1 DEF Begin, TypeOK
  <1>2. CASE Publish(r)
    <2>1. req[r] \in ReqState
      BY DEF TypeOK
    <2>2. [req[r] EXCEPT !.pc = "write"] \in ReqState
      BY <2>1 DEF ReqState
    <2>3. handler' \in [pc : {"idle", "check", "clear"}, user : SUBSET Users, pref : Pref]
      BY <1>2, <2>1 DEF Publish, ReqState
    <2>4. req' \in [Reqs -> ReqState]
      BY <1>2, <2>2 DEF Publish, TypeOK
    <2> QED BY <1>2, <2>3, <2>4 DEF Publish, TypeOK
  <1>3. CASE WriteUser(r)
    <2>1. PICK u \in req[r].user :
            /\ req' = [req EXCEPT ![r] = IdleReq]
            /\ \/ UNCHANGED public
               \/ \E p \in Shared(u) \union {"gone"} : public' = [public EXCEPT ![u] = p]
            /\ items' \in {items, [items EXCEPT ![u] = NoItems]}
            /\ faults' = faults \/ Fault
            /\ UNCHANGED <<page, handler, comp, reader, saves, crashes>>
      BY <1>3 DEF WriteUser
    <2>2. u \in Users /\ Shared(u) \subseteq Pref /\ IdleReq \in ReqState /\ NoItems \in Items
      BY <2>1 DEF TypeOK, ReqState, Shared, IdleReq, NoItems, Items, Pref
    <2>3. public' \in [Users -> Column]
      BY <2>1, <2>2 DEF TypeOK, Column
    <2>4. items' \in [Users -> Items]
      BY <2>1, <2>2 DEF TypeOK
    <2>5. faults' \in Nat
      BY <2>1 DEF TypeOK, Fault
    <2>6. req' \in [Reqs -> ReqState]
      BY <2>1, <2>2 DEF TypeOK
    <2> QED BY <2>1, <2>3, <2>4, <2>5, <2>6 DEF TypeOK
  <1> QED BY <1>1, <1>2, <1>3 DEF ReqStep

LEMMA ComputeTypes ==
  ASSUME TypeOK, NEW c \in Computers, NEW users \in SUBSET Users, Compute(c, users)
  PROVE  comp' \in [Computers -> CompState]
  <1>1. [pc |-> "delete", todo |-> users, current |-> {}] \in CompState
    BY DEF CompState
  <1> QED BY <1>1 DEF Compute, TypeOK

LEMMA HandlerTypes == ASSUME TypeOK, HandlerStep PROVE TypeOK'
  <1> DEFINE States == [pc : {"idle", "check", "clear"}, user : SUBSET Users, pref : Pref]
  <1>1. handler \in States /\ handler.user \subseteq Users /\ IdleHandler \in States
    BY DEF TypeOK, IdleHandler, Pref
  <1>2. CASE CheckListed
    <2>1. PICK u \in handler.user :
            /\ \/ Compute("event", {u}) /\ handler' = IdleHandler
               \/ handler' \in {IdleHandler, [handler EXCEPT !.pc = "clear"]} /\ UNCHANGED comp
            /\ faults' = faults \/ Fault
      BY <1>2 DEF CheckListed
    <2>2. handler' \in States
      <3>1. [handler EXCEPT !.pc = "clear"] \in States
        BY <1>1
      <3> QED BY <1>1, <2>1, <3>1
    <2>3. comp' \in [Computers -> CompState]
      <3>1. {u} \in SUBSET Users /\ "event" \in Computers
        BY <1>1, <2>1 DEF Computers
      <3>3. ASSUME Compute("event", {u})
            PROVE  comp' \in [Computers -> CompState]
        BY <3>1, <3>3, ComputeTypes
      <3>4. CASE UNCHANGED comp
        BY <3>4 DEF TypeOK
      <3> QED BY <2>1, <3>3, <3>4
    <2>4. faults' \in Nat
      BY <2>1 DEF TypeOK, Fault
    <2> QED BY <1>2, <2>2, <2>3, <2>4 DEF CheckListed, TypeOK
  <1>3. CASE ClearListed
    <2>1. NoItems \in Items
      BY DEF NoItems, Items
    <2>2. items' \in [Users -> Items]
      <3>1. ASSUME NEW u \in handler.user, items' = [items EXCEPT ![u] = NoItems]
            PROVE  items' \in [Users -> Items]
        BY <2>1, <3>1 DEF TypeOK
      <3>2. CASE UNCHANGED items
        BY <3>2 DEF TypeOK
      <3> QED BY <1>3, <3>1, <3>2 DEF ClearListed
    <2>3. faults' \in Nat
      BY <1>3 DEF ClearListed, TypeOK, Fault
    <2> QED BY <1>1, <1>3, <2>2, <2>3 DEF ClearListed, TypeOK
  <1> QED BY <1>2, <1>3 DEF HandlerStep

LEMMA GenerationTypes == ASSUME TypeOK, StartGeneration PROVE TypeOK'
  <1>1. {u \in Users : WantsToBe(u)} \in SUBSET Users /\ "cron" \in Computers
    BY DEF Computers
  <1>3. comp' \in [Computers -> CompState]
    <2>1. CASE Compute("cron", {u \in Users : WantsToBe(u)})
      BY <1>1, <2>1, ComputeTypes
    <2>2. CASE UNCHANGED comp
      BY <2>2 DEF TypeOK
    <2> QED BY <2>1, <2>2 DEF StartGeneration
  <1>4. faults' \in Nat
    BY DEF StartGeneration, TypeOK, Fault
  <1> QED BY <1>3, <1>4 DEF StartGeneration, TypeOK

\* Going on to the next user changes the goroutine's own record only.
LEMMA SkipTypes ==
  ASSUME TypeOK, NEW c \in Computers, NEW u \in Users, Skip(c, u)
  PROVE  /\ comp' \in [Computers -> CompState]
         /\ comp'[c].pc = "delete" /\ comp'[c].current = {}
         /\ \A d \in Computers \ {c} : comp'[d] = comp[d]
  <1>1. comp[c] \in CompState
    BY DEF TypeOK
  <1>2. comp' = [comp EXCEPT ![c] = [comp[c] EXCEPT !.pc = "delete", !.todo = @ \ {u},
                                                    !.current = {}]]
    BY DEF Skip
  <1>3. [comp[c] EXCEPT !.pc = "delete", !.todo = @ \ {u}, !.current = {}] \in CompState
    BY <1>1 DEF CompState
  <1>4. [comp[c] EXCEPT !.pc = "delete", !.todo = @ \ {u}, !.current = {}].pc = "delete"
    BY <1>1 DEF CompState
  <1>5. [comp[c] EXCEPT !.pc = "delete", !.todo = @ \ {u}, !.current = {}].current = {}
    BY <1>1 DEF CompState
  <1> QED BY <1>2, <1>3, <1>4, <1>5 DEF TypeOK

LEMMA DeleteTypes ==
  ASSUME TypeOK, NEW c \in Computers, NEW u \in Users, DeleteItems(c, u)
  PROVE  /\ TypeOK'
         /\ \A d \in Computers \ {c} : comp'[d] = comp[d]
         /\ \/ /\ comp'[c].current = {u}
               /\ items' = [items EXCEPT ![u] = NoItems]
            \/ /\ comp'[c].current = {}
               /\ UNCHANGED items
  <1>1. comp[c] \in CompState /\ NoItems \in Items
    BY DEF TypeOK, NoItems, Items
  <1> DEFINE on == [comp[c] EXCEPT !.pc = "total", !.todo = @ \ {u}, !.current = {u}]
  <1>2. on \in CompState
    BY <1>1 DEF CompState
  <1>3. on.current = {u}
    BY <1>1 DEF CompState
  <1> HIDE DEF on
  <1>4. CASE comp' = [comp EXCEPT ![c] = on] /\ items' = [items EXCEPT ![u] = NoItems]
             /\ UNCHANGED faults
    BY <1>1, <1>2, <1>3, <1>4 DEF DeleteItems, compRest, TypeOK
  <1>5. CASE Fault /\ Skip(c, u) /\ UNCHANGED items
    <2>1. faults' \in Nat
      BY <1>5 DEF Fault, TypeOK
    <2> QED BY <1>5, <2>1, SkipTypes DEF DeleteItems, compRest, TypeOK
  <1> QED BY <1>4, <1>5 DEF DeleteItems, on

LEMMA InsertTypes ==
  ASSUME TypeOK, NEW u \in Users, NEW added \in Items,
         Insert(u, added)
  PROVE  items' \in [Users -> Items] /\ public' \in [Users -> Column]
  BY DEF Insert, TypeOK, Column, Pref

LEMMA TotalTypes ==
  ASSUME TypeOK, NEW c \in Computers, NEW u \in Users, InsertTotal(c, u)
  PROVE  /\ TypeOK'
         /\ \A d \in Computers \ {c} : comp'[d] = comp[d]
         /\ \/ /\ comp'[c].pc = "languages" /\ comp'[c].current = comp[c].current
               /\ items' = [items EXCEPT ![u] = [items[u] EXCEPT !.total = @ + 1]]
            \/ /\ comp'[c].current = {}
               /\ UNCHANGED items
  <1>1. comp[c] \in CompState /\ items[u] \in Items
    BY DEF TypeOK
  <1> DEFINE on == [comp[c] EXCEPT !.pc = "languages"]
             more == [items[u] EXCEPT !.total = @ + 1]
  <1>2. on \in CompState /\ on.pc = "languages" /\ on.current = comp[c].current
    BY <1>1 DEF CompState
  <1>3. more \in Items
    BY <1>1 DEF Items
  <1> HIDE DEF on, more
  <1>4. CASE Insert(u, more) /\ comp' = [comp EXCEPT ![c] = on] /\ UNCHANGED faults
    <2>1. items' \in [Users -> Items] /\ public' \in [Users -> Column]
      BY <1>3, <1>4, InsertTypes
    <2> QED BY <1>2, <1>4, <2>1 DEF InsertTotal, Insert, compRest, TypeOK, more
  <1>5. CASE Fault /\ Skip(c, u) /\ UNCHANGED <<items, public>>
    <2>1. faults' \in Nat
      BY <1>5 DEF Fault, TypeOK
    <2> QED BY <1>5, <2>1, SkipTypes DEF InsertTotal, compRest, TypeOK
  <1> QED BY <1>4, <1>5 DEF InsertTotal, on, more

LEMMA LanguagesTypes ==
  ASSUME TypeOK, NEW c \in Computers, NEW u \in Users, InsertLanguages(c, u)
  PROVE  /\ TypeOK'
         /\ \A d \in Computers \ {c} : comp'[d] = comp[d]
         /\ comp'[c].current = {}
         /\ items' \in {items, [items EXCEPT ![u] = [items[u] EXCEPT !.languages = @ + 1]]}
  <1>1. items[u] \in Items
    BY DEF TypeOK
  <1> DEFINE more == [items[u] EXCEPT !.languages = @ + 1]
  <1>2. more \in Items
    BY <1>1 DEF Items
  <1> HIDE DEF more
  <1>3. /\ comp' \in [Computers -> CompState] /\ comp'[c].current = {}
        /\ \A d \in Computers \ {c} : comp'[d] = comp[d]
    BY SkipTypes DEF InsertLanguages
  <1>4. CASE Insert(u, more) /\ UNCHANGED faults
    <2>1. items' \in [Users -> Items] /\ public' \in [Users -> Column]
      BY <1>2, <1>4, InsertTypes
    <2> QED BY <1>3, <1>4, <2>1 DEF InsertLanguages, Insert, compRest, TypeOK, more
  <1>5. CASE UNCHANGED <<items, public>> /\ (UNCHANGED faults \/ Fault)
    <2>1. faults' \in Nat
      BY <1>5 DEF Fault, TypeOK
    <2> QED BY <1>3, <1>5, <2>1 DEF InsertLanguages, compRest, TypeOK
  <1> QED BY <1>4, <1>5 DEF InsertLanguages, more

LEMMA EndTypes ==
  ASSUME TypeOK, NEW c \in Computers, EndCompute(c)
  PROVE  TypeOK' /\ comp' = [comp EXCEPT ![c] = IdleComp]
  <1>1. IdleComp \in CompState
    BY DEF IdleComp, CompState, Column, Pref
  <1> QED BY <1>1 DEF EndCompute, compRest, TypeOK

LEMMA RestTypes ==
  ASSUME TypeOK, (\E r \in Readers : ReadPage(r) \/ FillPage(r)) \/ Expire \/ Crash
  PROVE  TypeOK'
  <1>1. CASE \E r \in Readers : ReadPage(r) \/ FillPage(r)
    BY <1>1 DEF ReadPage, FillPage, TypeOK
  <1>2. CASE Expire
    BY <1>2 DEF Expire, TypeOK
  <1>3. CASE Crash
    <2>1. IdleComp \in CompState /\ IdleReq \in ReqState
      BY DEF IdleComp, IdleReq, CompState, ReqState, Column, Pref
    <2> QED BY <1>3, <2>1 DEF Crash, TypeOK, IdleHandler, Pref
  <1> QED BY <1>1, <1>2, <1>3

LEMMA NextTypes == ASSUME TypeOK, [Next]_vars PROVE TypeOK'
  <1>1. ASSUME NEW c \in Computers, ComputeStep(c) PROVE TypeOK'
    BY <1>1, DeleteTypes, TotalTypes, LanguagesTypes, EndTypes DEF ComputeStep
  <1>2. CASE UNCHANGED vars
    BY <1>2 DEF vars, TypeOK
  <1> QED BY <1>1, <1>2, RequestTypes, HandlerTypes, GenerationTypes, RestTypes DEF Next

\* Every variable stays within its type.
THEOREM TypeCorrect == Spec => []TypeOK
  BY InitTypes, NextTypes, PTL DEF Spec

----------------------------------------------------------------------------
(***************************************************************************)
(* No more than two copies of an item: each goroutine inserts at most once *)
(* what it has removed.                                                    *)
(***************************************************************************)
LEMMA DueRange ==
  ASSUME NEW c, NEW u
  PROVE  TotalDue(c, u) \in {0, 1} /\ LanguagesDue(c, u) \in {0, 1}
  BY DEF TotalDue, LanguagesDue

LEMMA CountsAreNat ==
  ASSUME TypeOK, NEW u \in Users
  PROVE  items[u].total \in Nat /\ items[u].languages \in Nat
  BY DEF TypeOK, Items

\* A step that inserts nothing and makes no goroutine owe more.
LEMMA NothingInserted ==
  ASSUME TypeOK, TypeOK', DueBounded,
         \A u \in Users : items'[u] = items[u] \/ items'[u] = NoItems,
         \A c \in Computers : comp'[c] = comp[c] \/ comp'[c].current = {}
  PROVE  DueBounded'
  <1> SUFFICES ASSUME NEW u \in Users
               PROVE  /\ (items[u].total + TotalDue("cron", u) + TotalDue("event", u) <= 2)'
                      /\ (items[u].languages + LanguagesDue("cron", u)
                            + LanguagesDue("event", u) <= 2)'
    BY DEF DueBounded
  <1>1. ASSUME NEW c \in Computers
        PROVE  /\ TotalDue(c, u)' \in {0, TotalDue(c, u)}
               /\ LanguagesDue(c, u)' \in {0, LanguagesDue(c, u)}
    BY DEF TotalDue, LanguagesDue
  <1>2. /\ items'[u].total \in {0, items[u].total}
        /\ items'[u].languages \in {0, items[u].languages}
    BY DEF NoItems
  <1>3. items[u].total + TotalDue("cron", u) + TotalDue("event", u) <= 2
    BY DEF DueBounded
  <1>4. items[u].languages + LanguagesDue("cron", u) + LanguagesDue("event", u) <= 2
    BY DEF DueBounded
  <1> QED BY <1>1, <1>2, <1>3, <1>4, CountsAreNat, DueRange DEF Computers

LEMMA DeleteBounded ==
  ASSUME TypeOK, TypeOK', DueBounded, NEW c \in Computers, NEW u \in Users, DeleteItems(c, u)
  PROVE  DueBounded'
  <1>1. CASE UNCHANGED items /\ comp'[c].current = {}
    BY <1>1, DeleteTypes, NothingInserted
  <1>2. CASE items' = [items EXCEPT ![u] = NoItems] /\ comp'[c].current = {u}
    <2> SUFFICES ASSUME NEW v \in Users
                 PROVE  /\ (items[v].total + TotalDue("cron", v) + TotalDue("event", v) <= 2)'
                        /\ (items[v].languages + LanguagesDue("cron", v)
                              + LanguagesDue("event", v) <= 2)'
      BY DEF DueBounded
    <2>1. CASE v = u
      <3>1. items'[u].total = 0 /\ items'[u].languages = 0
        BY <1>2 DEF TypeOK, NoItems
      <3>2. \A d \in Computers : TotalDue(d, u)' \in {0, 1} /\ LanguagesDue(d, u)' \in {0, 1}
        BY DEF TotalDue, LanguagesDue
      <3> QED BY <2>1, <3>1, <3>2 DEF Computers
    <2>2. CASE v # u
      <3>1. items'[v] = items[v]
        BY <1>2, <2>2 DEF TypeOK
      <3>2. TotalDue(c, v)' = 0 /\ LanguagesDue(c, v)' = 0
        BY <1>2, <2>2 DEF TotalDue, LanguagesDue
      <3>3. \A d \in Computers \ {c} : /\ TotalDue(d, v)' = TotalDue(d, v)
                                       /\ LanguagesDue(d, v)' = LanguagesDue(d, v)
        BY DeleteTypes DEF TotalDue, LanguagesDue
      <3>4. /\ items[v].total + TotalDue("cron", v) + TotalDue("event", v) <= 2
            /\ items[v].languages + LanguagesDue("cron", v) + LanguagesDue("event", v) <= 2
        BY DEF DueBounded
      <3> QED BY <3>1, <3>2, <3>3, <3>4, CountsAreNat, DueRange DEF Computers
    <2> QED BY <2>1, <2>2
  <1> QED BY <1>1, <1>2, DeleteTypes

LEMMA TotalBounded ==
  ASSUME TypeOK, TypeOK', DueBounded, NEW c \in Computers, NEW u \in Users, InsertTotal(c, u)
  PROVE  DueBounded'
  <1>1. CASE UNCHANGED items /\ comp'[c].current = {}
    BY <1>1, TotalTypes, NothingInserted
  <1>2. CASE /\ items' = [items EXCEPT ![u] = [items[u] EXCEPT !.total = @ + 1]]
             /\ comp'[c].pc = "languages" /\ comp'[c].current = comp[c].current
    <2> SUFFICES ASSUME NEW v \in Users
                 PROVE  /\ (items[v].total + TotalDue("cron", v) + TotalDue("event", v) <= 2)'
                        /\ (items[v].languages + LanguagesDue("cron", v)
                              + LanguagesDue("event", v) <= 2)'
      BY DEF DueBounded
    <2>1. comp[c].pc = "total" /\ u \in comp[c].current /\ items[u] \in Items
      BY DEF InsertTotal, TypeOK
    <2>2. /\ items'[v].languages = items[v].languages
          /\ items'[v].total = items[v].total + (IF v = u THEN 1 ELSE 0)
      <3>1. CASE v = u
        BY <1>2, <2>1, <3>1 DEF TypeOK, Items
      <3>2. CASE v # u
        BY <1>2, <3>2, CountsAreNat DEF TypeOK
      <3> QED BY <3>1, <3>2
    <2>3. /\ TotalDue(c, v)' = 0
          /\ v = u => TotalDue(c, v) = 1
          /\ LanguagesDue(c, v)' = LanguagesDue(c, v)
      BY <1>2, <2>1 DEF TotalDue, LanguagesDue
    <2>4. \A d \in Computers \ {c} : /\ TotalDue(d, v)' = TotalDue(d, v)
                                     /\ LanguagesDue(d, v)' = LanguagesDue(d, v)
      BY TotalTypes DEF TotalDue, LanguagesDue
    <2>5. /\ items[v].total + TotalDue("cron", v) + TotalDue("event", v) <= 2
          /\ items[v].languages + LanguagesDue("cron", v) + LanguagesDue("event", v) <= 2
      BY DEF DueBounded
    <2> QED BY <2>2, <2>3, <2>4, <2>5, CountsAreNat, DueRange DEF Computers
  <1> QED BY <1>1, <1>2, TotalTypes

LEMMA LanguagesBounded ==
  ASSUME TypeOK, TypeOK', DueBounded, NEW c \in Computers, NEW u \in Users,
         InsertLanguages(c, u)
  PROVE  DueBounded'
  <1>1. CASE UNCHANGED items
    BY <1>1, LanguagesTypes, NothingInserted
  <1>2. CASE items' = [items EXCEPT ![u] = [items[u] EXCEPT !.languages = @ + 1]]
    <2> SUFFICES ASSUME NEW v \in Users
                 PROVE  /\ (items[v].total + TotalDue("cron", v) + TotalDue("event", v) <= 2)'
                        /\ (items[v].languages + LanguagesDue("cron", v)
                              + LanguagesDue("event", v) <= 2)'
      BY DEF DueBounded
    <2>1. comp[c].pc = "languages" /\ u \in comp[c].current /\ items[u] \in Items
      BY DEF InsertLanguages, TypeOK
    <2>2. /\ items'[v].total = items[v].total
          /\ items'[v].languages = items[v].languages + (IF v = u THEN 1 ELSE 0)
      <3>1. CASE v = u
        BY <1>2, <2>1, <3>1 DEF TypeOK, Items
      <3>2. CASE v # u
        BY <1>2, <3>2, CountsAreNat DEF TypeOK
      <3> QED BY <3>1, <3>2
    <2>3. /\ LanguagesDue(c, v)' = 0
          /\ v = u => LanguagesDue(c, v) = 1
          /\ TotalDue(c, v)' = 0
      BY <2>1, LanguagesTypes DEF TotalDue, LanguagesDue
    <2>4. \A d \in Computers \ {c} : /\ TotalDue(d, v)' = TotalDue(d, v)
                                     /\ LanguagesDue(d, v)' = LanguagesDue(d, v)
      BY LanguagesTypes DEF TotalDue, LanguagesDue
    <2>5. /\ items[v].total + TotalDue("cron", v) + TotalDue("event", v) <= 2
          /\ items[v].languages + LanguagesDue("cron", v) + LanguagesDue("event", v) <= 2
      BY DEF DueBounded
    <2> QED BY <2>2, <2>3, <2>4, <2>5, CountsAreNat, DueRange DEF Computers
  <1> QED BY <1>1, <1>2, LanguagesTypes

LEMMA NextBounded == ASSUME TypeOK, TypeOK', DueBounded, [Next]_vars PROVE DueBounded'
  <1>1. ASSUME NEW c \in Computers, ComputeStep(c) PROVE DueBounded'
    <2>1. CASE EndCompute(c)
      <3>1. /\ UNCHANGED items
            /\ \A d \in Computers : comp'[d] = comp[d] \/ comp'[d].current = {}
        BY <2>1, EndTypes DEF EndCompute, compRest, TypeOK, IdleComp
      <3> QED BY <3>1, NothingInserted
    <2> QED BY <1>1, <2>1, DeleteBounded, TotalBounded, LanguagesBounded DEF ComputeStep
  <1>2. ASSUME NEW c \in Computers, NEW users, Compute(c, users)
        PROVE  \A d \in Computers : comp'[d] = comp[d] \/ comp'[d].current = {}
    BY <1>2 DEF Compute, TypeOK
  <1>3. CASE HandlerStep
    <2>1. \A d \in Computers : comp'[d] = comp[d] \/ comp'[d].current = {}
      <3>1. CASE UNCHANGED comp
        BY <3>1
      <3>2. CASE \E u \in handler.user : Compute("event", {u})
        BY <1>2, <3>2 DEF Computers
      <3> QED BY <1>3, <3>1, <3>2 DEF HandlerStep, CheckListed, ClearListed
    <2>2. \A u \in Users : items'[u] = items[u] \/ items'[u] = NoItems
      BY <1>3 DEF HandlerStep, CheckListed, ClearListed, TypeOK
    <2> QED BY <2>1, <2>2, NothingInserted
  <1>4. CASE StartGeneration
    <2>1. \A d \in Computers : comp'[d] = comp[d] \/ comp'[d].current = {}
      <3>1. CASE UNCHANGED comp
        BY <3>1
      <3>2. CASE Compute("cron", {u \in Users : WantsToBe(u)})
        BY <1>2, <3>2 DEF Computers
      <3> QED BY <1>4, <3>1, <3>2 DEF StartGeneration
    <2>2. UNCHANGED items
      BY <1>4 DEF StartGeneration
    <2> QED BY <2>1, <2>2, NothingInserted
  <1>5. ASSUME NEW r \in Reqs, ReqStep(r) PROVE DueBounded'
    <2>1. UNCHANGED comp
      BY <1>5 DEF ReqStep, Publish, WriteUser
    <2>2. \A u \in Users : items'[u] = items[u] \/ items'[u] = NoItems
      BY <1>5 DEF ReqStep, Publish, WriteUser, TypeOK
    <2> QED BY <2>1, <2>2, NothingInserted
  <1>6. CASE Crash
    <2>1. UNCHANGED items /\ \A d \in Computers : comp'[d].current = {}
      BY <1>6 DEF Crash, IdleComp
    <2> QED BY <2>1, NothingInserted
  <1>7. CASE UNCHANGED <<items, comp>>
    BY <1>7, NothingInserted
  <1>8. ASSUME NEW r \in Reqs, NEW u \in Users, NEW p \in Pref, NEW d \in BOOLEAN,
               Begin(r, u, p, d)
        PROVE  UNCHANGED <<items, comp>>
    BY <1>8 DEF Begin
  <1>9. ASSUME NEW r \in Readers, ReadPage(r) \/ FillPage(r) PROVE UNCHANGED <<items, comp>>
    BY <1>9 DEF ReadPage, FillPage
  <1>10. ASSUME Expire \/ UNCHANGED vars PROVE UNCHANGED <<items, comp>>
    BY <1>10 DEF Expire, vars
  <1> QED BY <1>1, <1>3, <1>4, <1>5, <1>6, <1>7, <1>8, <1>9, <1>10 DEF Next

\* However the scheduled generation and the event handler meet, and whatever
\* fails or crashes, an item is never in the table more than twice.
THEOREM ItemsBounded == Spec => []AtMostTwo
  <1>1. Init => DueBounded
    BY DEF Init, DueBounded, TotalDue, LanguagesDue, NoItems, IdleComp, Computers
  <1>2. TypeOK /\ DueBounded => AtMostTwo
    BY CountsAreNat, DueRange DEF DueBounded, AtMostTwo
  <1>3. TypeOK /\ TypeOK' /\ DueBounded /\ [Next]_vars => DueBounded'
    BY NextBounded
  <1> QED BY <1>1, <1>2, <1>3, TypeCorrect, PTL DEF Spec

=============================================================================
