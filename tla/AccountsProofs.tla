-------------------------- MODULE AccountsProofs --------------------------
(***************************************************************************)
(* Proofs about Accounts for any number of requests, changes, failing      *)
(* queries and crashes, with all handlers of the table; and, at the end,   *)
(* about MCUsers, where the theorems about Subscription and Signup meet    *)
(* those about Accounts.                                                   *)
(***************************************************************************)
EXTENDS MCUsers, FiniteSetTheorems, TLAPS

Holding == {"fill", "use", "tz", "hash", "flush", "write"}   \* states of a request that has the object
AtMostOne(objects) == objects = {} \/ \E i \in Ids : objects = {i}

\* A request has an object when its state says so, and never two; nor has the cache.
OneObject ==
    /\ AtMostOne(cache)
    /\ \A r \in Reqs :
          /\ AtMostOne(req[r].obj)
          /\ req[r].pc \in Holding => req[r].obj # {}
          /\ req[r].pc \in {"idle", "query"} => req[r].obj = {}

\* Where a handler can be, by its entry in the table.
ByTable ==
    \A r \in Reqs :
        /\ At(r, "fill") => H(r).load # "query"
        /\ At(r, "hash") => "password" \in H(r).edits
        /\ At(r, "hash") => H(r).save = "update"
        /\ At(r, "flush") => H(r).save \in {"update", "delete"}
        /\ At(r, "write") => H(r).save # "none"
        /\ At(r, "late") => H(r).late

\* The leaderboard's subscriber was told of one user at most.
OneTold == told.obj = {} \/ \E i \in Ids : told.obj = {i}

TInv == TypeOK /\ OneObject /\ OneTold

----------------------------------------------------------------------------
(***************************************************************************)
(* What keeps the copies of the row in step as long as the requests of the *)
(* user come one after the other.                                          *)
(***************************************************************************)
OneByOne == \A q, r \in Reqs : At(q, "idle") \/ At(r, "idle") \/ q = r

\* An object agrees with the row.
Fresh(i) == row # {} /\ \A w \in row : Follows(objs[i], w)

\* The cached object agrees with the row, unless a handler that has changed it is on its way
\* to a flush.
CacheClean ==
    (\A r \in Reqs : req[r].pc \notin {"hash", "flush", "late"}) => \A i \in cache : Fresh(i)

\* A request has loaded the row as it is.
LoadedFresh == \A r \in Reqs : req[r].pc \in {"fill", "use", "tz"} => \A i \in req[r].obj : Fresh(i)

\* What an update is about to write: the row with the columns that the handler changes, and no
\* password that is not hashed.
Intended(r, w, c) == IF c \in H(r).edits THEN NewValue(r, c, req[r].op) ELSE w[c]
Prepared ==
    \A r \in Reqs : req[r].pc \in {"hash", "flush", "write"} /\ H(r).save = "update" =>
        \A i \in req[r].obj, w \in row, c \in Lasting :
            (req[r].pc = "hash" /\ c = "plain") \/ Agrees(c, objs[i][c], Intended(r, w, c))

\* The cache is out of the way of who writes: it is empty, or the write is that of a reset token.
CacheApart ==
    \A r \in Reqs :
        /\ req[r].pc \in Holding /\ H(r).load = "query" => req[r].obj \intersect cache = {}
        /\ At(r, "flush") /\ H(r).save = "delete" => cache = {}
        /\ At(r, "write") => cache = {} \/ (H(r).save = "fields" /\ H(r).edits = {"token"})

\* Who is about to write "Local" into an object found no location there.
Nowhere(i) == objs[i]["location"] \in {0, Local}
Zoning == \A r \in Reqs : At(r, "tz") => \A i \in req[r].obj : Nowhere(i)

\* The object that the leaderboard was told of is neither in the cache nor changed any more.
Changing == {"fill", "use", "tz", "hash", "flush"}
ToldApart ==
    /\ told.obj \intersect cache = {}
    /\ \A r \in Reqs : req[r].pc \in Changing => req[r].obj \intersect told.obj = {}
    /\ told.pc = "tz" => \A i \in told.obj : Nowhere(i)

\* No copy has a reset token that was used, nor does a request choose one.
Unspent(t) == t \in (0 .. ops) \ used
TokensUnused ==
    /\ used \subseteq 1 .. ops
    /\ \A w \in row : Unspent(w["token"])
    /\ \A i \in cache : Unspent(objs[i]["token"])
    /\ \A r \in Reqs :
          /\ \A i \in req[r].obj : Unspent(objs[i]["token"])
          /\ req[r].pc \in {"hash", "flush", "write"} => Unspent(req[r].op)
          /\ req[r].pc \in {"hash", "flush", "write"} /\ "password" \in H(r).edits
                /\ H(r).load = "query" =>
                    \A i \in req[r].obj : objs[i]["token"] = 0

\* What is saved is in the one row.
SavedRow ==
    /\ saved["plain"] = 0
    /\ \A v, w \in row : v = w
    /\ \A w \in row : Follows(w, saved)

SInv ==
    /\ OneByOne /\ CacheClean /\ LoadedFresh /\ Prepared /\ CacheApart
    /\ Zoning /\ ToldApart /\ TokensUnused /\ SavedRow

----------------------------------------------------------------------------
(***************************************************************************)
(* The table of handlers.                                                  *)
(***************************************************************************)
\* What the proofs need of a handler: one that may refuse after a change flushes at its end;
\* a password is saved by a whole-row update, and with it the token that allowed this; who
\* saves otherwise empties the cache first, but for the token itself.
Sound(h) ==
    /\ h \in Handler
    /\ h.dirty => h.late
    /\ "password" \in h.edits => h.save = "update"
    /\ "password" \in h.edits /\ h.load = "query" => "token" \in h.edits /\ "token" \in h.clears
    /\ h.clears \subseteq {"token", "location"}
    /\ "plain" \notin h.edits
    /\ h.save \in {"fields", "delete"} =>
           h.early \/ (h.save = "fields" /\ h.load = "query" /\ h.edits = {"token"})
    /\ h.edits # {} => h.save # "none"

LEMMA TableSound == ASSUME NEW h \in Handlers PROVE Sound(Table[h])
  <1> USE DEF Sound, Handler, Saves, Cols
  <1>1. Sound(ShowPage)
    BY DEF ShowPage
  <1>2. Sound(ShowApi)
    BY DEF ShowApi, ShowPage
  <1>3. Sound(PostLogout)
    BY DEF PostLogout, ShowPage
  <1>4. Sound(PostLogin)
    BY DEF PostLogin
  <1>5. Sound(LoginByEmail)
    BY DEF LoginByEmail, PostLogin
  <1>6. Sound(ChangePassword)
    BY DEF ChangePassword
  <1>7. Sound(UpdateUser)
    BY DEF UpdateUser
  <1>8. Sound(ResetApiKey)
    BY DEF ResetApiKey
  <1>9. Sound(UpdateLeaderboard)
    BY DEF UpdateLeaderboard
  <1>10. Sound(UpdateExclude)
    BY DEF UpdateExclude
  <1>11. Sound(UpdateSharing)
    BY DEF UpdateSharing
  <1>12. Sound(SetWakatime)
    BY DEF SetWakatime
  <1>13. Sound(RelayFailed)
    BY DEF RelayFailed, SetWakatime
  <1>14. Sound(ImportFinished)
    BY DEF ImportFinished
  <1>15. Sound(PostHeartbeats)
    BY DEF PostHeartbeats, ImportFinished
  <1>16. Sound(CheckoutDone)
    BY DEF CheckoutDone
  <1>17. Sound(Webhook)
    BY DEF Webhook
  <1>18. Sound(ResetPassword)
    BY DEF ResetPassword
  <1>19. Sound(SetPassword)
    BY DEF SetPassword
  <1>20. Sound(DeleteUser)
    BY DEF DeleteUser
  <1>21. Sound(CleanInactive)
    BY DEF CleanInactive, DeleteUser
  <1>23. Sound(UpdateNowhere)
    BY DEF UpdateNowhere, UpdateUser
  <1>22. Handlers = {"show_page", "show_api", "post_logout", "post_login", "login_by_email",
                   "change_password", "update_user", "update_nowhere", "reset_apikey", "update_leaderboard", "update_exclude",
                   "update_sharing", "set_wakatime", "relay_failed", "import_finished", "post_heartbeats",
                   "checkout", "webhook", "reset_password", "set_password", "delete_user",
                   "clean_inactive"}
    BY DEF Handlers, Table
  <1> HIDE DEF Sound, Handler, Saves, Cols
  <1> QED
    BY <1>1, <1>2, <1>3, <1>4, <1>5, <1>6, <1>7, <1>8, <1>9, <1>10, <1>11, <1>12, <1>13, <1>14, <1>15, <1>16, <1>17, <1>18, <1>19, <1>20, <1>21, <1>22, <1>23
       DEF Table

----------------------------------------------------------------------------
(***************************************************************************)
(* Objects: there is always one to spare, and those that are held keep     *)
(* what is in them.                                                        *)
(***************************************************************************)
\* What a step may make of a request.
GoodReq(q) ==
    /\ q \in ReqState /\ AtMostOne(q.obj)
    /\ q.pc \in Holding => q.obj # {}
    /\ q.pc \in {"idle", "query"} => q.obj = {}

LEMMA ReqsGood == ASSUME TInv, NEW r \in Reqs PROVE GoodReq(req[r])
  BY DEF TInv, TypeOK, OneObject, GoodReq

LEMMA NewRowTyped == NewRow \in Values
  BY DEF NewRow, Values

LEMMA HandlerOfReq == ASSUME TInv, NEW r \in Reqs PROVE Sound(H(r)) /\ H(r) \in Handler
  <1>1. req[r].h \in Handlers
    BY DEF TInv, TypeOK, ReqState
  <1> QED BY <1>1, TableSound DEF H, Sound

LEMMA GoTypes ==
  ASSUME TInv, NEW r \in Reqs, NEW q, NEW cached, NEW heap, Go(r, q, cached, heap),
         GoodReq(q), AtMostOne(cached), heap \in [Ids -> Values]
  PROVE  /\ objs' \in [Ids -> Values] /\ cache' \in SUBSET Ids /\ req' \in [Reqs -> ReqState]
         /\ OneObject'
  <1>1. objs' \in [Ids -> Values]
    BY NewRowTyped DEF Go, Collected
  <1>2. cache' = cached /\ cached \in SUBSET Ids
    BY DEF Go, AtMostOne
  <1>3. req' = [req EXCEPT ![r] = q] /\ req \in [Reqs -> ReqState] /\ q \in ReqState
    BY DEF Go, TInv, TypeOK, GoodReq
  <1>4. \A p \in Reqs : GoodReq(req'[p])
    BY <1>3, ReqsGood
  <1>5. OneObject'
    BY <1>2, <1>4 DEF OneObject, GoodReq, AtMostOne
  <1> QED BY <1>1, <1>2, <1>3, <1>5

LEMMA GoEffect ==
  ASSUME TInv, NEW r \in Reqs, NEW q, NEW cached, NEW heap, Go(r, q, cached, heap)
  PROVE  /\ cache' = cached /\ req'[r] = q /\ \A p \in Reqs : p # r => req'[p] = req[p]
         /\ \A i \in Ids : i \in cached \/ (\E p \in Reqs : i \in req'[p].obj) => objs'[i] = heap[i]
         /\ \A i \in told.obj : objs'[i] = heap[i]
  <1>1. req' = [req EXCEPT ![r] = q] /\ req \in [Reqs -> ReqState] /\ told.obj \subseteq Ids
    BY DEF Go, TInv, TypeOK, Listener
  <1>2. objs' = [i \in Ids |-> IF i \in Held(req', cached, told.obj) THEN heap[i] ELSE NewRow]
    BY DEF Go, Collected
  <1>3. \A i \in Ids : i \in cached \/ i \in told.obj \/ (\E p \in Reqs : i \in req'[p].obj)
                       => i \in Held(req', cached, told.obj)
    BY DEF Held
  <1> QED BY <1>1, <1>2, <1>3 DEF Go

\* More ids than requests: a request that has no object finds one that nobody has.
LEMMA OneToSpare ==
  ASSUME TInv, NEW r \in Reqs, req[r].obj = {}
  PROVE  FreeId \in Ids /\ Free(FreeId)
  <1> DEFINE Owned(x, i) == IF i \in cache THEN r
                            ELSE IF i \in told.obj THEN x ELSE CHOOSE q \in Reqs : i \in req[q].obj
  <1>1. IsFiniteSet(Reqs) /\ Cardinality(Reqs) \in Nat
    BY ConstantsAssumption, FS_CardinalityType
  <1>2. IsFiniteSet(Ids) /\ Cardinality(Ids) = Cardinality(Reqs) + 2
    BY <1>1, FS_Interval DEF Ids
  <1>3. SUFFICES ASSUME \A i \in Ids : ~ Free(i) PROVE FALSE
    BY DEF FreeId
  <1>x. PICK x : x \notin Reqs
    BY NoSetContainsEverything
  <1> DEFINE Own(i) == Owned(x, i)
  <1>4. \A i \in Ids : Own(i) \in Reqs \union {x}
    BY <1>3 DEF Free
  <1>5. \A i \in Ids : \/ i \in cache /\ Own(i) = r
                       \/ i \in told.obj /\ Own(i) = x
                       \/ Own(i) \in Reqs \ {r} /\ i \in req[Own(i)].obj
    BY <1>3 DEF Free
  <1> HIDE DEF Own
  <1>6. PICK i, j \in Ids : i # j /\ Own(i) = Own(j)
    <2> DEFINE f == [i \in Ids |-> Own(i)]
               Owners == Reqs \union {x}
    <2>1. f \in [Ids -> Owners]
      BY <1>4
    <2>2. IsFiniteSet(Owners) /\ Cardinality(Owners) = Cardinality(Reqs) + 1
      BY <1>1, <1>x, FS_AddElement
    <2>3. Cardinality(Owners) < Cardinality(Ids)
      BY <1>1, <1>2, <2>2
    <2> HIDE DEF f, Owners
    <2>4. \E y, z \in Ids : y # z /\ f[y] = f[z]
      BY <1>2, <2>1, <2>2, <2>3, FS_PigeonHole
    <2> QED BY <2>4 DEF f
  <1>7. CASE Own(i) = r
    BY <1>5, <1>6, <1>7, <1>x DEF TInv, OneObject, AtMostOne
  <1>8. CASE Own(i) = x
    BY <1>5, <1>6, <1>8, <1>x DEF TInv, OneTold, AtMostOne
  <1>9. CASE Own(i) \in Reqs \ {r}
    BY <1>5, <1>6, <1>9, <1>x DEF TInv, OneObject, AtMostOne
  <1> QED BY <1>4, <1>7, <1>8, <1>9

----------------------------------------------------------------------------
(***************************************************************************)
(* Types.                                                                  *)
(***************************************************************************)
LEMMA IdleGood == ASSUME NEW h \in Handlers, NEW pc \in {"idle", "query"}
                  PROVE  GoodReq([Idle EXCEPT !.pc = pc, !.h = h])
  BY DEF GoodReq, Idle, ReqState, AtMostOne, Holding

LEMMA IdleItself == GoodReq(Idle)
  <1>1. "show_page" \in Handlers
    BY DEF Handlers, Table
  <1> QED BY <1>1 DEF GoodReq, Idle, ReqState, AtMostOne, Holding

LEMMA InitTypes == ASSUME Init PROVE TInv
  <1>1. Idle \in ReqState /\ Idle.obj = {} /\ Idle.pc = "idle"
    BY IdleItself DEF GoodReq, Idle
  <1>2. OneObject
    BY <1>1 DEF Init, OneObject, AtMostOne, Holding
  <1>3. row \in SUBSET Values /\ objs \in [Ids -> Values] /\ saved \in Values
    <2>1. [NewRow EXCEPT !["token"] = 1] \in Values
      BY NewRowTyped DEF Values
    <2> QED BY <2>1, NewRowTyped DEF Init
  <1> QED BY <1>1, <1>2, <1>3 DEF Init, TInv, TypeOK, OneTold, Silent, Listener

LEMMA ArriveTypes == ASSUME TInv, NEW r \in Reqs, Arrive(r) PROVE TInv'
  <1>1. PICK h \in Handlers :
          \/ /\ Go(r, [Idle EXCEPT !.pc = "use", !.h = h, !.obj = cache], cache, objs)
             /\ cache # {}
          \/ Go(r, [Idle EXCEPT !.pc = "query", !.h = h], cache, objs)
    BY MixedAssumption DEF Arrive
  <1>2. GoodReq([Idle EXCEPT !.pc = "query", !.h = h])
    BY IdleGood
  <1>3. cache # {} => GoodReq([Idle EXCEPT !.pc = "use", !.h = h, !.obj = cache])
    BY DEF GoodReq, Idle, ReqState, TInv, TypeOK, OneObject, Holding
  <1>4. AtMostOne(cache) /\ objs \in [Ids -> Values]
    BY DEF TInv, TypeOK, OneObject
  <1>5. /\ objs' \in [Ids -> Values] /\ cache' \in SUBSET Ids /\ req' \in [Reqs -> ReqState]
        /\ OneObject'
    BY <1>1, <1>2, <1>3, <1>4, GoTypes
  <1> QED BY <1>5 DEF Arrive, TInv, TypeOK, OneTold

LEMMA QueryTypes == ASSUME TInv, NEW r \in Reqs, Query(r) PROVE TInv'
  <1>1. AtMostOne(cache) /\ objs \in [Ids -> Values] /\ row \in SUBSET Values /\ GoodReq(req[r])
    BY ReqsGood DEF TInv, TypeOK, OneObject
  <1>2. /\ objs' \in [Ids -> Values] /\ cache' \in SUBSET Ids /\ req' \in [Reqs -> ReqState]
        /\ OneObject'
    <2>1. CASE Go(r, Idle, cache, objs)
      BY <1>1, <2>1, IdleItself, GoTypes
    <2>2. ASSUME NEW w \in row, NEW pc \in {"use", "fill"},
                 Go(r, [req[r] EXCEPT !.pc = pc, !.obj = {FreeId}], cache, [objs EXCEPT ![FreeId] = w])
          PROVE  /\ objs' \in [Ids -> Values] /\ cache' \in SUBSET Ids /\ req' \in [Reqs -> ReqState]
                 /\ OneObject'
      <3>1. req[r].obj = {}
        BY <1>1 DEF Query, At, GoodReq
      <3>2. FreeId \in Ids
        BY <3>1, OneToSpare
      <3>3. GoodReq([req[r] EXCEPT !.pc = pc, !.obj = {FreeId}])
        BY <1>1, <3>2 DEF GoodReq, ReqState, AtMostOne, Holding
      <3>4. [objs EXCEPT ![FreeId] = w] \in [Ids -> Values]
        BY <1>1
      <3> QED BY <1>1, <2>2, <3>3, <3>4, GoTypes
    <2>3. CASE \E w \in row : Go(r, [req[r] EXCEPT !.pc = IF H(r).load = "query" THEN "use" ELSE "fill",
                                       !.obj = {FreeId}], cache, [objs EXCEPT ![FreeId] = w])
      <3>1. PICK w \in row : Go(r, [req[r] EXCEPT !.pc = IF H(r).load = "query" THEN "use" ELSE "fill",
                                       !.obj = {FreeId}], cache, [objs EXCEPT ![FreeId] = w])
        BY <2>3
      <3>2. CASE H(r).load = "query"
        BY <2>2, <3>1, <3>2
      <3>3. CASE H(r).load # "query"
        BY <2>2, <3>1, <3>3
      <3> QED BY <3>2, <3>3
    <2> QED BY <2>1, <2>3 DEF Query
  <1>3. faults' \in Nat
    BY DEF Query, TInv, TypeOK
  <1> QED BY <1>2, <1>3 DEF Query, TInv, TypeOK, OneTold

\* A request that goes on with the object that it has, or gives it back.
LEMMA PcGood ==
  ASSUME TInv, NEW r \in Reqs, req[r].pc \in Holding,
         NEW pc \in {"use", "tz", "hash", "flush", "write", "late"}
  PROVE  GoodReq([req[r] EXCEPT !.pc = pc])
  <1>1. GoodReq(req[r])
    BY ReqsGood
  <1> QED BY <1>1 DEF GoodReq, ReqState, Holding

LEMMA CacheAfterTyped == ASSUME TInv, NEW flush PROVE AtMostOne(CacheAfter(flush))
  BY DEF CacheAfter, AtMostOne, TInv, OneObject

LEMMA ObjTyped ==
  ASSUME TInv, NEW r \in Reqs, req[r].pc \in Holding
  PROVE  Obj(r) \in Ids /\ req[r].obj = {Obj(r)}
  <1>1. PICK i \in Ids : req[r].obj = {i}
    BY DEF TInv, OneObject, AtMostOne
  <1> QED BY <1>1 DEF Obj

LEMMA EditedTyped ==
  ASSUME TInv, NEW r \in Reqs, NEW w \in Values, NEW op \in Nat
  PROVE  Edited(r, w, op) \in Values
  BY DEF Edited, NewValue, Values

LEMMA FillTypes == ASSUME TInv, NEW r \in Reqs, Fill(r) PROVE TInv'
  <1>1. AtMostOne(req[r].obj) /\ objs \in [Ids -> Values]
    BY DEF TInv, TypeOK, OneObject
  <1>2. /\ objs' \in [Ids -> Values] /\ cache' \in SUBSET Ids /\ req' \in [Reqs -> ReqState]
        /\ OneObject'
    BY <1>1, PcGood, GoTypes DEF Fill, At, Holding
  <1> QED BY <1>2 DEF Fill, TInv, TypeOK, OneTold

LEMMA LeaveTypes == ASSUME TInv, NEW r \in Reqs, Leave(r) \/ LateFlush(r) PROVE TInv'
  <1>1. objs \in [Ids -> Values]
    BY DEF TInv, TypeOK
  <1>2. /\ objs' \in [Ids -> Values] /\ cache' \in SUBSET Ids /\ req' \in [Reqs -> ReqState]
        /\ OneObject'
    BY <1>1, CacheAfterTyped, IdleItself, GoTypes DEF Leave, LateFlush
  <1> QED BY <1>2 DEF Leave, LateFlush, TInv, TypeOK, OneTold

LEMMA ChangedTyped == ASSUME TInv, NEW r \in Reqs, NEW w \in Values PROVE Changed(r, w) \in Values
  <1>1. Edited(r, w, ops + 1) \in Values
    BY EditedTyped DEF TInv, TypeOK
  <1> QED BY <1>1 DEF Changed, Values

LEMMA EditGoes ==
  ASSUME TInv, NEW r \in Reqs, Edit(r)
  PROVE  \E pc \in {"hash", "flush", "write", "late"} :
           /\ Go(r, [req[r] EXCEPT !.pc = pc, !.op = ops + 1], CacheAfter(H(r).early),
                 [objs EXCEPT ![Obj(r)] = Changed(r, objs[Obj(r)])])
           /\ pc = "late" => H(r).dirty
           /\ pc = "hash" => "password" \in H(r).edits
           /\ pc = "hash" => H(r).save = "update"
           /\ pc = "flush" => H(r).save \in {"update", "delete"}
           /\ pc = "write" => H(r).save = "fields"
           /\ pc = "flush" => "password" \notin H(r).edits
  <1>1. Obj(r) \in Ids /\ objs \in [Ids -> Values]
    BY ObjTyped DEF Edit, At, Holding, TInv, TypeOK
  <1>2. PICK pc \in {IF H(r).save = "fields" THEN "write"
                     ELSE IF "password" \in H(r).edits THEN "hash" ELSE "flush"}
                    \union (IF H(r).dirty THEN {"late"} ELSE {}) :
          Go(r, [req[r] EXCEPT !.pc = pc, !.op = ops + 1], CacheAfter(H(r).early),
             [objs EXCEPT ![Obj(r)] = Changed(r, @)])
    BY DEF Edit
  <1>3. Go(r, [req[r] EXCEPT !.pc = pc, !.op = ops + 1], CacheAfter(H(r).early),
           [objs EXCEPT ![Obj(r)] = Changed(r, objs[Obj(r)])])
    BY <1>1, <1>2
  <1>9. /\ H(r).save \in {"update", "fields", "delete"}
        /\ "password" \in H(r).edits => H(r).save = "update"
    BY HandlerOfReq DEF Edit, Sound, Handler
  <1>4. CASE H(r).save # "fields" /\ "password" \in H(r).edits /\ pc = "hash"
    BY <1>3, <1>4, <1>9
  <1>5. CASE H(r).save # "fields" /\ "password" \notin H(r).edits /\ pc = "flush"
    BY <1>3, <1>5, <1>9
  <1>6. CASE H(r).save = "fields" /\ pc = "write"
    BY <1>3, <1>6
  <1>7. CASE H(r).dirty /\ pc = "late"
    BY <1>3, <1>7
  <1> QED BY <1>2, <1>4, <1>5, <1>6, <1>7

LEMMA EditTypes == ASSUME TInv, NEW r \in Reqs, Edit(r) PROVE TInv'
  <1>1. objs \in [Ids -> Values] /\ ops \in Nat /\ GoodReq(req[r]) /\ req[r].pc \in Holding
    BY ReqsGood DEF TInv, TypeOK, Edit, At, Holding
  <1>2. PICK pc \in {"hash", "flush", "write", "late"} :
          Go(r, [req[r] EXCEPT !.pc = pc, !.op = ops + 1], CacheAfter(H(r).early),
             [objs EXCEPT ![Obj(r)] = Changed(r, objs[Obj(r)])])
    BY EditGoes
  <1>3. GoodReq([req[r] EXCEPT !.pc = pc, !.op = ops + 1])
    <2>1. ops + 1 \in Nat
      BY <1>1
    <2> QED BY <1>1, <2>1 DEF GoodReq, ReqState, Holding
  <1>4. [objs EXCEPT ![Obj(r)] = Changed(r, objs[Obj(r)])] \in [Ids -> Values]
    <2>1. Obj(r) \in Ids
      BY <1>1, ObjTyped
    <2>2. Changed(r, objs[Obj(r)]) \in Values
      BY <1>1, <2>1, ChangedTyped
    <2> QED BY <1>1, <2>2
  <1>5. /\ objs' \in [Ids -> Values] /\ cache' \in SUBSET Ids /\ req' \in [Reqs -> ReqState]
        /\ OneObject'
    BY <1>2, <1>3, <1>4, CacheAfterTyped, GoTypes
  <1>6. ops' \in Nat
    BY <1>1 DEF Edit
  <1> QED BY <1>5, <1>6 DEF Edit, TInv, TypeOK, OneTold

Zoned(w) == [w EXCEPT !["location"] = Local]
Hashed(r, w) == [w EXCEPT !["plain"] = 0, !["password"] = req[r].op]

LEMMA HashGoes ==
  ASSUME TInv, NEW r \in Reqs, Hash(r)
  PROVE  /\ Go(r, [req[r] EXCEPT !.pc = "flush"], cache,
               [objs EXCEPT ![Obj(r)] = Hashed(r, objs[Obj(r)])])
         /\ Hashed(r, objs[Obj(r)]) \in Values
  <1>1. Obj(r) \in Ids /\ objs \in [Ids -> Values] /\ req[r] \in ReqState
    BY ObjTyped DEF Hash, At, Holding, TInv, TypeOK
  <1>2. objs[Obj(r)] \in Values /\ req[r].op \in Nat
    BY <1>1 DEF ReqState
  <1>3. Hashed(r, objs[Obj(r)]) \in Values
    BY <1>2 DEF Hashed, Values, Cols
  <1>4. [objs EXCEPT ![Obj(r)]["plain"] = 0, ![Obj(r)]["password"] = req[r].op]
          = [objs EXCEPT ![Obj(r)] = Hashed(r, objs[Obj(r)])]
    BY <1>1, <1>2 DEF Hashed, Values, Cols
  <1> QED BY <1>3, <1>4 DEF Hash

LEMMA FlushTells ==
  ASSUME TInv, NEW r \in Reqs, FlushAndPublish(r)
  PROVE  told' \in Listener /\ OneTold'
  <1>1. req[r].obj \in SUBSET Ids /\ AtMostOne(req[r].obj)
    BY DEF TInv, TypeOK, OneObject, ReqState
  <1>2. told' = [pc |-> "use", obj |-> req[r].obj]
    BY DEF FlushAndPublish
  <1> QED BY <1>1, <1>2 DEF Listener, OneTold, AtMostOne

LEMMA HashTypes == ASSUME TInv, NEW r \in Reqs, Hash(r) \/ FlushAndPublish(r) PROVE TInv'
  <1>1. objs \in [Ids -> Values] /\ req[r].pc \in Holding
    BY DEF TInv, TypeOK, Hash, FlushAndPublish, At, Holding
  <1>2. AtMostOne(cache) /\ AtMostOne({})
    BY DEF AtMostOne, TInv, OneObject
  <1>3. /\ objs' \in [Ids -> Values] /\ cache' \in SUBSET Ids /\ req' \in [Reqs -> ReqState]
        /\ OneObject'
    <2>1. CASE Hash(r)
      <3>1. [objs EXCEPT ![Obj(r)] = Hashed(r, objs[Obj(r)])] \in [Ids -> Values]
        BY <1>1, <2>1, HashGoes
      <3> QED BY <1>1, <1>2, <2>1, <3>1, HashGoes, PcGood, GoTypes
    <2>2. CASE FlushAndPublish(r)
      BY <1>1, <2>2, CacheAfterTyped, PcGood, GoTypes DEF FlushAndPublish
    <2> QED BY <2>1, <2>2
  <1>4. told' \in Listener /\ OneTold'
    BY FlushTells DEF Hash, TInv, TypeOK, OneTold
  <1> QED BY <1>3, <1>4 DEF Hash, FlushAndPublish, TInv, TypeOK

LEMMA WriteTypes == ASSUME TInv, NEW r \in Reqs, Write(r), H(r).save # "none" PROVE TInv'
  <1>1. /\ objs \in [Ids -> Values] /\ req[r].pc \in Holding /\ row \in SUBSET Values
        /\ req[r].op \in Nat /\ AtMostOne(cache) /\ H(r) \in Handler
    BY HandlerOfReq DEF TInv, TypeOK, OneObject, Write, At, Holding, ReqState
  <1>2. /\ objs' \in [Ids -> Values] /\ cache' \in SUBSET Ids /\ req' \in [Reqs -> ReqState]
        /\ OneObject'
    BY <1>1, PcGood, IdleItself, GoTypes DEF Write
  <1>3. row' \in SUBSET Values
    <2>1. ASSUME NEW w \in row, H(r).save # "delete" PROVE Written(r, w) \in Values
      <3>1. H(r).save \in {"update", "fields"}
        BY <1>1, <2>1 DEF Handler
      <3>2. objs[Obj(r)] \in Values
        BY <1>1, ObjTyped
      <3> QED BY <1>1, <3>1, <3>2, EditedTyped DEF Written
    <2> QED BY <1>1, <2>1 DEF Write
  <1>4. saved' \in Values
    BY <1>1 DEF Write, TInv, TypeOK, Values, NewValue
  <1>5. used' \in SUBSET Nat
    <2>1. \A w \in row : w["token"] \in Nat
      BY <1>1 DEF Values, Cols
    <2> QED BY <2>1 DEF Write, TInv, TypeOK
  <1>6. faults' \in Nat
    BY DEF Write, TInv, TypeOK
  <1> QED BY <1>2, <1>3, <1>4, <1>5, <1>6 DEF Write, TInv, TypeOK, OneTold

LEMMA ExpireTypes == ASSUME TInv, Expire PROVE TInv'
  <1>1. objs' \in [Ids -> Values]
    BY NewRowTyped DEF Expire, Collected, TInv, TypeOK
  <1> QED BY <1>1 DEF Expire, TInv, TypeOK, OneTold, OneObject, AtMostOne

LEMMA ZonedTyped ==
  ASSUME TInv, NEW i \in Ids
  PROVE  /\ Localised(i) = [objs EXCEPT ![i] = Zoned(objs[i])]
         /\ Zoned(objs[i]) \in Values /\ Localised(i) \in [Ids -> Values]
  <1>1. objs \in [Ids -> Values] /\ objs[i] \in Values /\ Local \in Nat
    BY ConstantsAssumption DEF TInv, TypeOK, Local
  <1>2. Zoned(objs[i]) \in Values
    BY <1>1 DEF Zoned, Values
  <1>3. Localised(i) = [objs EXCEPT ![i] = Zoned(objs[i])]
    BY <1>1 DEF Localised, Zoned, Values
  <1> QED BY <1>1, <1>2, <1>3

LEMMA ZoneTypes == ASSUME TInv, NEW r \in Reqs, ReadZone(r) \/ SetZone(r) PROVE TInv'
  <1>1. /\ objs \in [Ids -> Values] /\ req[r].pc \in Holding /\ AtMostOne(cache)
    BY DEF TInv, TypeOK, OneObject, ReadZone, SetZone, At, Holding
  <1>2. Obj(r) \in Ids /\ Localised(Obj(r)) \in [Ids -> Values]
    BY <1>1, ObjTyped, ZonedTyped
  <1>3. /\ objs' \in [Ids -> Values] /\ cache' \in SUBSET Ids /\ req' \in [Reqs -> ReqState]
        /\ OneObject'
    BY <1>1, <1>2, PcGood, GoTypes DEF ReadZone, SetZone
  <1> QED BY <1>3 DEF ReadZone, SetZone, TInv, TypeOK, OneTold

LEMMA ComputeTypes == ASSUME TInv, Compute PROVE TInv'
  <1>1. told' \in Listener /\ OneTold'
    BY DEF Compute, Silence, Silent, TInv, TypeOK, OneTold, Listener
  <1>2. \A i \in told.obj : Localised(i) \in [Ids -> Values]
    BY ZonedTyped DEF TInv, TypeOK, Listener
  <1>3. objs' \in [Ids -> Values]
    BY <1>2, NewRowTyped DEF Compute, Silence, Collected, TInv, TypeOK
  <1> QED BY <1>1, <1>3 DEF Compute, TInv, TypeOK, OneObject

LEMMA CrashTypes == ASSUME TInv, Crash PROVE TInv'
  <1>1. objs' \in [Ids -> Values] /\ faults' \in Nat
    BY NewRowTyped DEF Crash, TInv, TypeOK
  <1>2. Idle \in ReqState /\ Idle.obj = {} /\ Idle.pc = "idle"
    BY IdleItself DEF GoodReq, Idle
  <1> QED BY <1>1, <1>2 DEF Crash, TInv, TypeOK, OneTold, OneObject, AtMostOne, Holding, Silent, Listener

----------------------------------------------------------------------------
(***************************************************************************)
(* What each step does, spelled out for the one request that makes it.     *)
(***************************************************************************)
LEMMA GoesOn ==
  ASSUME TInv, NEW r \in Reqs, NEW pc, NEW cached, NEW heap,
         Go(r, [req[r] EXCEPT !.pc = pc], cached, heap)
  PROVE  req'[r] = [req[r] EXCEPT !.pc = pc]
         /\ req'[r].pc = pc /\ req'[r].h = req[r].h /\ req'[r].obj = req[r].obj
         /\ req'[r].op = req[r].op /\ H(r)' = H(r)
  <1>1. req[r] \in ReqState
    BY ReqsGood DEF GoodReq
  <1>2. req'[r] = [req[r] EXCEPT !.pc = pc]
    BY GoEffect
  <1> QED BY <1>1, <1>2 DEF ReqState, H

LEMMA GoesIdle ==
  ASSUME TInv, NEW r \in Reqs, NEW cached, NEW heap, Go(r, Idle, cached, heap)
  PROVE  req'[r].pc = "idle" /\ req'[r].obj = {} /\ req'[r].op = 0
  BY GoEffect DEF Idle

LEMMA Others ==
  ASSUME TInv, NEW r \in Reqs, Arrive(r) \/ ReqStep(r)
  PROVE  \A p \in Reqs : p # r => req'[p] = req[p] /\ H(p)' = H(p)
  <1>1. \E q, cached, heap : Go(r, q, cached, heap)
    BY DEF Arrive, ReqStep, Query, Fill, Leave, Edit, Hash, FlushAndPublish, Write, LateFlush, ReadZone, SetZone
  <1> QED BY <1>1, GoEffect DEF H

LEMMA Arrives ==
  ASSUME TInv, NEW r \in Reqs, Arrive(r)
  PROVE  /\ cache' = cache /\ \A i \in cache : objs'[i] = objs[i]
         /\ \/ req'[r].pc = "query" /\ req'[r].obj = {}
            \/ req'[r].pc = "use" /\ req'[r].obj = cache /\ H(r)'.load = "cached"
  <1>1. PICK h \in Handlers :
          \/ /\ Go(r, [Idle EXCEPT !.pc = "use", !.h = h, !.obj = cache], cache, objs)
             /\ Table[h].load = "cached"
          \/ Go(r, [Idle EXCEPT !.pc = "query", !.h = h], cache, objs)
    BY MixedAssumption DEF Arrive
  <1>2. cache \subseteq Ids
    BY DEF TInv, TypeOK
  <1>3. CASE Go(r, [Idle EXCEPT !.pc = "use", !.h = h, !.obj = cache], cache, objs)
             /\ Table[h].load = "cached"
    <2>1. req'[r] = [Idle EXCEPT !.pc = "use", !.h = h, !.obj = cache]
          /\ cache' = cache /\ \A i \in cache : objs'[i] = objs[i]
      BY <1>2, <1>3, GoEffect
    <2> QED BY <1>3, <2>1 DEF Idle, H
  <1>4. CASE Go(r, [Idle EXCEPT !.pc = "query", !.h = h], cache, objs)
    <2>1. req'[r] = [Idle EXCEPT !.pc = "query", !.h = h]
          /\ cache' = cache /\ \A i \in cache : objs'[i] = objs[i]
      BY <1>2, <1>4, GoEffect
    <2> QED BY <2>1 DEF Idle
  <1> QED BY <1>1, <1>3, <1>4

LEMMA Queries ==
  ASSUME TInv, NEW r \in Reqs, Query(r)
  PROVE  /\ cache' = cache /\ \A i \in cache : objs'[i] = objs[i]
         /\ \/ req'[r].pc = "idle" /\ req'[r].obj = {}
            \/ \E w \in row, i \in Ids \ (cache \union told.obj) :
                  /\ req'[r].pc = (IF H(r).load = "query" THEN "use" ELSE "fill")
                  /\ req'[r].obj = {i} /\ objs'[i] = w /\ H(r)' = H(r)
  <1>1. cache \subseteq Ids /\ req[r] \in ReqState /\ objs \in [Ids -> Values]
    BY DEF TInv, TypeOK
  <1>2. CASE Go(r, Idle, cache, objs)
    BY <1>1, <1>2, GoEffect, GoesIdle
  <1>3. ASSUME NEW w \in row, NEW pc, pc = (IF H(r).load = "query" THEN "use" ELSE "fill"),
               Go(r, [req[r] EXCEPT !.pc = pc, !.obj = {FreeId}], cache, [objs EXCEPT ![FreeId] = w])
        PROVE  /\ cache' = cache /\ \A i \in cache : objs'[i] = objs[i]
               /\ \E i \in Ids \ (cache \union told.obj) :
                     req'[r].pc = pc /\ req'[r].obj = {i} /\ objs'[i] = w /\ H(r)' = H(r)
    <2>1. req[r].obj = {}
      BY ReqsGood DEF Query, At, GoodReq
    <2>2. FreeId \in Ids /\ FreeId \notin cache \union told.obj
      BY <2>1, OneToSpare DEF Free
    <2>3. /\ req'[r] = [req[r] EXCEPT !.pc = pc, !.obj = {FreeId}] /\ cache' = cache
          /\ \A i \in Ids : i \in cache \/ (\E p \in Reqs : i \in req'[p].obj) =>
                objs'[i] = [objs EXCEPT ![FreeId] = w][i]
      <3> DEFINE q == [req[r] EXCEPT !.pc = pc, !.obj = {FreeId}]
                 heap == [objs EXCEPT ![FreeId] = w]
      <3>1. Go(r, q, cache, heap)
        BY <1>3
      <3> HIDE DEF q, heap
      <3>2. /\ req'[r] = q /\ cache' = cache
            /\ \A i \in Ids : i \in cache \/ (\E p \in Reqs : i \in req'[p].obj) => objs'[i] = heap[i]
        BY <3>1, GoEffect
      <3> QED BY <3>2 DEF q, heap
    <2>4. req'[r].pc = pc /\ req'[r].obj = {FreeId} /\ req'[r].h = req[r].h
      BY <1>1, <2>3 DEF ReqState
    <2> QED BY <1>1, <2>2, <2>3, <2>4 DEF H
  <1>4. CASE \E w \in row : Go(r, [req[r] EXCEPT !.pc = IF H(r).load = "query" THEN "use" ELSE "fill",
                                     !.obj = {FreeId}], cache, [objs EXCEPT ![FreeId] = w])
    BY <1>3, <1>4
  <1> QED BY <1>2, <1>4 DEF Query

LEMMA Fills ==
  ASSUME TInv, NEW r \in Reqs, Fill(r)
  PROVE  /\ req'[r].pc = "use" /\ req'[r].obj = req[r].obj /\ req'[r].op = req[r].op /\ H(r)' = H(r)
         /\ cache' = req[r].obj /\ \A i \in req[r].obj : objs'[i] = objs[i]
  <1>1. req[r].obj \subseteq Ids
    BY DEF TInv, TypeOK, ReqState
  <1> DEFINE q == [req[r] EXCEPT !.pc = "use"]
  <1>2. Go(r, q, req[r].obj, objs)
    BY DEF Fill
  <1>3. req'[r].pc = "use" /\ req'[r].obj = req[r].obj /\ req'[r].op = req[r].op /\ H(r)' = H(r)
    BY <1>2, GoesOn
  <1> HIDE DEF q
  <1>4. cache' = req[r].obj /\ \A i \in req[r].obj : objs'[i] = objs[i]
    BY <1>1, <1>2, GoEffect
  <1> QED BY <1>3, <1>4

\* Leave and the deferred flush
LEMMA Leaves ==
  ASSUME TInv, NEW r \in Reqs, Leave(r) \/ LateFlush(r)
  PROVE  /\ req'[r].pc = "idle" /\ req'[r].obj = {}
         /\ cache' = cache \/ cache' = {}
         /\ LateFlush(r) /\ H(r).late => cache' = {}
         /\ \A i \in cache' : objs'[i] = objs[i]
  <1>1. cache \subseteq Ids
    BY DEF TInv, TypeOK
  <1>2. PICK flush \in BOOLEAN : /\ Go(r, Idle, CacheAfter(flush), objs)
                                 /\ LateFlush(r) /\ H(r).late => flush
    <2>1. CASE Leave(r)
      <3>1. At(r, "use")
        BY <2>1 DEF Leave
      <3>2. ~ LateFlush(r)
        BY <3>1 DEF LateFlush, At
      <3> QED BY <2>1, <3>2 DEF Leave
    <2>2. CASE LateFlush(r)
      <3>1. H(r).late \in BOOLEAN
        BY HandlerOfReq DEF Handler
      <3> QED BY <2>2, <3>1 DEF LateFlush
    <2> QED BY <2>1, <2>2
  <1> QED BY <1>1, <1>2, GoesIdle, GoEffect DEF CacheAfter

LEMMA Edits ==
  ASSUME TInv, NEW r \in Reqs, Edit(r)
  PROVE  \E pc \in {"hash", "flush", "write", "late"} :
           /\ req'[r].pc = pc /\ req'[r].obj = req[r].obj /\ req'[r].op = ops + 1 /\ H(r)' = H(r)
           /\ cache' = CacheAfter(H(r).early)
           /\ objs'[Obj(r)] = Changed(r, objs[Obj(r)])
           /\ \A i \in cache' : i # Obj(r) => objs'[i] = objs[i]
           /\ pc = "late" => H(r).dirty
           /\ pc = "hash" => "password" \in H(r).edits
           /\ pc = "hash" => H(r).save = "update"
           /\ pc = "flush" => H(r).save \in {"update", "delete"}
           /\ pc = "write" => H(r).save = "fields"
           /\ pc = "flush" => "password" \notin H(r).edits
  <1>1. /\ Obj(r) \in Ids /\ req[r].obj = {Obj(r)} /\ objs \in [Ids -> Values] /\ cache \subseteq Ids
        /\ req[r] \in ReqState
    BY ObjTyped DEF Edit, At, Holding, TInv, TypeOK
  <1>2. PICK pc \in {"hash", "flush", "write", "late"} :
           /\ Go(r, [req[r] EXCEPT !.pc = pc, !.op = ops + 1], CacheAfter(H(r).early),
                 [objs EXCEPT ![Obj(r)] = Changed(r, objs[Obj(r)])])
           /\ pc = "late" => H(r).dirty
           /\ pc = "hash" => "password" \in H(r).edits
           /\ pc = "hash" => H(r).save = "update"
           /\ pc = "flush" => H(r).save \in {"update", "delete"}
           /\ pc = "write" => H(r).save = "fields"
           /\ pc = "flush" => "password" \notin H(r).edits
    BY EditGoes
  <1>3. /\ req'[r] = [req[r] EXCEPT !.pc = pc, !.op = ops + 1] /\ cache' = CacheAfter(H(r).early)
        /\ \A i \in Ids : i \in CacheAfter(H(r).early) \/ (\E p \in Reqs : i \in req'[p].obj) =>
              objs'[i] = [objs EXCEPT ![Obj(r)] = Changed(r, objs[Obj(r)])][i]
    <2> DEFINE q == [req[r] EXCEPT !.pc = pc, !.op = ops + 1]
               held == CacheAfter(H(r).early)
               heap == [objs EXCEPT ![Obj(r)] = Changed(r, objs[Obj(r)])]
    <2>1. Go(r, q, held, heap)
      BY <1>2
    <2> HIDE DEF q, held, heap
    <2>2. /\ req'[r] = q /\ cache' = held
          /\ \A i \in Ids : i \in held \/ (\E p \in Reqs : i \in req'[p].obj) => objs'[i] = heap[i]
      BY <2>1, GoEffect
    <2> QED BY <2>2 DEF q, held, heap
  <1>4. req'[r].pc = pc /\ req'[r].obj = req[r].obj /\ req'[r].op = ops + 1 /\ H(r)' = H(r)
    BY <1>1, <1>3 DEF ReqState, H
  <1>5. objs'[Obj(r)] = Changed(r, objs[Obj(r)])
    BY <1>1, <1>3, <1>4
  <1>6. \A i \in cache' : i # Obj(r) => objs'[i] = objs[i]
    BY <1>1, <1>3 DEF CacheAfter
  <1> QED BY <1>2, <1>3, <1>4, <1>5, <1>6

LEMMA Hashes ==
  ASSUME TInv, NEW r \in Reqs, Hash(r)
  PROVE  /\ req'[r].pc = "flush" /\ req'[r].obj = req[r].obj /\ req'[r].op = req[r].op /\ H(r)' = H(r)
         /\ cache' = cache /\ objs'[Obj(r)] = Hashed(r, objs[Obj(r)])
         /\ \A i \in cache : i # Obj(r) => objs'[i] = objs[i]
  <1>1. /\ Obj(r) \in Ids /\ req[r].obj = {Obj(r)} /\ objs \in [Ids -> Values] /\ cache \subseteq Ids
    BY ObjTyped DEF Hash, At, Holding, TInv, TypeOK
  <1>2. Go(r, [req[r] EXCEPT !.pc = "flush"], cache, [objs EXCEPT ![Obj(r)] = Hashed(r, objs[Obj(r)])])
    BY HashGoes
  <1>3. req'[r].pc = "flush" /\ req'[r].obj = req[r].obj /\ req'[r].op = req[r].op /\ H(r)' = H(r)
    BY <1>2, GoesOn
  <1>4. /\ cache' = cache
        /\ \A i \in Ids : i \in cache \/ (\E p \in Reqs : i \in req'[p].obj) =>
              objs'[i] = [objs EXCEPT ![Obj(r)] = Hashed(r, objs[Obj(r)])][i]
    <2> DEFINE q == [req[r] EXCEPT !.pc = "flush"]
               heap == [objs EXCEPT ![Obj(r)] = Hashed(r, objs[Obj(r)])]
    <2>1. Go(r, q, cache, heap)
      BY <1>2
    <2> HIDE DEF q, heap
    <2>2. /\ cache' = cache
          /\ \A i \in Ids : i \in cache \/ (\E p \in Reqs : i \in req'[p].obj) => objs'[i] = heap[i]
      BY <2>1, GoEffect
    <2> QED BY <2>2 DEF heap
  <1> QED BY <1>1, <1>3, <1>4

LEMMA Flushes ==
  ASSUME TInv, NEW r \in Reqs, FlushAndPublish(r)
  PROVE  /\ req'[r].pc = "write" /\ req'[r].obj = req[r].obj /\ req'[r].op = req[r].op /\ H(r)' = H(r)
         /\ cache' = CacheAfter(H(r).save = "update") /\ \A i \in req[r].obj : objs'[i] = objs[i]
  <1>1. req[r].obj \subseteq Ids
    BY DEF TInv, TypeOK, ReqState
  <1> DEFINE q == [req[r] EXCEPT !.pc = "write"]
             held == CacheAfter(H(r).save = "update")
  <1>2. Go(r, q, held, objs)
    BY DEF FlushAndPublish
  <1>3. req'[r].pc = "write" /\ req'[r].obj = req[r].obj /\ req'[r].op = req[r].op /\ H(r)' = H(r)
    BY <1>2, GoesOn
  <1> HIDE DEF q, held
  <1>4. cache' = held /\ \A i \in req[r].obj : objs'[i] = objs[i]
    BY <1>1, <1>2, <1>3, GoEffect
  <1> QED BY <1>3, <1>4 DEF held

\* User.TZ, of one request and of the leaderboard
LEMMA Zones ==
  ASSUME TInv, NEW r \in Reqs, ReadZone(r) \/ SetZone(r)
  PROVE  /\ req'[r].obj = req[r].obj /\ req'[r].op = req[r].op /\ H(r)' = H(r)
         /\ \/ ReadZone(r) /\ req'[r].pc = "tz" /\ objs[Obj(r)]["location"] = 0
            \/ SetZone(r) /\ req'[r].pc = "use"
         /\ cache' = cache /\ \A i \in cache : i # Obj(r) => objs'[i] = objs[i]
         /\ ReadZone(r) => objs'[Obj(r)] = objs[Obj(r)]
         /\ SetZone(r) => objs'[Obj(r)] = Zoned(objs[Obj(r)])
  <1>1. /\ Obj(r) \in Ids /\ req[r].obj = {Obj(r)} /\ objs \in [Ids -> Values] /\ cache \subseteq Ids
    BY ObjTyped DEF ReadZone, SetZone, At, Holding, TInv, TypeOK
  <1>2. CASE ReadZone(r)
    <2> DEFINE q == [req[r] EXCEPT !.pc = "tz"]
    <2>1. Go(r, q, cache, objs) /\ objs[Obj(r)]["location"] = 0 /\ ~ SetZone(r)
      BY <1>2 DEF ReadZone, SetZone, At
    <2>2. req'[r].pc = "tz" /\ req'[r].obj = req[r].obj /\ req'[r].op = req[r].op /\ H(r)' = H(r)
      BY <2>1, GoesOn
    <2> HIDE DEF q
    <2>3. cache' = cache /\ \A i \in cache \union req[r].obj : objs'[i] = objs[i]
      BY <1>1, <2>1, <2>2, GoEffect
    <2> QED BY <1>1, <1>2, <2>1, <2>2, <2>3
  <1>3. CASE SetZone(r)
    <2> DEFINE q == [req[r] EXCEPT !.pc = "use"]
               heap == [objs EXCEPT ![Obj(r)] = Zoned(objs[Obj(r)])]
    <2>1. Go(r, q, cache, heap) /\ ~ ReadZone(r)
      <3>1. Localised(Obj(r)) = heap
        BY <1>1, ZonedTyped
      <3> QED BY <1>3, <3>1 DEF ReadZone, SetZone, At
    <2>2. req'[r].pc = "use" /\ req'[r].obj = req[r].obj /\ req'[r].op = req[r].op /\ H(r)' = H(r)
      BY <2>1, GoesOn
    <2> HIDE DEF q, heap
    <2>3. cache' = cache /\ \A i \in cache \union req[r].obj : objs'[i] = heap[i]
      BY <1>1, <2>1, <2>2, GoEffect
    <2>4. heap[Obj(r)] = Zoned(objs[Obj(r)]) /\ \A i \in cache : i # Obj(r) => heap[i] = objs[i]
      BY <1>1 DEF heap
    <2> QED BY <1>1, <1>3, <2>1, <2>2, <2>3, <2>4
  <1> QED BY <1>2, <1>3

LEMMA Computes ==
  ASSUME TInv, Compute
  PROVE  /\ UNCHANGED <<row, cache, req, overlap, saved, used, ops>>
         /\ \A i \in cache \union UNION {req[r].obj : r \in Reqs} :
               objs'[i] = objs[i] \/ (told.pc = "tz" /\ i \in told.obj /\ objs'[i] = Zoned(objs[i]))
         /\ \/ told' = Silent
            \/ /\ told' = [told EXCEPT !.pc = "tz"] /\ objs' = objs
               /\ \E i \in told.obj : objs[i]["location"] = 0
  <1>1. UNCHANGED <<row, cache, req, overlap, saved, used, ops>>
    BY DEF Compute
  <1> DEFINE Mine == cache \union UNION {req[r].obj : r \in Reqs}
  <1>2. Mine \subseteq Ids /\ told.obj \subseteq Ids /\ objs \in [Ids -> Values]
    BY DEF TInv, TypeOK, ReqState, Listener
  <1>3. ASSUME NEW heap, Silence(heap) PROVE told' = Silent /\ \A i \in Mine : objs'[i] = heap[i]
    BY <1>2, <1>3 DEF Silence, Collected, Held
  <1>4. CASE told.pc = "use" /\ Silence(objs)
    BY <1>1, <1>3, <1>4
  <1>5. CASE /\ told.pc = "use" /\ \E i \in told.obj : objs[i]["location"] = 0
             /\ told' = [told EXCEPT !.pc = "tz"] /\ UNCHANGED objs
    BY <1>1, <1>5
  <1>6. CASE told.pc = "tz" /\ \E i \in told.obj : Silence(Localised(i))
    <2>1. PICK i \in told.obj : Silence(Localised(i))
      BY <1>6
    <2>2. Localised(i) = [objs EXCEPT ![i] = Zoned(objs[i])]
      BY <1>2, ZonedTyped
    <2>3. told' = Silent /\ \A j \in Mine : objs'[j] = Localised(i)[j]
      BY <1>3, <2>1
    <2>4. \A j \in Mine : Localised(i)[j] = objs[j] \/ (j = i /\ Localised(i)[j] = Zoned(objs[j]))
      BY <1>2, <2>2
    <2> QED BY <1>1, <1>6, <2>3, <2>4
  <1> QED BY <1>4, <1>5, <1>6 DEF Compute

LEMMA Writes ==
  ASSUME TInv, NEW r \in Reqs, Write(r)
  PROVE  /\ cache' = cache /\ \A i \in cache : objs'[i] = objs[i]
         /\ \/ req'[r].pc = "idle" /\ req'[r].obj = {}
            \/ /\ req'[r].pc = "late" /\ req'[r].obj = req[r].obj /\ H(r)' = H(r) /\ H(r).late
               /\ \A i \in req[r].obj : objs'[i] = objs[i]
  <1>1. cache \subseteq Ids /\ req[r].obj \subseteq Ids
    BY DEF TInv, TypeOK, ReqState
  <1>2. CASE H(r).late /\ Go(r, [req[r] EXCEPT !.pc = "late"], cache, objs)
    <2> DEFINE q == [req[r] EXCEPT !.pc = "late"]
    <2>1. Go(r, q, cache, objs)
      BY <1>2
    <2>2. req'[r].pc = "late" /\ req'[r].obj = req[r].obj /\ H(r)' = H(r)
      BY <2>1, GoesOn
    <2> HIDE DEF q
    <2>3. cache' = cache /\ \A i \in cache \union req[r].obj : objs'[i] = objs[i]
      BY <1>1, <2>1, <2>2, GoEffect
    <2> QED BY <1>2, <2>2, <2>3
  <1>3. CASE Go(r, Idle, cache, objs)
    BY <1>1, <1>3, GoesIdle, GoEffect
  <1> QED BY <1>2, <1>3 DEF Write

----------------------------------------------------------------------------
(***************************************************************************)
(* The types, for every step.                                              *)
(***************************************************************************)
LEMMA NextByTable == ASSUME TInv, ByTable, [Next]_vars PROVE ByTable'
  <1> USE DEF ByTable, At
  <1>1. ASSUME NEW r \in Reqs, Arrive(r) \/ ReqStep(r) PROVE ByTable'
    <2> DEFINE Here == /\ At(r, "fill") => H(r).load # "query"
                       /\ At(r, "hash") => "password" \in H(r).edits
                       /\ At(r, "hash") => H(r).save = "update"
                       /\ At(r, "flush") => H(r).save \in {"update", "delete"}
                       /\ At(r, "write") => H(r).save # "none"
                       /\ At(r, "late") => H(r).late
    <2>1. \A p \in Reqs : p # r => req'[p] = req[p] /\ H(p)' = H(p)
      BY <1>1, Others
    <2>2. Here'
      <3>1. CASE Arrive(r)
        BY <3>1, Arrives
      <3>2. CASE Query(r)
        BY <3>2, Queries
      <3>3. CASE Fill(r)
        BY <3>3, Fills
      <3>4. CASE Leave(r) \/ LateFlush(r)
        BY <3>4, Leaves
      <3>5. CASE Edit(r)
        <4>1. H(r).save # "none" /\ (H(r).dirty => H(r).late)
          BY <3>5, HandlerOfReq DEF Edit, Sound
        <4> QED BY <3>5, <4>1, Edits
      <3>6. CASE Hash(r)
        BY <3>6, Hashes DEF Hash
      <3>7. CASE FlushAndPublish(r)
        BY <3>7, Flushes DEF FlushAndPublish
      <3>8. CASE Write(r)
        BY <3>8, Writes
      <3>9. CASE ReadZone(r) \/ SetZone(r)
        BY <3>9, Zones
      <3> QED BY <1>1, <3>1, <3>2, <3>3, <3>4, <3>5, <3>6, <3>7, <3>8, <3>9 DEF ReqStep
    <2> QED BY <2>1, <2>2
  <1>5. CASE Compute
    BY <1>5 DEF Compute, H
  <1>2. CASE Expire
    BY <1>2 DEF Expire, H
  <1>3. CASE Crash
    BY <1>3 DEF Crash, Idle
  <1>4. CASE UNCHANGED vars
    BY <1>4 DEF vars, H
  <1> QED BY <1>1, <1>2, <1>3, <1>4, <1>5 DEF Next

LEMMA NextTypes == ASSUME TInv, ByTable, [Next]_vars PROVE TInv'
  <1>1. ASSUME NEW r \in Reqs, Write(r) PROVE TInv'
    BY <1>1, WriteTypes DEF ByTable, Write
  <1>2. CASE UNCHANGED vars
    BY <1>2 DEF vars, TInv, TypeOK, OneObject, OneTold
  <1> QED
    BY <1>1, <1>2, ArriveTypes, QueryTypes, FillTypes, LeaveTypes, EditTypes, HashTypes,
       ZoneTypes, ComputeTypes, ExpireTypes, CrashTypes DEF Next, ReqStep

THEOREM TypesInvariant == Spec => [](TInv /\ ByTable)
  <1>1. Init => ByTable
    BY DEF Init, ByTable, At, Idle
  <1>2. TInv /\ ByTable /\ [Next]_vars => TInv' /\ ByTable'
    BY NextTypes, NextByTable
  <1> QED BY <1>1, <1>2, InitTypes, PTL DEF Spec

\* Every variable stays within its type.
THEOREM TypeCorrect == Spec => []TypeOK
  <1>1. TInv => TypeOK
    BY DEF TInv
  <1> QED BY <1>1, TypesInvariant, PTL

----------------------------------------------------------------------------
(***************************************************************************)
(* As long as requests come one after the other.                           *)
(***************************************************************************)
\* The part of SInv that is about one request.
Solo(r) ==
    /\ req[r].pc \notin {"hash", "flush", "late"} => \A i \in cache : Fresh(i)
    /\ req[r].pc \in {"fill", "use", "tz"} => \A i \in req[r].obj : Fresh(i)
    /\ req[r].pc \in {"hash", "flush", "write"} /\ H(r).save = "update" =>
          \A i \in req[r].obj, w \in row, c \in Lasting :
              (req[r].pc = "hash" /\ c = "plain") \/ Agrees(c, objs[i][c], Intended(r, w, c))
    /\ req[r].pc \in Holding /\ H(r).load = "query" => req[r].obj \intersect cache = {}
    /\ At(r, "flush") /\ H(r).save = "delete" => cache = {}
    /\ At(r, "write") => cache = {} \/ (H(r).save = "fields" /\ H(r).edits = {"token"})
    /\ At(r, "tz") => \A i \in req[r].obj : Nowhere(i)
SoloTokens(r) ==
    /\ \A i \in req[r].obj : Unspent(objs[i]["token"])
    /\ req[r].pc \in {"hash", "flush", "write"} => Unspent(req[r].op)
    /\ req[r].pc \in {"hash", "flush", "write"} /\ "password" \in H(r).edits /\ H(r).load = "query" =>
          \A i \in req[r].obj : objs[i]["token"] = 0
RestTokens ==
    /\ used \subseteq 1 .. ops
    /\ \A w \in row : Unspent(w["token"])
    /\ \A i \in cache : Unspent(objs[i]["token"])

\* Only the request that makes a step is under way.
Alone(r) == \A p \in Reqs : p # r => At(p, "idle") /\ req[p].obj = {}

LEMMA StepsAlone ==
  ASSUME TInv, SInv, ~ overlap, NEW r \in Reqs, Arrive(r) \/ ReqStep(r)
  PROVE  Alone(r) /\ Alone(r)' /\ Solo(r) /\ SoloTokens(r) /\ RestTokens
  <1>1. Alone(r)
    <2>1. \A p \in Reqs : p # r => At(p, "idle")
      <3>1. CASE Arrive(r)
        BY <3>1 DEF Arrive
      <3>2. CASE ReqStep(r)
        <4>1. ~ At(r, "idle")
          BY <3>2 DEF ReqStep, Query, Fill, Leave, Edit, Hash, FlushAndPublish, Write, LateFlush, ReadZone, SetZone, At
        <4> QED BY <4>1 DEF SInv, OneByOne
      <3> QED BY <3>1, <3>2
    <2> QED BY <2>1 DEF Alone, At, TInv, OneObject
  <1>2. Alone(r)'
    BY <1>1, Others DEF Alone, At
  <1>3. Solo(r)
    <2>1. req[r].pc \notin {"hash", "flush", "late"} => \A i \in cache : Fresh(i)
      BY <1>1 DEF SInv, CacheClean, Alone, At
    <2> QED BY <2>1 DEF Solo, SInv, LoadedFresh, Prepared, CacheApart, Zoning
  <1>4. SoloTokens(r) /\ RestTokens
    BY DEF SInv, TokensUnused, SoloTokens, RestTokens
  <1> QED BY <1>1, <1>2, <1>3, <1>4

\* A request does not touch the object that the leaderboard was told of.
LEMMA ToldKept ==
  ASSUME TInv, SInv, NEW r \in Reqs, Arrive(r) \/ ReqStep(r)
  PROVE  \A i \in told.obj : objs'[i] = objs[i]
  <1> DEFINE Keeps(heap) == \A i \in told.obj : heap[i] = objs[i]
  <1>1. objs \in [Ids -> Values] /\ told.obj \subseteq Ids
    BY DEF TInv, TypeOK, Listener
  <1>2. ASSUME NEW w, req[r].pc \in Changing \ {"fill"}
        PROVE  Keeps([objs EXCEPT ![Obj(r)] = w])
    <2>1. req[r].obj = {Obj(r)}
      BY <1>2, ObjTyped DEF Holding, Changing
    <2>2. Obj(r) \notin told.obj
      BY <1>2, <2>1 DEF SInv, ToldApart, Changing
    <2> QED BY <1>1, <2>2
  <1>3. ASSUME NEW q, NEW cached, NEW heap, Go(r, q, cached, heap), Keeps(heap)
        PROVE  Keeps(objs')
    BY <1>3, GoEffect
  <1>4. Keeps(objs)
    OBVIOUS
  <1>15. SUFFICES Keeps(objs')
    OBVIOUS
  <1> HIDE DEF Keeps
  <1>5. CASE Arrive(r)
    BY <1>3, <1>4, <1>5 DEF Arrive
  <1>6. CASE Query(r)
    <2>1. CASE Go(r, Idle, cache, objs)
      BY <1>3, <1>4, <2>1
    <2>2. ASSUME NEW w, NEW q, Go(r, q, cache, [objs EXCEPT ![FreeId] = w])
          PROVE  Keeps(objs')
      <3>1. FreeId \notin told.obj
        BY <1>6, OneToSpare, ReqsGood DEF Query, At, GoodReq, Free
      <3>2. Keeps([objs EXCEPT ![FreeId] = w])
        BY <1>1, <3>1 DEF Keeps
      <3> QED BY <1>3, <2>2, <3>2
    <2> QED BY <1>6, <2>1, <2>2 DEF Query
  <1>7. CASE Fill(r)
    BY <1>3, <1>4, <1>7 DEF Fill
  <1>8. CASE Leave(r) \/ LateFlush(r)
    BY <1>3, <1>4, <1>8 DEF Leave, LateFlush
  <1>9. CASE Edit(r)
    <2>1. Keeps([objs EXCEPT ![Obj(r)] = Changed(r, objs[Obj(r)])])
      BY <1>2, <1>9 DEF Edit, At, Changing
    <2> QED BY <1>3, <1>9, <2>1, EditGoes
  <1>10. CASE Hash(r)
    <2>1. Keeps([objs EXCEPT ![Obj(r)] = Hashed(r, objs[Obj(r)])])
      BY <1>2, <1>10 DEF Hash, At, Changing
    <2> QED BY <1>3, <1>10, <2>1, HashGoes
  <1>11. CASE FlushAndPublish(r)
    BY <1>3, <1>4, <1>11 DEF FlushAndPublish
  <1>12. CASE Write(r)
    BY <1>3, <1>4, <1>12 DEF Write
  <1>13. CASE ReadZone(r)
    BY <1>3, <1>4, <1>13 DEF ReadZone
  <1>14. CASE SetZone(r)
    <2>1. Obj(r) \in Ids
      BY <1>14, ObjTyped DEF SetZone, At, Holding
    <2>2. Keeps(Localised(Obj(r)))
      BY <1>2, <1>14, <2>1, ZonedTyped DEF SetZone, At, Changing
    <2> QED BY <1>3, <1>14, <2>2 DEF SetZone
  <1> QED BY <1>5, <1>6, <1>7, <1>8, <1>9, <1>10, <1>11, <1>12, <1>13, <1>14 DEF ReqStep

LEMMA ToldSafe ==
  ASSUME TInv, SInv, ByTable, ~ overlap, NEW r \in Reqs, Arrive(r) \/ ReqStep(r)
  PROVE  ToldApart'
  <1>1. /\ \A p \in Reqs : p # r => req'[p].obj = {}
        /\ Solo(r)
    BY StepsAlone DEF Alone
  <1>2. \A i \in told.obj : objs'[i] = objs[i]
    BY ToldKept
  <1>3. /\ told.obj \intersect cache = {}
        /\ req[r].pc \in Changing => req[r].obj \intersect told.obj = {}
        /\ told.pc = "tz" => \A i \in told.obj : Nowhere(i)
    BY DEF SInv, ToldApart
  <1>4. CASE FlushAndPublish(r)
    <2>1. told' = [pc |-> "use", obj |-> req[r].obj] /\ req'[r].pc = "write"
      BY <1>4, Flushes DEF FlushAndPublish
    <2>2. cache' = {}
      <3>1. H(r).save \in {"update", "delete"} /\ At(r, "flush")
        BY <1>4 DEF ByTable, FlushAndPublish
      <3>2. cache' = CacheAfter(H(r).save = "update")
        BY <1>4, Flushes
      <3> QED BY <1>1, <3>1, <3>2 DEF Solo, CacheAfter
    <2> QED BY <1>1, <2>1, <2>2 DEF ToldApart, Changing
  <1>5. CASE ~ FlushAndPublish(r)
    <2>1. told' = told
      BY <1>5 DEF Arrive, ReqStep, Query, Fill, Leave, Edit, Hash, Write, LateFlush, ReadZone, SetZone
    <2>2. told.pc = "tz" => \A i \in told.obj : Nowhere(i)'
      BY <1>2, <1>3 DEF Nowhere
    <2> DEFINE Apart == told.obj \intersect cache' = {}
                        /\ (req'[r].pc \in Changing => req'[r].obj \intersect told.obj = {})
    <2>3. Apart
      <3>1. CASE Arrive(r)
        BY <1>3, <3>1, Arrives
      <3>2. CASE Query(r)
        BY <1>3, <3>2, Queries
      <3>3. CASE Fill(r)
        BY <1>3, <3>3, Fills DEF Fill, At, Changing
      <3>4. CASE Leave(r) \/ LateFlush(r)
        BY <1>3, <3>4, Leaves
      <3>5. CASE Edit(r)
        <4>1. req'[r].obj = req[r].obj /\ cache' = CacheAfter(H(r).early)
          BY <3>5, Edits
        <4> QED BY <1>3, <3>5, <4>1 DEF Edit, At, Changing, CacheAfter
      <3>6. CASE Hash(r)
        BY <1>3, <3>6, Hashes DEF Hash, At, Changing
      <3>7. CASE Write(r)
        BY <1>3, <3>7, Writes DEF Changing
      <3>8. CASE ReadZone(r) \/ SetZone(r)
        BY <1>3, <3>8, Zones DEF ReadZone, SetZone, At, Changing
      <3> QED BY <1>5, <3>1, <3>2, <3>3, <3>4, <3>5, <3>6, <3>7, <3>8 DEF ReqStep
    <2> QED BY <1>1, <2>1, <2>2, <2>3 DEF ToldApart
  <1> QED BY <1>4, <1>5

LEMMA SoloIsEnough ==
  ASSUME NEW r \in Reqs, Alone(r)', Solo(r)', ToldApart', SoloTokens(r)', RestTokens', SavedRow'
  PROVE  SInv'
  <1>1. \A p \in Reqs : p # r => req'[p].pc = "idle" /\ req'[p].obj = {}
    BY DEF Alone, At
  <1>2. (OneByOne /\ CacheClean)'
    BY <1>1 DEF OneByOne, At, CacheClean, Solo
  <1>3. (LoadedFresh /\ Prepared /\ Zoning)'
    BY <1>1 DEF LoadedFresh, Prepared, Zoning, Solo, At
  <1>4. CacheApart'
    BY <1>1 DEF CacheApart, Solo, At, Holding
  <1>5. TokensUnused'
    BY <1>1 DEF TokensUnused, SoloTokens, RestTokens
  <1> QED BY <1>2, <1>3, <1>4, <1>5 DEF SInv

\* "Local" stands for no location: it agrees with what no location agrees with.
LEMMA ZonedAgrees ==
  ASSUME TInv, NEW i \in Ids, Nowhere(i), NEW c \in Cols, NEW y, Agrees(c, objs[i][c], y)
  PROVE  Agrees(c, Zoned(objs[i])[c], y)
  <1>1. objs[i] \in Values
    BY DEF TInv, TypeOK
  <1>2. Zoned(objs[i])[c] = IF c = "location" THEN Local ELSE objs[i][c]
    BY <1>1 DEF Zoned, Values
  <1> QED BY <1>2 DEF Nowhere, Agrees

LEMMA ZonedFresh ==
  ASSUME TInv, NEW i \in Ids, Nowhere(i), Fresh(i), objs'[i] = Zoned(objs[i]), row' = row
  PROVE  Fresh(i)'
  <1>1. \A w \in row, c \in Lasting : Agrees(c, objs'[i][c], w[c])
    BY ZonedAgrees DEF Fresh, Follows, Lasting
  <1> QED BY <1>1 DEF Fresh, Follows, Agrees

LEMMA AgreesOn ==
  ASSUME NEW c, NEW x, NEW y, NEW z, Agrees(c, x, y), Agrees(c, y, z)
  PROVE  Agrees(c, x, z)
  <1>1. Local # 0
    BY ConstantsAssumption DEF Local
  <1> QED BY <1>1 DEF Agrees

LEMMA RowIsFresh ==
  ASSUME SInv, NEW w \in row, NEW i, objs'[i] = w, row' = row
  PROVE  Fresh(i)'
  BY DEF SInv, SavedRow, Fresh, Follows, Agrees

LEMMA StaysFresh ==
  ASSUME NEW i, Fresh(i), objs'[i] = objs[i], row' = row
  PROVE  Fresh(i)'
  BY DEF Fresh, Follows, Agrees

LEMMA ArriveSafe == ASSUME TInv, SInv, ByTable, ~ overlap, NEW r \in Reqs, Arrive(r) PROVE SInv'
  <1>1. Alone(r)' /\ ToldApart' /\ Solo(r) /\ SoloTokens(r) /\ RestTokens /\ req[r].pc = "idle"
    BY StepsAlone, ToldSafe DEF Arrive, At
  <1>2. UNCHANGED <<row, saved, used, ops>>
    BY DEF Arrive
  <1>3. /\ cache' = cache /\ \A i \in cache : objs'[i] = objs[i]
        /\ \/ req'[r].pc = "query" /\ req'[r].obj = {}
           \/ req'[r].pc = "use" /\ req'[r].obj = cache /\ H(r)'.load = "cached"
    BY Arrives
  <1>4. \A i \in cache : Fresh(i)'
    BY <1>1, <1>2, <1>3, StaysFresh DEF Solo
  <1>5. Solo(r)'
    BY <1>3, <1>4 DEF Solo, Holding, At
  <1>6. SoloTokens(r)' /\ RestTokens'
    BY <1>1, <1>2, <1>3 DEF SoloTokens, RestTokens, Unspent
  <1> QED BY <1>1, <1>2, <1>5, <1>6, SoloIsEnough DEF SInv, SavedRow

LEMMA QuerySafe == ASSUME TInv, SInv, ByTable, ~ overlap, NEW r \in Reqs, Query(r) PROVE SInv'
  <1>1. Alone(r)' /\ ToldApart' /\ Solo(r) /\ RestTokens /\ req[r].pc = "query"
    BY StepsAlone, ToldSafe DEF Query, ReqStep, At
  <1>2. UNCHANGED <<row, saved, used, ops>>
    BY DEF Query
  <1>3. cache' = cache /\ \A i \in cache : objs'[i] = objs[i] /\ Fresh(i)'
    BY <1>1, <1>2, Queries, StaysFresh DEF Solo
  <1>4. RestTokens' /\ SavedRow'
    BY <1>1, <1>2, <1>3 DEF RestTokens, Unspent, SInv, SavedRow
  <1>5. CASE req'[r].pc = "idle" /\ req'[r].obj = {}
    <2>1. Solo(r)' /\ SoloTokens(r)'
      BY <1>3, <1>5 DEF Solo, SoloTokens, Holding, At
    <2> QED BY <1>1, <1>4, <2>1, SoloIsEnough
  <1>6. ASSUME NEW w \in row, NEW i \in Ids \ cache,
               req'[r].pc = (IF H(r).load = "query" THEN "use" ELSE "fill"),
               req'[r].obj = {i}, objs'[i] = w, H(r)' = H(r)
        PROVE  SInv'
    <2>1. Fresh(i)' /\ req'[r].pc \in {"use", "fill"}
      BY <1>2, <1>6, RowIsFresh
    <2>2. Solo(r)'
      BY <1>3, <1>6, <2>1 DEF Solo, At
    <2>3. SoloTokens(r)'
      BY <1>1, <1>2, <1>6, <2>1 DEF SoloTokens, RestTokens, Unspent
    <2> QED BY <1>1, <1>4, <2>2, <2>3, SoloIsEnough
  <1> QED BY <1>5, <1>6, Queries

LEMMA FillSafe == ASSUME TInv, SInv, ByTable, ~ overlap, NEW r \in Reqs, Fill(r) PROVE SInv'
  <1>1. /\ Alone(r)' /\ ToldApart' /\ Solo(r) /\ SoloTokens(r) /\ RestTokens /\ req[r].pc = "fill"
        /\ H(r).load # "query"
    BY StepsAlone, ToldSafe DEF Fill, ReqStep, At, ByTable
  <1>2. UNCHANGED <<row, saved, used, ops>>
    BY DEF Fill
  <1>3. /\ req'[r].pc = "use" /\ req'[r].obj = req[r].obj /\ H(r)' = H(r)
        /\ cache' = req[r].obj /\ \A i \in req[r].obj : objs'[i] = objs[i]
    BY Fills
  <1>4. \A i \in req[r].obj : Fresh(i)'
    BY <1>1, <1>2, <1>3, StaysFresh DEF Solo
  <1>5. Solo(r)'
    BY <1>1, <1>3, <1>4 DEF Solo, At
  <1>6. SoloTokens(r)' /\ RestTokens'
    BY <1>1, <1>2, <1>3 DEF SoloTokens, RestTokens, Unspent
  <1> QED BY <1>1, <1>2, <1>5, <1>6, SoloIsEnough DEF SInv, SavedRow

\* A request that ends leaves what is in the cache as fresh as it was.
LEMMA LeaveSafe ==
  ASSUME TInv, SInv, ByTable, ~ overlap, NEW r \in Reqs, Leave(r) \/ LateFlush(r)
  PROVE  SInv'
  <1>1. Alone(r)' /\ ToldApart' /\ Solo(r) /\ RestTokens
    BY StepsAlone, ToldSafe DEF ReqStep
  <1>2. UNCHANGED <<row, saved, used, ops>>
    BY DEF Leave, LateFlush
  <1>3. /\ req'[r].pc = "idle" /\ req'[r].obj = {}
        /\ cache' = cache \/ cache' = {}
        /\ \A i \in cache' : objs'[i] = objs[i]
    BY Leaves
  <1>4. \A i \in cache' : Fresh(i)
    <2>1. CASE Leave(r)
      BY <1>1, <1>3, <2>1 DEF Leave, At, Solo
    <2>2. CASE LateFlush(r)
      BY <2>2, Leaves DEF LateFlush, ByTable
    <2> QED BY <2>1, <2>2
  <1>5. \A i \in cache' : Fresh(i)'
    BY <1>2, <1>3, <1>4, StaysFresh
  <1>6. Solo(r)' /\ SoloTokens(r)'
    BY <1>3, <1>5 DEF Solo, SoloTokens, Holding, At
  <1>7. RestTokens'
    BY <1>1, <1>2, <1>3 DEF RestTokens, Unspent
  <1> QED BY <1>1, <1>2, <1>6, <1>7, SoloIsEnough DEF SInv, SavedRow

\* What an Edit does to one column.
LEMMA ChangedColumn ==
  ASSUME TInv, NEW r \in Reqs, NEW w \in Values, NEW c \in Cols
  PROVE  /\ c # "plain" =>
              Changed(r, w)[c] = IF c \in H(r).edits THEN NewValue(r, c, ops + 1) ELSE w[c]
         /\ c = "plain" /\ "password" \notin H(r).edits => Changed(r, w)[c] = w[c]
  <1>1. "plain" \notin H(r).edits
    BY HandlerOfReq DEF Sound
  <1>2. /\ DOMAIN Edited(r, w, ops + 1) = Cols
        /\ Edited(r, w, ops + 1)[c] = IF c \in H(r).edits THEN NewValue(r, c, ops + 1) ELSE w[c]
    BY DEF Edited
  <1>3. CASE c # "plain"
    BY <1>2, <1>3 DEF Changed
  <1>4. CASE c = "plain"
    BY <1>1, <1>2, <1>4 DEF Changed
  <1> QED BY <1>3, <1>4

LEMMA EditSafe == ASSUME TInv, SInv, ByTable, ~ overlap, NEW r \in Reqs, Edit(r) PROVE SInv'
  <1>1. /\ Alone(r)' /\ ToldApart' /\ Solo(r) /\ SoloTokens(r) /\ RestTokens /\ req[r].pc = "use"
        /\ H(r).edits # {}
    BY StepsAlone, ToldSafe DEF Edit, ReqStep, At
  <1>2. UNCHANGED <<row, saved, used>> /\ ops' = ops + 1 /\ ops \in Nat
    BY DEF Edit, TInv, TypeOK
  <1>3. PICK pc \in {"hash", "flush", "write", "late"} :
           /\ req'[r].pc = pc /\ req'[r].obj = req[r].obj /\ req'[r].op = ops + 1 /\ H(r)' = H(r)
           /\ cache' = CacheAfter(H(r).early)
           /\ objs'[Obj(r)] = Changed(r, objs[Obj(r)])
           /\ \A i \in cache' : i # Obj(r) => objs'[i] = objs[i]
           /\ pc = "hash" => "password" \in H(r).edits
           /\ pc = "hash" => H(r).save = "update"
           /\ pc = "flush" => H(r).save \in {"update", "delete"}
           /\ pc = "write" => H(r).save = "fields"
           /\ pc = "flush" => "password" \notin H(r).edits
    BY Edits
  <1>4. Obj(r) \in Ids /\ req[r].obj = {Obj(r)} /\ objs[Obj(r)] \in Values /\ Sound(H(r))
    BY <1>1, ObjTyped, HandlerOfReq DEF Holding, TInv, TypeOK
  <1>5. cache' \subseteq cache
    BY <1>3 DEF CacheAfter
  <1>6. ASSUME pc = "write"
        PROVE  (\A i \in cache' : Fresh(i)') /\ (cache' = {} \/ (H(r).save = "fields" /\ H(r).edits = {"token"}))
    <2>1. H(r).early \/ (H(r).save = "fields" /\ H(r).load = "query" /\ H(r).edits = {"token"})
      <3>1. H(r).save \in {"update", "fields", "delete", "none"}
        BY HandlerOfReq DEF Handler
      <3>2. H(r).save \in {"fields", "delete"}
        BY <1>1, <1>3, <1>4, <1>6, <3>1 DEF Sound
      <3> QED BY <1>4, <3>2 DEF Sound
    <2>2. CASE H(r).early
      BY <1>3, <2>2 DEF CacheAfter
    <2>3. CASE H(r).save = "fields" /\ H(r).load = "query" /\ H(r).edits = {"token"}
      <3>1. Obj(r) \notin cache /\ \A i \in cache : Fresh(i)
        BY <1>1, <1>4, <2>3 DEF Solo, Holding
      <3> QED BY <1>2, <1>3, <1>5, <2>3, <3>1, StaysFresh
    <2> QED BY <2>1, <2>2, <2>3
  <1>7. ASSUME NEW w \in row, NEW c \in Lasting, pc \in {"hash", "flush"}
        PROVE  (pc = "hash" /\ c = "plain") \/ Agrees(c, objs'[Obj(r)][c], Intended(r, w, c)')
    <2>1. c \in Cols /\ Agrees(c, objs[Obj(r)][c], w[c])
      BY <1>1, <1>4 DEF Lasting, Solo, Fresh, Follows
    <2>2. Intended(r, w, c)' = IF c \in H(r).edits THEN NewValue(r, c, ops + 1) ELSE w[c]
      BY <1>3 DEF Intended, NewValue
    <2>3. CASE c # "plain"
      <3>1. objs'[Obj(r)][c] = IF c \in H(r).edits THEN NewValue(r, c, ops + 1) ELSE objs[Obj(r)][c]
        BY <1>3, <1>4, <2>1, <2>3, ChangedColumn
      <3> QED BY <2>1, <2>2, <3>1 DEF Agrees
    <2>4. CASE c = "plain" /\ pc # "hash"
      <3>1. objs'[Obj(r)][c] = objs[Obj(r)][c]
        BY <1>3, <1>4, <1>7, <2>1, <2>4, ChangedColumn
      <3>2. "plain" \notin H(r).edits
        BY <1>4 DEF Sound
      <3> QED BY <2>1, <2>2, <2>4, <3>1, <3>2 DEF Agrees
    <2> QED BY <2>3, <2>4
  <1>8. Solo(r)'
    <2>1. req'[r].pc \notin {"hash", "flush", "late"} => \A i \in cache' : Fresh(i)'
      BY <1>3, <1>6
    <2>2. req'[r].pc \in {"hash", "flush", "write"} /\ H(r)'.save = "update" =>
            \A i \in req'[r].obj, w \in row', c \in Lasting :
              (req'[r].pc = "hash" /\ c = "plain") \/ Agrees(c, objs'[i][c], Intended(r, w, c)')
      BY <1>2, <1>3, <1>4, <1>7
    <2>3. H(r)'.load = "query" => req'[r].obj \intersect cache' = {}
      BY <1>1, <1>3, <1>5 DEF Solo, Holding
    <2>4. At(r, "write")' => cache' = {} \/ (H(r)'.save = "fields" /\ H(r)'.edits = {"token"})
      BY <1>3, <1>6 DEF At
    <2>5. At(r, "flush")' /\ H(r)'.save = "delete" => cache' = {}
      BY <1>3, <1>4 DEF At, Sound, CacheAfter
    <2>6. ~ At(r, "tz")'
      BY <1>3 DEF At
    <2> QED BY <1>3, <2>1, <2>2, <2>3, <2>4, <2>5, <2>6 DEF Solo
  <1> DEFINE Still(t) == t \in (0 .. ops') \ used'
  <1>9. Still(ops + 1) /\ Still(0) /\ \A t : Unspent(t) => Still(t)
    BY <1>1, <1>2 DEF Unspent, RestTokens
  <1>10. "token" \in Cols /\ Unspent(objs[Obj(r)]["token"])
    BY <1>1, <1>4 DEF Cols, SoloTokens
  <1>11. objs'[Obj(r)]["token"] = IF "token" \in H(r).edits THEN NewValue(r, "token", ops + 1)
                                  ELSE objs[Obj(r)]["token"]
    BY <1>3, <1>4, <1>10, ChangedColumn
  <1>12. Still(objs'[Obj(r)]["token"])
    BY <1>9, <1>10, <1>11 DEF NewValue
  <1> HIDE DEF Still
  <1>13. SoloTokens(r)'
    <2>1. "password" \in H(r).edits /\ H(r).load = "query" => objs'[Obj(r)]["token"] = 0
      BY <1>4, <1>11 DEF Sound, NewValue
    <2> QED BY <1>3, <1>4, <1>9, <1>12, <2>1 DEF SoloTokens, Unspent, Still
  <1>14. RestTokens'
    <2>1. used' \subseteq 1 .. ops'
      BY <1>1, <1>2 DEF RestTokens
    <2>2. \A i \in cache' : Still(objs'[i]["token"])
      BY <1>1, <1>3, <1>5, <1>9, <1>12 DEF RestTokens
    <2> QED BY <1>1, <1>2, <1>9, <2>1, <2>2 DEF RestTokens, Unspent, Still
  <1> QED BY <1>1, <1>2, <1>8, <1>13, <1>14, SoloIsEnough DEF SInv, SavedRow

LEMMA HashSafe == ASSUME TInv, SInv, ByTable, ~ overlap, NEW r \in Reqs, Hash(r) PROVE SInv'
  <1>1. /\ Alone(r)' /\ ToldApart' /\ Solo(r) /\ SoloTokens(r) /\ RestTokens /\ req[r].pc = "hash"
        /\ "password" \in H(r).edits /\ H(r).save = "update"
    BY StepsAlone, ToldSafe DEF Hash, ReqStep, At, ByTable
  <1>2. UNCHANGED <<row, saved, used, ops>>
    BY DEF Hash
  <1>3. /\ req'[r].pc = "flush" /\ req'[r].obj = req[r].obj /\ req'[r].op = req[r].op /\ H(r)' = H(r)
        /\ cache' = cache /\ objs'[Obj(r)] = Hashed(r, objs[Obj(r)])
        /\ \A i \in cache : i # Obj(r) => objs'[i] = objs[i]
    BY Hashes
  <1>4. Obj(r) \in Ids /\ req[r].obj = {Obj(r)} /\ objs[Obj(r)] \in Values /\ Sound(H(r))
    BY <1>1, ObjTyped, HandlerOfReq DEF Holding, TInv, TypeOK
  <1>5. \A c \in Cols : objs'[Obj(r)][c] = IF c = "plain" THEN 0
                                           ELSE IF c = "password" THEN req[r].op
                                           ELSE objs[Obj(r)][c]
    BY <1>3, <1>4 DEF Hashed, Values
  <1>6. ASSUME NEW w \in row, NEW c \in Lasting
        PROVE  Agrees(c, objs'[Obj(r)][c], Intended(r, w, c)')
    <2>1. c \in Cols /\ Intended(r, w, c)' = IF c \in H(r).edits THEN NewValue(r, c, req[r].op) ELSE w[c]
      BY <1>3 DEF Intended, NewValue, Lasting
    <2>2. CASE c = "plain"
      <3>1. w[c] = 0
        BY <2>2 DEF SInv, SavedRow, Follows, Agrees
      <3> QED BY <1>4, <1>5, <2>1, <2>2, <3>1 DEF Sound, Agrees
    <2>3. CASE c = "password"
      BY <1>1, <1>4, <1>5, <2>1, <2>3 DEF NewValue, Sound, Agrees
    <2>4. CASE c \notin {"plain", "password"}
      BY <1>1, <1>4, <1>5, <2>1, <2>4 DEF Solo, Intended
    <2> QED BY <2>2, <2>3, <2>4
  <1>7. Solo(r)'
    BY <1>1, <1>2, <1>3, <1>4, <1>6 DEF Solo, Holding, At
  <1>8. objs'[Obj(r)]["token"] = objs[Obj(r)]["token"]
    BY <1>5 DEF Cols
  <1>9. SoloTokens(r)' /\ RestTokens'
    BY <1>1, <1>2, <1>3, <1>4, <1>8 DEF SoloTokens, RestTokens, Unspent
  <1> QED BY <1>1, <1>2, <1>7, <1>9, SoloIsEnough DEF SInv, SavedRow

LEMMA FlushSafe ==
  ASSUME TInv, SInv, ByTable, ~ overlap, NEW r \in Reqs, FlushAndPublish(r)
  PROVE  SInv'
  <1>1. /\ Alone(r)' /\ ToldApart' /\ Solo(r) /\ SoloTokens(r) /\ RestTokens /\ req[r].pc = "flush"
        /\ H(r).save \in {"update", "delete"}
    BY StepsAlone, ToldSafe DEF FlushAndPublish, ReqStep, At, ByTable
  <1>2. UNCHANGED <<row, saved, used, ops>>
    BY DEF FlushAndPublish
  <1>3. /\ req'[r].pc = "write" /\ req'[r].obj = req[r].obj /\ req'[r].op = req[r].op /\ H(r)' = H(r)
        /\ cache' = CacheAfter(H(r).save = "update") /\ \A i \in req[r].obj : objs'[i] = objs[i]
    BY Flushes
  <1>4. cache' = {}
    BY <1>1, <1>3 DEF CacheAfter, Solo, At
  <1>5. \A w, c : Intended(r, w, c)' = Intended(r, w, c)
    BY <1>3 DEF Intended, NewValue
  <1>6. H(r).save = "update" => \A i \in req'[r].obj, w \in row', c \in Lasting :
                                    Agrees(c, objs'[i][c], Intended(r, w, c)')
    BY <1>1, <1>2, <1>3, <1>5 DEF Solo
  <1>7. Solo(r)'
    BY <1>1, <1>3, <1>4, <1>6 DEF Solo, At
  <1>8. SoloTokens(r)' /\ RestTokens'
    BY <1>1, <1>2, <1>3, <1>4 DEF SoloTokens, RestTokens, Unspent
  <1> QED BY <1>1, <1>2, <1>7, <1>8, SoloIsEnough DEF SInv, SavedRow

LEMMA ZoneSafe ==
  ASSUME TInv, SInv, ByTable, ~ overlap, NEW r \in Reqs, ReadZone(r) \/ SetZone(r)
  PROVE  SInv'
  <1>1. /\ Alone(r)' /\ ToldApart' /\ Solo(r) /\ SoloTokens(r) /\ RestTokens /\ req[r].pc \in {"use", "tz"}
        /\ (SetZone(r) => req[r].pc = "tz")
    BY StepsAlone, ToldSafe DEF ReadZone, SetZone, ReqStep, At
  <1>2. UNCHANGED <<row, saved, used, ops>>
    BY DEF ReadZone, SetZone
  <1>3. /\ req'[r].obj = req[r].obj /\ req'[r].op = req[r].op /\ H(r)' = H(r)
        /\ \/ ReadZone(r) /\ req'[r].pc = "tz" /\ objs[Obj(r)]["location"] = 0
           \/ SetZone(r) /\ req'[r].pc = "use"
        /\ cache' = cache /\ \A i \in cache : i # Obj(r) => objs'[i] = objs[i]
        /\ ReadZone(r) => objs'[Obj(r)] = objs[Obj(r)]
        /\ SetZone(r) => objs'[Obj(r)] = Zoned(objs[Obj(r)])
    BY Zones
  <1>4. Obj(r) \in Ids /\ req[r].obj = {Obj(r)} /\ objs[Obj(r)] \in Values /\ cache \subseteq Ids
    BY <1>1, ObjTyped DEF Holding, TInv, TypeOK
  <1>5. PICK i \in Ids : i = Obj(r)
    BY <1>4
  <1>6. Fresh(i) /\ Fresh(i)' /\ (SetZone(r) => Nowhere(i))
    <2>1. Fresh(i) /\ (SetZone(r) => Nowhere(i))
      BY <1>1, <1>4, <1>5 DEF Solo, At
    <2>2. CASE ReadZone(r)
      BY <1>2, <1>3, <1>5, <2>1, <2>2, StaysFresh
    <2>3. CASE SetZone(r)
      BY <1>2, <1>3, <1>5, <2>1, <2>3, ZonedFresh
    <2> QED BY <2>1, <2>2, <2>3
  <1>7. \A j \in cache : Fresh(j)'
    <2>1. ASSUME NEW j \in cache, j # i PROVE Fresh(j)'
      <3>1. Fresh(j) /\ objs'[j] = objs[j]
        BY <1>1, <1>3, <1>5, <2>1 DEF Solo
      <3> QED BY <1>2, <3>1, StaysFresh
    <2> QED BY <1>6, <2>1
  <1>8. Solo(r)'
    <2>1. At(r, "tz")' => Nowhere(i)'
      <3>1. At(r, "tz")' => objs'[Obj(r)]["location"] = 0
        BY <1>3 DEF At
      <3> QED BY <1>5, <3>1 DEF Nowhere
    <2>2. req'[r].obj = {i}
      BY <1>3, <1>4, <1>5
    <2> QED BY <1>1, <1>3, <1>6, <1>7, <2>1, <2>2 DEF Solo, Holding, At
  <1>9. objs'[Obj(r)]["token"] = objs[Obj(r)]["token"]
    BY <1>3, <1>4 DEF Zoned, Values, Cols
  <1>10. SoloTokens(r)' /\ RestTokens'
    BY <1>1, <1>2, <1>3, <1>4, <1>9 DEF SoloTokens, RestTokens, Unspent
  <1> QED BY <1>1, <1>2, <1>8, <1>10, SoloIsEnough DEF SInv, SavedRow

\* A row that is written has the columns that the handler changes, and keeps all others.
LEMMA WrittenAsIntended ==
  ASSUME TInv, ByTable, NEW r \in Reqs, Solo(r), req[r].pc = "write", H(r).save # "delete",
         NEW w \in row, NEW c \in Lasting
  PROVE  /\ Agrees(c, Written(r, w)[c], Intended(r, w, c))
         /\ H(r).save = "fields" => Written(r, w)[c] = Intended(r, w, c)
  <1>1. H(r).save \in {"update", "fields"}
    <2>1. H(r).save \in {"update", "fields", "delete", "none"}
      BY HandlerOfReq DEF Handler
    <2> QED BY <2>1 DEF ByTable, At
  <1>2. CASE H(r).save = "update"
    <2>1. Obj(r) \in req[r].obj
      BY ObjTyped DEF Holding
    <2> QED BY <1>2, <2>1 DEF Written, Solo
  <1>3. CASE H(r).save = "fields"
    BY <1>3 DEF Written, Edited, Intended, Lasting, Agrees
  <1> QED BY <1>1, <1>2, <1>3

LEMMA WriteSafe == ASSUME TInv, SInv, ByTable, ~ overlap, NEW r \in Reqs, Write(r) PROVE SInv'
  <1>1. /\ Alone(r)' /\ ToldApart' /\ Solo(r) /\ SoloTokens(r) /\ RestTokens /\ SavedRow /\ req[r].pc = "write"
        /\ H(r).save # "none" /\ Sound(H(r)) /\ "token" \in Cols /\ "plain" \in Cols
    BY StepsAlone, ToldSafe, HandlerOfReq DEF Write, ReqStep, At, ByTable, SInv, Cols
  <1>2. /\ cache' = cache /\ \A i \in cache : objs'[i] = objs[i]
        /\ req'[r].pc \in {"idle", "late"}
        /\ \A i \in req'[r].obj : i \in req[r].obj /\ objs'[i] = objs[i]
    BY Writes
  <1>3. cache = {} \/ (H(r).save = "fields" /\ H(r).edits = {"token"})
    BY <1>1 DEF Solo, At
  <1>4. ops' = ops
    BY DEF Write
  <1>5. CASE UNCHANGED <<row, saved, used>>
    <2>1. \A i \in cache : Fresh(i)'
      BY <1>1, <1>2, <1>5, StaysFresh DEF Solo
    <2>2. Solo(r)'
      BY <1>2, <2>1 DEF Solo, Holding, At
    <2>3. SoloTokens(r)' /\ RestTokens' /\ SavedRow'
      BY <1>1, <1>2, <1>4, <1>5 DEF SoloTokens, RestTokens, Unspent, SavedRow
    <2> QED BY <1>1, <2>2, <2>3, SoloIsEnough
  <1>6. CASE /\ row' = IF H(r).save = "delete" THEN {} ELSE {Written(r, w) : w \in row}
             /\ saved' = [c \in Cols |-> IF c \in H(r).edits THEN NewValue(r, c, req[r].op) ELSE saved[c]]
             /\ used' = used \union (IF "password" \in H(r).edits /\ H(r).load = "query"
                                     THEN {w["token"] : w \in row} \ {0} ELSE {})
    <2>1. \A v \in row' : H(r).save # "delete" /\ \E w \in row : v = Written(r, w)
      BY <1>6
    <2>2. \A w \in row, c \in Lasting : H(r).save # "delete" =>
              /\ Agrees(c, Written(r, w)[c], Intended(r, w, c))
              /\ H(r).save = "fields" => Written(r, w)[c] = Intended(r, w, c)
      BY <1>1, WrittenAsIntended
    <2>3. SavedRow'
      <3>1. saved'["plain"] = 0
        BY <1>1, <1>6 DEF SavedRow, Sound
      <3>2. ASSUME NEW v \in row', NEW c \in Lasting PROVE Agrees(c, v[c], saved'[c])
        <4>1. PICK w \in row : H(r).save # "delete" /\ v = Written(r, w)
          BY <2>1
        <4>2. Agrees(c, v[c], Intended(r, w, c)) /\ Agrees(c, w[c], saved[c]) /\ c \in Cols
          BY <1>1, <2>2, <4>1 DEF SavedRow, Follows, Lasting
        <4>3. saved'[c] = IF c \in H(r).edits THEN NewValue(r, c, req[r].op) ELSE saved[c]
          BY <1>6, <4>2
        <4>4. CASE c \in H(r).edits
          BY <4>2, <4>3, <4>4 DEF Intended
        <4>5. CASE c \notin H(r).edits
          BY <4>2, <4>3, <4>5, AgreesOn DEF Intended
        <4> QED BY <4>4, <4>5
      <3>3. \A v, w \in row' : v = w
        BY <1>1, <2>1 DEF SavedRow
      <3> QED BY <3>1, <3>2, <3>3 DEF SavedRow, Follows, Agrees
    <2>4. \A i \in cache : Fresh(i)'
      <3>1. ASSUME NEW i \in cache, NEW v \in row', NEW c \in Lasting PROVE Agrees(c, objs'[i][c], v[c])
        <4>1. PICK w \in row : H(r).save # "delete" /\ v = Written(r, w)
          BY <2>1
        <4>2. v[c] = w[c]
          BY <1>3, <2>2, <3>1, <4>1 DEF Intended, Lasting
        <4>3. Agrees(c, objs[i][c], w[c])
          BY <1>1, <3>1 DEF Solo, Fresh, Follows, Agrees
        <4> QED BY <1>2, <3>1, <4>2, <4>3
      <3>2. cache # {} => row' # {}
        BY <1>1, <1>3, <1>6 DEF Solo, Fresh
      <3> QED BY <3>1, <3>2 DEF Fresh, Follows, Agrees
    <2>5. Solo(r)'
      BY <1>2, <2>4 DEF Solo, Holding, At
    <2>6. \A w \in row : w["token"] \in 0 .. ops
      BY <1>1 DEF RestTokens, Unspent
    <2>7. used' \subseteq 1 .. ops
      <3>1. used \subseteq 1 .. ops /\ ops \in Nat
        BY <1>1 DEF RestTokens, TInv, TypeOK
      <3>2. ASSUME NEW t \in used', t \notin used PROVE t \in 1 .. ops
        <4>1. PICK w \in row : t = w["token"] /\ t # 0
          BY <1>6, <3>2
        <4> QED BY <2>6, <3>1, <4>1
      <3> QED BY <3>1, <3>2
    <2> DEFINE Spends == "password" \in H(r).edits /\ H(r).load = "query"
    <2>8. ASSUME NEW t, Unspent(t), Spends => t = 0 PROVE t \in (0 .. ops) \ used'
      <3>1. CASE Spends
        BY <2>7, <2>8, <3>1 DEF Unspent
      <3>2. CASE ~ Spends
        BY <1>6, <2>8, <3>2 DEF Unspent
      <3> QED BY <3>1, <3>2
    <2>9. \A i \in req[r].obj : Unspent(objs[i]["token"]) /\ (Spends => objs[i]["token"] = 0)
      BY <1>1 DEF SoloTokens
    <2>10. Spends => H(r).save = "update" /\ cache = {}
      BY <1>1, <1>3 DEF Sound
    <2> HIDE DEF Spends
    <2>11. \A i \in req'[r].obj : Unspent(objs[i]["token"])'
      BY <1>2, <1>4, <2>8, <2>9 DEF Unspent
    <2>12. \A i \in cache' : Unspent(objs[i]["token"])'
      BY <1>1, <1>2, <1>4, <2>8, <2>10 DEF Unspent, RestTokens
    <2>13. ASSUME NEW v \in row' PROVE v["token"] \in (0 .. ops) \ used'
      <3>1. PICK w \in row : H(r).save # "delete" /\ v = Written(r, w)
        BY <2>1
      <3>2. H(r).save \in {"update", "fields"}
        <4>1. H(r).save \in {"update", "fields", "delete", "none"}
          BY HandlerOfReq DEF Handler
        <4> QED BY <1>1, <3>1, <4>1
      <3>3. CASE H(r).save = "update"
        <4>1. Obj(r) \in req[r].obj /\ v = objs[Obj(r)]
          BY <1>1, <3>1, <3>3, ObjTyped DEF Holding, Written
        <4> QED BY <2>8, <2>9, <4>1
      <3>4. CASE H(r).save = "fields"
        <4>1. "password" \notin H(r).edits /\ ~ Spends
          BY <1>1, <2>10, <3>4 DEF Sound
        <4>2. v = Edited(r, w, req[r].op)
          BY <3>1, <3>4 DEF Written
        <4>3. v["token"] \in {0, req[r].op, w["token"]}
          BY <1>1, <4>1, <4>2 DEF Edited, NewValue
        <4>4. Unspent(req[r].op) /\ Unspent(w["token"]) /\ Unspent(0)
          BY <1>1 DEF SoloTokens, RestTokens, Unspent, TInv, TypeOK
        <4> QED BY <2>8, <4>1, <4>3, <4>4
      <3> QED BY <3>2, <3>3, <3>4
    <2>14. SoloTokens(r)'
      BY <1>2, <2>11 DEF SoloTokens
    <2>15. RestTokens'
      BY <1>4, <2>7, <2>12, <2>13 DEF RestTokens, Unspent
    <2> QED BY <1>1, <2>3, <2>5, <2>14, <2>15, SoloIsEnough
  <1> QED BY <1>5, <1>6 DEF Write

LEMMA ExpireSafe == ASSUME TInv, SInv, ~ overlap, Expire PROVE SInv'
  <1>1. /\ cache' = {} /\ UNCHANGED <<row, req, told, saved, used, ops>> /\ \A r \in Reqs : H(r)' = H(r)
    BY DEF Expire, H
  <1>2. /\ \A r \in Reqs : \A i \in req[r].obj : objs'[i] = objs[i]
        /\ \A i \in told.obj : objs'[i] = objs[i]
    BY DEF Expire, Collected, Held, TInv, TypeOK, ReqState, Listener
  <1>3. \A r \in Reqs : \A i \in req[r].obj : Fresh(i) => Fresh(i)'
    BY <1>1, <1>2, StaysFresh
  <1>4. (OneByOne /\ CacheClean /\ CacheApart /\ SavedRow)'
    BY <1>1 DEF SInv, OneByOne, CacheClean, CacheApart, SavedRow, At
  <1>5. LoadedFresh'
    BY <1>1, <1>3 DEF SInv, LoadedFresh
  <1>6. \A r \in Reqs : \A w, c : Intended(r, w, c)' = Intended(r, w, c)
    BY <1>1 DEF Intended, NewValue
  <1>7. Prepared'
    BY <1>1, <1>2, <1>6 DEF SInv, Prepared
  <1>8. TokensUnused'
    BY <1>1, <1>2 DEF SInv, TokensUnused, Unspent
  <1>9. Zoning' /\ ToldApart'
    BY <1>1, <1>2 DEF SInv, Zoning, ToldApart, Nowhere, At
  <1> QED BY <1>4, <1>5, <1>7, <1>8, <1>9 DEF SInv

LEMMA CrashSafe == ASSUME TInv, SInv, ~ overlap, Crash PROVE SInv'
  <1>1. /\ cache' = {} /\ UNCHANGED <<row, saved, used, ops>> /\ told' = Silent
        /\ \A r \in Reqs : req'[r].pc = "idle" /\ req'[r].obj = {}
    BY DEF Crash, Idle
  <1>2. (OneByOne /\ CacheClean /\ CacheApart /\ SavedRow /\ LoadedFresh /\ Prepared)'
    BY <1>1 DEF SInv, OneByOne, CacheClean, CacheApart, SavedRow, LoadedFresh, Prepared, At, Holding
  <1>3. TokensUnused'
    BY <1>1 DEF SInv, TokensUnused, Unspent
  <1>4. Zoning' /\ ToldApart'
    BY <1>1 DEF Zoning, ToldApart, Silent, At
  <1> QED BY <1>2, <1>3, <1>4 DEF SInv

\* The leaderboard, asking for the time zone, changes an object that has no location, if any.
LEMMA ComputeKeeps ==
  ASSUME TInv, SInv, Compute, NEW i \in cache \union UNION {req[r].obj : r \in Reqs}
  PROVE  /\ objs'[i] = objs[i] \/ (i \in told.obj /\ Nowhere(i) /\ objs'[i] = Zoned(objs[i]))
         /\ objs'[i]["token"] = objs[i]["token"]
         /\ Fresh(i) => Fresh(i)'
  <1>1. i \in Ids /\ objs[i] \in Values
    BY DEF TInv, TypeOK, ReqState
  <1>2. /\ objs'[i] = objs[i] \/ (i \in told.obj /\ Nowhere(i) /\ objs'[i] = Zoned(objs[i]))
        /\ row' = row
    BY Computes DEF SInv, ToldApart
  <1>3. objs'[i]["token"] = objs[i]["token"]
    BY <1>1, <1>2 DEF Zoned, Values, Cols
  <1> QED BY <1>1, <1>2, <1>3, StaysFresh, ZonedFresh

LEMMA ComputeSafe == ASSUME TInv, SInv, ~ overlap, Compute PROVE SInv'
  <1>1. UNCHANGED <<row, cache, req, saved, used, ops>> /\ \A r \in Reqs : H(r)' = H(r)
    BY Computes DEF H
  <1>2. \A i \in cache : objs'[i]["token"] = objs[i]["token"] /\ (Fresh(i) => Fresh(i)')
    BY ComputeKeeps
  <1>3. \A r \in Reqs : \A i \in req[r].obj :
            objs'[i]["token"] = objs[i]["token"] /\ (Fresh(i) => Fresh(i)')
    BY ComputeKeeps
  <1>4. (OneByOne /\ CacheClean /\ CacheApart /\ SavedRow /\ LoadedFresh)'
    BY <1>1, <1>2, <1>3 DEF SInv, OneByOne, CacheClean, CacheApart, SavedRow, LoadedFresh, At
  <1>5. TokensUnused'
    BY <1>1, <1>2, <1>3 DEF SInv, TokensUnused, Unspent
  <1>6. Prepared'
    <2>1. SUFFICES ASSUME NEW r \in Reqs, req[r].pc \in {"hash", "flush", "write"}, H(r).save = "update",
                          NEW i \in req[r].obj, NEW w \in row, NEW c \in Lasting, ~ (req[r].pc = "hash" /\ c = "plain")
                   PROVE  Agrees(c, objs'[i][c], Intended(r, w, c))
      BY <1>1 DEF Prepared, Intended, NewValue
    <2>2. Agrees(c, objs[i][c], Intended(r, w, c)) /\ i \in Ids /\ c \in Cols
      BY <2>1 DEF SInv, Prepared, TInv, TypeOK, ReqState, Lasting
    <2>3. PICK y : y = Intended(r, w, c)
      OBVIOUS
    <2>4. objs'[i] = objs[i] \/ (Nowhere(i) /\ objs'[i] = Zoned(objs[i]))
      BY ComputeKeeps
    <2> QED BY <2>2, <2>3, <2>4, ZonedAgrees
  <1>7. Zoning'
    <2>1. \A r \in Reqs : At(r, "tz") => \A i \in req[r].obj : i \notin told.obj /\ Nowhere(i)
      BY DEF SInv, Zoning, ToldApart, Changing, At
    <2>2. \A r \in Reqs : \A i \in req[r].obj : objs'[i] = objs[i] \/ i \in told.obj
      BY ComputeKeeps
    <2> QED BY <1>1, <2>1, <2>2 DEF Zoning, Nowhere, At
  <1>8. ToldApart'
    <2>1. CASE told' = Silent
      BY <2>1 DEF ToldApart, Silent
    <2>2. CASE /\ told' = [told EXCEPT !.pc = "tz"] /\ objs' = objs
               /\ \E i \in told.obj : objs[i]["location"] = 0
      <3>1. told'.obj = told.obj
        BY <2>2 DEF TInv, TypeOK, Listener
      <3>2. \A i \in told.obj : Nowhere(i)'
        BY <2>2 DEF TInv, OneTold, Nowhere
      <3> QED BY <1>1, <3>1, <3>2 DEF SInv, ToldApart
    <2> QED BY <2>1, <2>2, Computes
  <1> QED BY <1>4, <1>5, <1>6, <1>7, <1>8 DEF SInv

\* The invariant: what holds in any case, and what holds while requests do not overlap.
Invariant == TInv /\ ByTable /\ (~ overlap => SInv)

LEMMA InitSafe == ASSUME Init PROVE SInv
  <1>1. \A c \in Cols : NewRow[c] = 0
    BY DEF NewRow
  <1>2. "plain" \in Cols /\ "token" \in Cols
    BY DEF Cols
  <1>3. \A r \in Reqs : req[r].pc = "idle" /\ req[r].obj = {}
    BY DEF Init, Idle
  <1>4. (\A c \in Lasting : [NewRow EXCEPT !["token"] = 1][c] = 0) /\ [NewRow EXCEPT !["token"] = 1]["token"] = 1
    BY DEF NewRow, Lasting, Cols
  <1>5. SavedRow
    BY <1>1, <1>2, <1>4 DEF Init, SavedRow, Follows, Agrees, Lasting
  <1>6. TokensUnused
    BY <1>3, <1>4 DEF Init, TokensUnused, Unspent
  <1>7. OneByOne /\ CacheClean /\ CacheApart /\ LoadedFresh /\ Prepared /\ Zoning /\ ToldApart
    BY <1>3 DEF Init, OneByOne, CacheClean, CacheApart, LoadedFresh, Prepared, Zoning, ToldApart,
                At, Holding, Silent
  <1> QED BY <1>5, <1>6, <1>7 DEF SInv

LEMMA NextSafe == ASSUME Invariant, [Next]_vars PROVE Invariant'
  <1>1. TInv' /\ ByTable'
    BY NextTypes, NextByTable DEF Invariant
  <1>2. overlap' = overlap
    BY DEF Next, vars, Arrive, ReqStep, Query, Fill, Leave, Edit, Hash, FlushAndPublish, Write,
           LateFlush, ReadZone, SetZone, Compute, Expire, Crash
  <1>3. ASSUME ~ overlap PROVE SInv'
    <2>1. TInv /\ ByTable /\ SInv
      BY <1>3 DEF Invariant
    <2>2. CASE UNCHANGED vars
      BY <2>1, <2>2 DEF vars, SInv, OneByOne, CacheClean, CacheApart, SavedRow, LoadedFresh, Prepared,
             Zoning, ToldApart, Nowhere, At, H, TokensUnused, Unspent, Fresh, Follows, Agrees, Intended, NewValue
    <2> QED BY <1>3, <2>1, <2>2, ArriveSafe, QuerySafe, FillSafe, LeaveSafe, EditSafe, HashSafe, FlushSafe,
             WriteSafe, ZoneSafe, ComputeSafe, ExpireSafe, CrashSafe DEF Next, ReqStep
  <1> QED BY <1>1, <1>2, <1>3 DEF Invariant

THEOREM Safe == Spec => []Invariant
  <1>1. Init => Invariant
    BY InitTypes, InitSafe DEF Invariant, Init, ByTable, At, Idle
  <1>2. Invariant /\ [Next]_vars => Invariant'
    BY NextSafe
  <1> QED BY <1>1, <1>2, PTL DEF Spec

\* While the requests of a user do not overlap, what one of them has saved is not undone by
\* the whole-row update of another, and the row never holds a password that is not hashed.
THEOREM UpdatesStand == Spec => []SavedStands
  <1>1. Invariant => SavedStands
    BY DEF Invariant, SInv, SavedRow, SavedStands
  <1> QED BY <1>1, Safe, PTL

\* Between two requests the cached user agrees with the row, whatever they changed, refused or
\* failed to save.
THEOREM CacheAgrees == Spec => []CacheFresh
  <1>1. Invariant => CacheFresh
    BY DEF Invariant, SInv, CacheClean, Fresh, CacheFresh, At
  <1> QED BY <1>1, Safe, PTL

\* A reset token that has set a password is in the row no more, and does not come back.
THEOREM TokensWorkOnce == Spec => []UsedTokenIsDead
  <1>1. Invariant => UsedTokenIsDead
    BY DEF Invariant, SInv, TokensUnused, Unspent, UsedTokenIsDead
  <1> QED BY <1>1, Safe, PTL

----------------------------------------------------------------------------
(***************************************************************************)
(* MCUsers: a behaviour of the three parts together is one of each part,   *)
(* so that the theorems about the parts hold there.  SP and GP are the     *)
(* instances S and G with the theorems about them.                         *)
(***************************************************************************)
SP == INSTANCE SubscriptionProofs WITH row <- subscriber, faults <- failures
GP == INSTANCE SignupProofs WITH overlap <- crowded, req <- form, faults <- errors

LEMMA SubscriptionInit == S!Init <=> SP!Init
  BY DEF S!Init, SP!Init, S!Nobody, SP!Nobody

LEMMA SubscriptionSteps == S!Next <=> SP!Next
  <1>1. S!jobs = SP!jobs /\ (S!Fault <=> SP!Fault) /\ (S!Order <=> SP!Order)
    BY DEF S!jobs, SP!jobs, S!Fault, SP!Fault, S!Order, SP!Order
  <1>2. S!AtStripe <=> SP!AtStripe
    BY DEF S!AtStripe, SP!AtStripe, S!Subscribe, SP!Subscribe, S!Portal, SP!Portal, S!PeriodEnds, SP!PeriodEnds,
           S!Order, SP!Order, S!Tell, SP!Tell, S!Event, SP!Event, S!Checkout, SP!Checkout, S!jobs, SP!jobs
  <1>3. \A i : S!PostWebhook(i) <=> SP!PostWebhook(i)
    BY DEF S!PostWebhook, SP!PostWebhook, S!HandleSubscriptionEvent, SP!HandleSubscriptionEvent,
           S!Fault, SP!Fault, S!jobs, SP!jobs, S!RemoveAt, SP!RemoveAt
  <1>4. S!Server <=> SP!Server
    BY DEF S!Server, SP!Server, S!ClearSubscriptionNotificationStatus, SP!ClearSubscriptionNotificationStatus,
           S!ReadUsers, SP!ReadUsers, S!NotifyExpiringSubscription, SP!NotifyExpiringSubscription,
           S!SendMail, SP!SendMail, S!RunCleanData, SP!RunCleanData, S!CleanUserDataBefore, SP!CleanUserDataBefore,
           S!DeleteUser, SP!DeleteUser, S!CancelUserSubscription, SP!CancelUserSubscription,
           S!Active, SP!Active, S!AlreadySent, SP!AlreadySent, S!Due, SP!Due, S!RunCleanDataJob, SP!RunCleanDataJob,
           S!Fault, SP!Fault, S!Tell, SP!Tell, S!Event, SP!Event, S!jobs, SP!jobs
  <1>5. (S!RequestDeletion <=> SP!RequestDeletion) /\ (S!Tick <=> SP!Tick)
    BY DEF S!RequestDeletion, SP!RequestDeletion, S!Tick, SP!Tick, S!Prompt, SP!Prompt, S!Order, SP!Order
  <1> QED BY <1>2, <1>3, <1>4, <1>5 DEF S!Next, SP!Next, S!Webhooks, SP!Webhooks

LEMMA SignupInit == G!Init <=> GP!Init
  BY DEF G!Init, GP!Init, G!Idle, GP!Idle

LEMMA SignupSteps == G!Next <=> GP!Next
  BY DEF G!Next, GP!Next, G!GenerateInvite, GP!GenerateInvite, G!CodeAges, GP!CodeAges, G!Arrive, GP!Arrive,
         G!ReqStep, GP!ReqStep, G!ReadCode, GP!ReadCode, G!RevokeCode, GP!RevokeCode, G!Validate, GP!Validate,
         G!CountUsers, GP!CountUsers, G!FindOne, GP!FindOne, G!Create, GP!Create,
         G!At, GP!At, G!To, GP!To, G!Done, GP!Done, G!Fault, GP!Fault, G!Idle, GP!Idle

\* Each part takes a step of its own, or rests.
LEMMA PartsStep ==
  ASSUME [AllNext]_allVars
  PROVE  [Next]_vars /\ [SP!Next]_(SP!vars) /\ [GP!Next]_(GP!vars)
  <1>1. CASE AccountNext
    BY <1>1 DEF AccountNext, subscriptionVars, signupVars, SP!vars, GP!vars
  <1>2. CASE SubscriptionNext
    BY <1>2, SubscriptionSteps DEF SubscriptionNext, signupVars, GP!vars
  <1>3. CASE SignupNext
    BY <1>3, SignupSteps DEF SignupNext, subscriptionVars, SP!vars
  <1>4. CASE UNCHANGED allVars
    BY <1>4 DEF allVars, subscriptionVars, signupVars, SP!vars, GP!vars
  <1> QED BY <1>1, <1>2, <1>3, <1>4 DEF AllNext

THEOREM PartsOfUsers == AllFairSpec => Spec /\ SP!Spec /\ GP!Spec
  <1>1. AllInit => Init /\ SP!Init /\ GP!Init
    BY SubscriptionInit, SignupInit DEF AllInit
  <1>2. [AllNext]_allVars => [Next]_vars /\ [SP!Next]_(SP!vars) /\ [GP!Next]_(GP!vars)
    BY PartsStep
  <1> QED BY <1>1, <1>2, PTL DEF AllFairSpec, Spec, SP!Spec, GP!Spec

\* Every variable of accounts, subscription and sign-up stays within its type.
THEOREM UsersTyped == ASSUME SP!Bounds PROVE AllFairSpec => []AllTypesOK
  <1>1. S!TypeOK <=> SP!TypeOK
    BY DEF S!TypeOK, SP!TypeOK, S!Days, SP!Days, S!Users, SP!Users, S!States, SP!States
  <1>2. G!TypeOK <=> GP!TypeOK
    BY DEF G!TypeOK, GP!TypeOK, G!Accounts, GP!Accounts
  <1>3. TypeOK /\ SP!TypeOK /\ GP!TypeOK => AllTypesOK
    BY <1>1, <1>2 DEF AllTypesOK
  <1> QED BY <1>3, PartsOfUsers, TypeCorrect, SP!TypeCorrect, GP!TypeCorrect, PTL

\* The users' run: webhooks handled in order leave the row with the dates of Stripe.
THEOREM WebhooksFollow == ASSUME SP!Bounds PROVE AllFairSpec => []RowFollowsStripe
  <1>1. SP!RowFollowsStripe => RowFollowsStripe
    BY DEF RowFollowsStripe, S!RowFollowsStripe, SP!RowFollowsStripe
  <1> QED BY <1>1, PartsOfUsers, SP!RowIsStripes, PTL

\* The users' run: two reminders of one end are more than the notice apart.
THEOREM RemindersSpaced == ASSUME SP!Bounds PROVE AllFairSpec => RemindersApart
  <1> DEFINE Apart == failures = 0 /\ sent' # sent /\ sent.until = sent'.until /\ subscriber.until = sent.until
                      => sent'.day - sent.day > Notice
  <1>1. [Apart]_(SP!vars) => [Apart]_(S!vars)
    BY DEF S!vars, SP!vars
  <1>2. SP!RemindersApart => [][Apart]_(SP!vars)
    BY DEF SP!RemindersApart
  <1>3. [][Apart]_(S!vars) => RemindersApart
    BY DEF RemindersApart, S!RemindersApart
  <1> QED BY <1>1, <1>2, <1>3, PartsOfUsers, SP!RemindersStayApart, PTL

\* The users' run: an expired subscriber's old data is not cleaned before the reminder.
THEOREM CleaningWarned == ASSUME SP!Bounds PROVE AllFairSpec => WarnedBeforeCleaned
  <1> DEFINE Warned == failures = 0 /\ cleanup' = {} =>
                \A u \in cleanup : u.until \in 1 .. (now - 1) /\ u = subscriber => sent.until = u.until
  <1>1. [Warned]_(SP!vars) => [Warned]_(S!vars)
    BY DEF S!vars, SP!vars
  <1>2. SP!WarnedBeforeCleaned => [][Warned]_(SP!vars)
    BY DEF SP!WarnedBeforeCleaned
  <1>3. [][Warned]_(S!vars) => WarnedBeforeCleaned
    BY DEF WarnedBeforeCleaned, S!WarnedBeforeCleaned
  <1> QED BY <1>1, <1>2, <1>3, PartsOfUsers, SP!CleanedAfterWarning, PTL

\* The users' run: of the requests for one name, one is told that it created the account.
THEOREM NameCreatedOnce == AllFairSpec => []CreatedOnce
  <1>1. GP!CreatedOnce => CreatedOnce
    BY DEF CreatedOnce, G!CreatedOnce, GP!CreatedOnce, G!At, GP!At
  <1> QED BY <1>1, PartsOfUsers, GP!OneCreator, PTL

\* The users' run: an invite code admits one account.
THEOREM CodeOpensOnce == ASSUME NoCode \notin Codes PROVE AllFairSpec => []OneAccountPerCode
  <1>1. GP!OneAccountPerCode => OneAccountPerCode
    BY DEF OneAccountPerCode, G!OneAccountPerCode, GP!OneAccountPerCode
  <1> QED BY <1>1, PartsOfUsers, GP!CodeAdmitsOne, PTL

\* The users' run: the first account is the administrator's, and the only one.
THEOREM FirstIsAdmin == ASSUME NoCode \notin Codes PROVE AllFairSpec => []OneAdministrator
  <1>1. \A A : G!Cardinality(A) = GP!Cardinality(A)
    BY DEF G!Cardinality, GP!Cardinality
  <1>2. GP!OneAdministrator => OneAdministrator
    BY <1>1 DEF OneAdministrator, G!OneAdministrator, GP!OneAdministrator
  <1> QED BY <1>2, PartsOfUsers, GP!OneAdmin, PTL

=============================================================================
