------------------------------ MODULE Accounts ------------------------------
(***************************************************************************)
(* One user's row, the copies of it in memory, and every handler that      *)
(* reads or saves it: services/user.go with its cache, the repository,     *)
(* the authentication middleware, and the handlers of routes/settings.go,  *)
(* routes/login.go and routes/subscription.go.                             *)
(*                                                                         *)
(* GetUserById hands out a pointer into the cache, so requests of a user   *)
(* share one object and see each other's changes before these are saved.   *)
(* Update writes ALL columns of such an object, and flushes the cache      *)
(* before it writes.  A handler is described by how it gets the object,    *)
(* which columns it changes and how it saves; one sequence of steps then   *)
(* serves all handlers.  Accounts share nothing but the flush of the whole *)
(* cache, hence one account.  Values are abstracted to the number of the   *)
(* request that chose them (0: the value at the start, or none).           *)
(*                                                                         *)
(* User.TZ() changes the object it is asked of: an empty location becomes  *)
(* "Local" there, whoever shares the object, and the next update saves it. *)
(***************************************************************************)
EXTENDS Integers, FiniteSets

CONSTANTS
    Reqs,       \* requests, jobs and goroutines that hold the user
    Mixed,      \* bound: the handlers that may run at the same time
    MaxOps,     \* bound: how many changes there are, with the token that Init has
    MaxFaults   \* bound: failing queries and crashes of the server process

ASSUME ConstantsAssumption ==
    /\ MaxOps \in Nat \ {0} /\ MaxFaults \in Nat
    /\ IsFiniteSet(Reqs) /\ IsFiniteSet(Mixed)

VARIABLES
    row,      \* users: {} or {the user's row}
    objs,     \* the User objects on the heap
    cache,    \* the cache entry under the user's id: {} or {an object}
    req,      \* per request: where it is
    told,     \* the leaderboard's subscriber, and the object it was told of
    overlap,  \* may requests of the user overlap? (chosen at the start)
    saved,    \* per column: the last request whose change was saved
    used,     \* reset tokens that have set a password
    ops, faults

vars == <<row, objs, cache, req, told, overlap, saved, used, ops, faults>>

\* The columns, grouped by who changes them; "plain" is 1 when the password
\* column holds the password itself instead of its hash.
Cols == {"login", "password", "plain", "key", "token", "profile", "location", "public",
         "exclude", "sharing", "wakatime", "billing", "customer", "data"}
NewRow == [c \in Cols |-> 0]

\* The location "Local", which no request asks for; the empty one is 0.
Local == MaxOps + 1

(***************************************************************************)
(* The handlers.  load: "cached" GetUserById, "byKey" GetUserByKey (always *)
(* a query, whose result goes into the cache under the id), "query" a      *)
(* query past the cache.  save: "update" all columns, "fields" the columns *)
(* changed, "delete", "none".  clears: those of the columns that it        *)
(* empties.  early: flushes before it changes anything.  dirty: may answer *)
(* "invalid input" after it has changed the object.  late: a deferred      *)
(* flush.  unless: the columns that, once set, make it leave the user      *)
(* alone.  zone: may ask the object for its time zone.                     *)
(***************************************************************************)
Handler == [load : {"cached", "byKey", "query"}, edits : SUBSET Cols,
            save : {"update", "fields", "delete", "none"}, early : BOOLEAN,
            dirty : BOOLEAN, late : BOOLEAN, unless : SUBSET Cols,
            clears : SUBSET Cols, zone : BOOLEAN]

Saves(cols) == [load |-> "cached", edits |-> cols, save |-> "update",
                early |-> FALSE, dirty |-> FALSE, late |-> FALSE, unless |-> {},
                clears |-> {}, zone |-> FALSE]

ShowPage       == [Saves({}) EXCEPT !.save = "none", !.zone = TRUE]
ShowApi        == [ShowPage EXCEPT !.load = "byKey"]
PostLogout     == [ShowPage EXCEPT !.early = TRUE, !.zone = FALSE]
PostLogin      == Saves({"login"})
LoginByEmail   == [PostLogin EXCEPT !.load = "query"]
ChangePassword == Saves({"password"})
UpdateUser     == Saves({"profile", "location", "public"})
UpdateNowhere  == [UpdateUser EXCEPT !.clears = {"location"}]
ResetApiKey    == [Saves({"key"}) EXCEPT !.early = TRUE]
\* mutant: the flush of the cache is not deferred but the handler's last line
UpdateLeaderboardUndeferred == [Saves({"public"}) EXCEPT !.dirty = TRUE]

UpdateLeaderboard == [Saves({"public"}) EXCEPT !.dirty = TRUE, !.late = TRUE]
UpdateExclude  == [Saves({"exclude"}) EXCEPT !.dirty = TRUE, !.late = TRUE]
UpdateSharing  == [Saves({"sharing"}) EXCEPT !.dirty = TRUE, !.late = TRUE]
SetWakatime    == [Saves({"wakatime"}) EXCEPT !.save = "fields", !.early = TRUE]
RelayFailed    == [SetWakatime EXCEPT !.load = "byKey"]
ImportFinished == [Saves({"data"}) EXCEPT !.unless = {"data"}]
PostHeartbeats == [ImportFinished EXCEPT !.load = "byKey"]
CheckoutDone   == [Saves({"customer"}) EXCEPT !.unless = {"customer"}]
Webhook        == [Saves({"billing"}) EXCEPT !.load = "query"]
ResetPassword  == [Saves({"token"}) EXCEPT !.load = "query", !.save = "fields"]
SetPassword    == [Saves({"password", "token"}) EXCEPT !.load = "query", !.clears = {"token"}]
DeleteUser     == [Saves({"profile"}) EXCEPT !.save = "delete", !.early = TRUE]
CleanInactive  == [DeleteUser EXCEPT !.load = "query", !.unless = {"data"}]

Table == [show_page |-> ShowPage, show_api |-> ShowApi, post_logout |-> PostLogout,
          post_login |-> PostLogin, login_by_email |-> LoginByEmail,
          change_password |-> ChangePassword,
          update_user |-> UpdateUser, update_nowhere |-> UpdateNowhere, reset_apikey |-> ResetApiKey,
          update_leaderboard |-> UpdateLeaderboard, update_exclude |-> UpdateExclude,
          update_sharing |-> UpdateSharing, set_wakatime |-> SetWakatime,
          relay_failed |-> RelayFailed, import_finished |-> ImportFinished,
          post_heartbeats |-> PostHeartbeats, checkout |-> CheckoutDone,
          webhook |-> Webhook, reset_password |-> ResetPassword,
          set_password |-> SetPassword, delete_user |-> DeleteUser,
          clean_inactive |-> CleanInactive]
Handlers == DOMAIN Table

ASSUME MixedAssumption == Mixed \subseteq Handlers

Ids    == 1..(Cardinality(Reqs) + 2)
Idle   == [pc |-> "idle", h |-> "show_page", obj |-> {}, op |-> 0]
Silent == [pc |-> "idle", obj |-> {}]

\* The user has asked for a reset token, which is the first change.
Init ==
    /\ row = {[NewRow EXCEPT !["token"] = 1]}
    /\ objs = [i \in Ids |-> NewRow]
    /\ cache = {}
    /\ req = [r \in Reqs |-> Idle]
    /\ told = Silent
    /\ overlap \in BOOLEAN
    /\ saved = NewRow
    /\ used = {}
    /\ ops = 1 /\ faults = 0

At(r, pc) == req[r].pc = pc
H(r)      == Table[req[r].h]
Free(i)   == i \notin cache \union told.obj /\ \A r \in Reqs : i \notin req[r].obj
FreeId    == CHOOSE i \in Ids : Free(i)

\* an object that nothing refers to any more counts as garbage
Collected(heap, holders) ==
    [i \in Ids |-> IF i \in holders THEN heap[i] ELSE NewRow]
Held(requests, cached, object) ==
    cached \union object \union UNION {requests[r].obj : r \in Reqs}

\* the request r goes on as q, with this cache and this heap
Go(r, q, cached, heap) ==
    /\ req' = [req EXCEPT ![r] = q]
    /\ cache' = cached
    /\ objs' = Collected(heap, Held([req EXCEPT ![r] = q], cached, told.obj))

----------------------------------------------------------------------------
(***************************************************************************)
(* Getting hold of the user.                                               *)
(***************************************************************************)
\* one place is enough for requests that come one after the other
Only == CHOOSE r \in Reqs : TRUE

\* a request starts; GetUserById finds the entry or has to ask the database
Arrive(r) ==
    /\ At(r, "idle")
    /\ overlap \/ (r = Only /\ \A q \in Reqs : At(q, "idle"))
    /\ \E h \in IF overlap THEN Mixed ELSE Handlers :
          /\ Table[h].edits # {} => ops < MaxOps
          /\ IF Table[h].load = "cached" /\ cache # {}
             THEN Go(r, [Idle EXCEPT !.pc = "use", !.h = h, !.obj = cache], cache, objs)
             ELSE Go(r, [Idle EXCEPT !.pc = "query", !.h = h], cache, objs)
    /\ UNCHANGED <<row, told, overlap, saved, used, ops, faults>>

\* FindOne; a user that is not found, or an error, ends the request
Found(r, w) == req[r].h = "set_password" => w["token"] # 0

Query(r) ==
    /\ At(r, "query")
    /\ \/ /\ \E w \in {v \in row : Found(r, v)}, i \in {FreeId} :
                Go(r, [req[r] EXCEPT !.pc = IF H(r).load = "query" THEN "use" ELSE "fill",
                                     !.obj = {i}], cache, [objs EXCEPT ![i] = w])
          /\ UNCHANGED faults
       \/ (\A w \in row : ~ Found(r, w)) /\ Go(r, Idle, cache, objs) /\ UNCHANGED faults
       \/ /\ faults < MaxFaults
          /\ faults' = faults + 1
          /\ Go(r, Idle, cache, objs)
    /\ UNCHANGED <<row, told, overlap, saved, used, ops>>

\* the result is cached under the id, whatever it was asked for
Fill(r) ==
    /\ At(r, "fill")
    /\ Go(r, [req[r] EXCEPT !.pc = "use"], req[r].obj, objs)
    /\ UNCHANGED <<row, told, overlap, saved, used, ops, faults>>

----------------------------------------------------------------------------
(***************************************************************************)
(* Changing the object and saving it.                                      *)
(***************************************************************************)
Obj(r)   == CHOOSE i \in req[r].obj : TRUE
NewValue(r, c, op) == IF c \in H(r).clears THEN 0 ELSE op
Edited(r, w, op)   == [c \in Cols |-> IF c \in H(r).edits THEN NewValue(r, c, op)
                                      ELSE w[c]]
\* a new password stands in the object as it is, until it has been hashed
Changed(r, w) ==
    [Edited(r, w, ops + 1) EXCEPT !["plain"] = IF "password" \in H(r).edits THEN 1 ELSE @]
CacheAfter(flush)  == IF flush THEN {} ELSE cache

\* the handler is content with reading, or refuses before it changes anything
Leave(r) ==
    /\ At(r, "use")
    /\ H(r).dirty => req[r].h = "update_exclude"
    /\ Go(r, Idle, CacheAfter(H(r).late \/ (H(r).early /\ H(r).edits = {})), objs)
    /\ UNCHANGED <<row, told, overlap, saved, used, ops, faults>>

\* The columns of the object are changed; an invalid value may be noticed afterwards.
Edit(r) ==
    LET h == H(r) IN
    /\ At(r, "use") /\ h.edits # {}
    /\ \A c \in h.unless : objs[Obj(r)][c] = 0
    /\ ops < MaxOps
    /\ ops' = ops + 1
    /\ \E pc \in {IF h.save = "fields" THEN "write"
                  ELSE IF "password" \in h.edits THEN "hash" ELSE "flush"} \union (IF h.dirty THEN {"late"} ELSE {}) :
          Go(r, [req[r] EXCEPT !.pc = pc, !.op = ops + 1], CacheAfter(h.early),
             [objs EXCEPT ![Obj(r)] = Changed(r, @)])
    /\ UNCHANGED <<row, told, overlap, saved, used, faults>>

\* HashPassword: it fails only without random bytes, which ends the process (Crash)
Hash(r) ==
    /\ At(r, "hash")
    /\ Go(r, [req[r] EXCEPT !.pc = "flush"], cache,
          [objs EXCEPT ![Obj(r)]["plain"] = 0, ![Obj(r)]["password"] = req[r].op])
    /\ UNCHANGED <<row, told, overlap, saved, used, ops, faults>>

\* mutant: the row is written without a flush of the cache
FlushAndPublishUncached(r) ==
    /\ At(r, "flush")
    /\ told.pc = "idle"
    /\ told' = [pc |-> "use", obj |-> req[r].obj]
    /\ Go(r, [req[r] EXCEPT !.pc = "write"], cache, objs)
    /\ UNCHANGED <<row, overlap, saved, used, ops, faults>>

\* Update flushes the cache (Delete has done so) and both publish the object, which waits for
\* the subscriber; the row is written later
FlushAndPublish(r) ==
    /\ At(r, "flush")
    /\ told.pc = "idle"
    /\ told' = [pc |-> "use", obj |-> req[r].obj]
    /\ Go(r, [req[r] EXCEPT !.pc = "write"], CacheAfter(H(r).save = "update"), objs)
    /\ UNCHANGED <<row, overlap, saved, used, ops, faults>>

\* Update, UpdateField or Delete of the repository; a row that is gone is not
\* missed by Update
Written(r, w) ==
    CASE H(r).save = "update" -> objs[Obj(r)]
      [] H(r).save = "fields" -> Edited(r, w, req[r].op)

Write(r) ==
    LET h == H(r) IN
    /\ At(r, "write")
    /\ Go(r, IF h.late THEN [req[r] EXCEPT !.pc = "late"] ELSE Idle, cache, objs)
    /\ \/ /\ row' = IF h.save = "delete" THEN {} ELSE {Written(r, w) : w \in row}
          /\ saved' = [c \in Cols |-> IF ~ overlap /\ c \in h.edits THEN NewValue(r, c, req[r].op) ELSE saved[c]]
          /\ used' = used \union (IF ~ overlap /\ "password" \in h.edits /\ h.load = "query"
                                  THEN {w["token"] : w \in row} \ {0} ELSE {})
          /\ UNCHANGED faults
       \/ /\ faults < MaxFaults
          /\ faults' = faults + 1
          /\ UNCHANGED <<row, saved, used>>
    /\ UNCHANGED <<told, overlap, ops>>

\* the deferred flush
LateFlush(r) ==
    /\ At(r, "late")
    /\ Go(r, Idle, CacheAfter(H(r).late), objs)
    /\ UNCHANGED <<row, told, overlap, saved, used, ops, faults>>

----------------------------------------------------------------------------
(***************************************************************************)
(* User.TZ().  It finds the location empty, and writes "Local" into the    *)
(* object in a second step: nothing guards the object.                     *)
(***************************************************************************)
Localised(i) == [objs EXCEPT ![i]["location"] = Local]

ReadZone(r) ==
    /\ At(r, "use") /\ H(r).zone
    /\ objs[Obj(r)]["location"] = 0
    /\ Go(r, [req[r] EXCEPT !.pc = "tz"], cache, objs)
    /\ UNCHANGED <<row, told, overlap, saved, used, ops, faults>>

SetZone(r) ==
    /\ At(r, "tz")
    /\ Go(r, [req[r] EXCEPT !.pc = "use"], cache, Localised(Obj(r)))
    /\ UNCHANGED <<row, told, overlap, saved, used, ops, faults>>

\* The leaderboard, told of an update, computes the items of a user who has none yet, beside
\* the request that is about to write the row.
Silence(heap) == told' = Silent /\ objs' = Collected(heap, Held(req, cache, {}))

Compute ==
    /\ \/ told.pc = "use" /\ Silence(objs)
       \/ /\ told.pc = "use" /\ \E i \in told.obj : objs[i]["location"] = 0
          /\ told' = [told EXCEPT !.pc = "tz"] /\ UNCHANGED objs
       \/ told.pc = "tz" /\ \E i \in told.obj : Silence(Localised(i))
    /\ UNCHANGED <<row, cache, req, overlap, saved, used, ops, faults>>

----------------------------------------------------------------------------
\* mutant: entries never expire
ExpireNever ==
    /\ cache # {} /\ row # row
    /\ cache' = {}
    /\ UNCHANGED <<row, objs, req, told, overlap, saved, used, ops, faults>>

\* an hour has passed since the entry was made
Expire ==
    /\ cache # {}
    /\ cache' = {}
    /\ objs' = Collected(objs, Held(req, {}, told.obj))
    /\ UNCHANGED <<row, req, told, overlap, saved, used, ops, faults>>

Crash ==
    /\ faults < MaxFaults
    /\ faults' = faults + 1
    /\ cache' = {}
    /\ req' = [r \in Reqs |-> Idle]
    /\ told' = Silent
    /\ objs' = [i \in Ids |-> NewRow]
    /\ UNCHANGED <<row, overlap, saved, used, ops>>

ReqStep(r) == Query(r) \/ Fill(r) \/ Leave(r) \/ Edit(r) \/ Hash(r)
              \/ FlushAndPublish(r) \/ Write(r) \/ LateFlush(r) \/ ReadZone(r) \/ SetZone(r)

Next == (\E r \in Reqs : Arrive(r) \/ ReqStep(r)) \/ Compute \/ Expire \/ Crash

Spec == Init /\ [][Next]_vars

\* Goroutines are scheduled, and an entry's hour passes; nobody has to come.
FairSpec == Spec /\ (\A r \in Reqs : WF_vars(ReqStep(r))) /\ WF_vars(Compute) /\ WF_vars(Expire)

----------------------------------------------------------------------------
(***************************************************************************)
(* Properties.                                                             *)
(***************************************************************************)
Values   == [Cols -> Nat]
ReqState == [pc : {"idle", "query", "fill", "use", "tz", "hash", "flush", "write", "late"},
             h : Handlers, obj : SUBSET Ids, op : Nat]
Listener == [pc : {"idle", "use", "tz"}, obj : SUBSET Ids]

\* Every variable stays within its type (the row, the heap, each request).
TypeOK ==
    /\ row \in SUBSET Values
    /\ objs \in [Ids -> Values]
    /\ cache \in SUBSET Ids
    /\ req \in [Reqs -> ReqState]
    /\ told \in Listener
    /\ overlap \in BOOLEAN
    /\ saved \in Values /\ used \in SUBSET Nat
    /\ ops \in Nat /\ faults \in Nat

Lasting == Cols \ {"token"}

\* The value x is y, or the "Local" that stands for an empty location y.
Agrees(c, x, y) == x = y \/ (c = "location" /\ y = 0 /\ x = Local)
Follows(v, w)   == \A c \in Lasting : Agrees(c, v[c], w[c])

\* "user updated successfully": as long as the requests of a user come one after
\* the other, no whole-row update undoes what an earlier request has saved, and
\* the password column never holds a password.  An empty location may have become
\* "Local", nothing else.  (Reset tokens are excepted, see the README.)
SavedStands == ~ overlap => \A w \in row : Follows(w, saved)

\* Between two requests the cached object agrees with the row: a handler that
\* refuses its input, or whose query fails, leaves no unsaved change behind, and
\* reading leaves none but "Local" for an empty location.
CacheFresh ==
    ~ overlap /\ (\A r \in Reqs : At(r, "idle")) =>
        \A i \in cache : row # {} /\ (\A w \in row : Follows(objs[i], w))

\* PostSetPassword: a reset link works once; no stale copy that a later request
\* saves brings its token back.
UsedTokenIsDead == ~ overlap => \A w \in row : w["token"] \notin used

\* However requests overlap, once changes have ceased the sessions see the row as
\* it is (or "Local" for its empty location), and those of a deleted account none.
CacheCatchesUp ==
    overlap => <>[](\A i \in cache : row # {} /\ (\A w \in row : Follows(objs[i], w)))
============================================================================
