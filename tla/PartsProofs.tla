---------------------------- MODULE PartsProofs -----------------------------
(***************************************************************************)
(* Proofs about the parts that take heartbeats in and keep them in memory  *)
(* beside the tables: Ingest, for any heartbeats, requests, reads and      *)
(* failures; ViewCache (V), for any readers, rows, changes and failing     *)
(* queries; Import (P), for any number of imports and heartbeats; Relay    *)
(* (R), for any servers and routes; Migrations (M), for any list of them   *)
(* that is as their code sees to.                                          *)
(***************************************************************************)
EXTENDS Ingest, FiniteSetTheorems, SequenceTheorems, WellFoundedInduction, TLAPS

\* What ViewCache has of its own.
CONSTANTS Readers, Rows, Nothing, MaxChanges, MaxFaults
VARIABLES viewOverlap, lists, version, aliasMap, cache, summary, reloads, events, viewer, writer, changes,
          viewFaults

V == INSTANCE ViewCache WITH overlap <- viewOverlap, table <- lists, reader <- viewer,
         faults <- viewFaults

\* What Import has.
CONSTANTS LastBeat, DayLength, BatchSize, MaxImports
VARIABLES lastImport, lastSuccess, imported, imp, puts, ticking, completed, queue, job, importFaults

P == INSTANCE Import WITH table <- imported, faults <- importFaults

\* What Relay has.
CONSTANTS Servers, Outside, Routes, Nowhere, Hashes, MaxLoad, MaxFailures
VARIABLES behind, run, known, failures, handed, relayed, refused, sent, lostRequests

R == INSTANCE Relay WITH post <- relayed, faults <- lostRequests

\* What Migrations has.
CONSTANTS Listed, SchemaAt, Dialects, Ages, MaxStarts
VARIABLES dialect, tables, old, missing, done, at, stmt, chosen, lost, unmarked, starts, migrationFaults

M == INSTANCE Migrations WITH All <- Listed, First <- SchemaAt, faults <- migrationFaults

\* There are finitely many heartbeats, and no project has the name of a missing entry.
Bounds ==
    /\ IsFiniteSet(Beats) /\ "no set" \notin Projects(Beats)
    /\ MaxPosts \in Nat /\ MaxTroubles \in Nat

----------------------------------------------------------------------------
(***************************************************************************)
(* Views: types, and what holds as long as readers and changes do not      *)
(* overlap.                                                                *)
(***************************************************************************)
Entry       == (SUBSET Rows) \union {Nothing}
ViewerState == [pc : {"idle", "store", "retrieve", "resolve", "list", "fill", "put"},
                list : V!Lists \union {Nothing}, aliases : Entry, labels : Entry, version : Int]
WriterState == [pc : {"idle", "forget", "notify", "append", "delete", "remove", "rows"},
                list : V!Lists, ids : SUBSET Rows]

\* A change under way is not yet counted among events and versions.
ViewTypes ==
    /\ lists \in [V!Lists \union {"aliases"} -> SUBSET Rows]
    /\ aliasMap \in Entry /\ cache \in [V!Lists -> Entry]
    /\ viewer \in [Readers -> ViewerState] /\ writer \in WriterState
    /\ \A r \in Readers : viewer[r].pc \in {"list", "fill"} => viewer[r].list \in V!Lists
    /\ \A g \in reloads : g.n \in 1 .. changes /\ g.got \in Entry
    /\ changes \in Nat /\ events \in 0 .. changes /\ version \in 0 .. changes
    /\ writer.pc # "idle" => events < changes /\ version < changes

TakeTurns == writer.pc = "idle" \/ \A r \in Readers : viewer[r].pc = "idle"

\* A cached list is the table's, but between a change and its end.
ListsCurrent ==
    \A l \in V!Lists : cache[l] \in {Nothing, lists[l]} \/ (writer.pc = "forget" /\ writer.list = l)

\* A cached summary is of the rows as they are and has the labels, or will be dropped.
Dropped == events > 0 \/ (writer.pc \in {"forget", "notify"} /\ writer.list = "labels")
SummaryCurrent ==
    summary # Nothing =>
        /\ summary.version = version /\ writer.pc # "rows"
        /\ summary.labels = lists["labels"] \/ Dropped

\* What a reader has read is so still.
ReadersCurrent ==
    \A r \in Readers :
        /\ viewer[r].pc = "fill" => viewer[r].labels = lists[viewer[r].list]
        /\ viewer[r].pc = "put" => viewer[r].labels = lists["labels"]
        /\ \/ viewer[r].pc \in {"resolve", "put"}
           \/ viewer[r].pc \in {"list", "fill"} /\ viewer[r].list = "labels"
           => viewer[r].version = version

Calm    == TakeTurns /\ ListsCurrent /\ SummaryCurrent /\ ReadersCurrent
ViewInv == ViewTypes /\ (~ viewOverlap => Calm)

----------------------------------------------------------------------------
(***************************************************************************)
(* Heartbeats: types, and what holds as long as reads do not overlap with  *)
(* posts and deletions.                                                    *)
(***************************************************************************)
PostState   == [pc : {"idle", "insert", "done"}, hashes : SUBSET Beats]
NoticeState == [by : Posts, hash : Beats]
ReaderState == [pc : {"idle", "put"}, of : {"count", "entities", "stats"},
                n : -1 .. Cardinality(Beats), found : SUBSET Projects(Beats)]

Answered == {p \in Posts : post[p].pc = "done"}

SetTypes ==
    /\ table \subseteq Beats
    /\ post \in [Posts -> PostState] /\ \A p \in Posts : post[p].pc # "insert" => post[p].hashes = {}
    /\ updates \subseteq Projects(Beats) /\ notices \subseteq NoticeState
    /\ entities \in Sets /\ unique \in Sets /\ stats \in Sets
    /\ populating \in {NoSet, {}} /\ reader \in ReaderState
    /\ flushing \in Nat /\ deletes \in Nat /\ faults \in Nat
    /\ flushing <= deletes /\ faults + deletes <= MaxTroubles

\* What the count is increased by has been inserted, or been ignored as a duplicate.
CountTyped ==
    /\ IsFiniteSet(notices) /\ Cardinality(notices) <= Cardinality(Beats) * Cardinality(Answered)
    /\ count \in Int /\ count >= -1
    /\ count + Cardinality(notices) <= Cardinality(Beats) * (1 + Cardinality(Answered))

PostsRest == (\A p \in Posts : post[p].pc # "insert") /\ updates = {} /\ notices = {}

\* Posts, reads and deletions take turns; only the unique projects may be looked for while
\* posts go on, when they are there and nothing is to be done.
Apart ==
    /\ reader.pc # "idle" => PostsRest /\ flushing = 0
    /\ flushing > 0 => PostsRest /\ populating = NoSet
    /\ populating # NoSet => unique # NoSet \/ PostsRest
    /\ stats # NoSet => unique # NoSet \/ populating # NoSet

\* The hashes that are about to be inserted.
Coming == UNION {post[p].hashes : p \in Posts}

\* The cached set has the projects of the table and of what is about to be inserted, or a
\* goroutine will add them; what a reader has found is still the table's.
EntitiesComplete ==
    /\ entities # NoSet => Named(Projects(table \union Coming)) \subseteq entities \union updates
    /\ reader.pc = "put" =>
          reader.found = IF reader.of = "stats" THEN InStats(table) ELSE Named(Projects(table))

\* The stats have the projects of the table of which they count all heartbeats, but for those
\* whose notice is on its way.  That it drops the stats relies on the unique projects' having
\* none that the stats lack, unless a heartbeat is not counted, and this on no set's having a
\* project that the table will not have.
StatsComplete ==
    flushing = 0 =>
        /\ stats # NoSet => WhollyCounted(table) \subseteq stats \union Projects({e.hash : e \in notices})
        /\ stats # NoSet /\ unique # NoSet => Named(unique) \subseteq stats \union Projects(table \ Counted)
        /\ entities # NoSet => Named(entities) \subseteq Projects(table \union Coming)
        /\ Named(updates) \subseteq Projects(table \union Coming)
        /\ unique # NoSet => Named(unique) \subseteq Projects(table)

SetsInv == ~ overlap => Apart /\ EntitiesComplete /\ (faults = 0 => StatsComplete)
IInv    == SetTypes /\ CountTyped /\ SetsInv

----------------------------------------------------------------------------
(***************************************************************************)
(* Views: types.                                                           *)
(***************************************************************************)
LEMMA ViewInit == ASSUME V!Init PROVE ViewInv
  <1>1. V!Resting \in ViewerState /\ V!Resting.pc = "idle"
    BY DEF V!Resting, ViewerState, Entry
  <1>2. V!Ready \in WriterState /\ V!Ready.pc = "idle"
    BY DEF V!Ready, WriterState, V!Lists
  <1>3. ViewTypes
    BY <1>1, <1>2 DEF V!Init, ViewTypes, Entry
  <1>4. TakeTurns /\ ListsCurrent /\ SummaryCurrent /\ ReadersCurrent
    BY <1>1, <1>2 DEF V!Init, TakeTurns, ListsCurrent, SummaryCurrent, ReadersCurrent
  <1> QED BY <1>3, <1>4 DEF ViewInv, Calm

\* A step of a reader alone.
LEMMA ViewerTypes ==
  ASSUME ViewTypes, NEW r \in Readers, NEW v \in ViewerState,
         viewer' = [viewer EXCEPT ![r] = v], v.pc \in {"list", "fill"} => v.list \in V!Lists,
         aliasMap' \in Entry, cache' \in [V!Lists -> Entry],
         UNCHANGED <<lists, version, reloads, events, writer, changes>>
  PROVE  ViewTypes'
  BY DEF ViewTypes

LEMMA InitializeUserTypes ==
  ASSUME ViewTypes, NEW r \in Readers, V!InitializeUser(r)
  PROVE  ViewTypes'
  <1> DEFINE v == [viewer[r] EXCEPT !.pc = "store", !.aliases = lists["aliases"]]
  <1>1. v \in ViewerState /\ v.pc = "store"
    BY DEF ViewTypes, ViewerState, Entry
  <1>2. viewer' = [viewer EXCEPT ![r] = v]
    BY DEF V!InitializeUser
  <1>3. aliasMap' \in Entry /\ cache' \in [V!Lists -> Entry]
    BY DEF V!InitializeUser, ViewTypes
  <1> HIDE DEF v
  <1> QED BY <1>1, <1>2, <1>3, ViewerTypes DEF V!InitializeUser

LEMMA StoreAliasesTypes ==
  ASSUME ViewTypes, NEW r \in Readers, V!StoreAliases(r)
  PROVE  ViewTypes'
  <1> DEFINE v == [viewer[r] EXCEPT !.pc = "retrieve"]
  <1>1. v \in ViewerState /\ v.pc = "retrieve" /\ viewer[r].aliases \in Entry
    BY DEF ViewTypes, ViewerState
  <1>2. viewer' = [viewer EXCEPT ![r] = v]
    BY DEF V!StoreAliases, V!To
  <1>3. aliasMap' \in Entry /\ cache' \in [V!Lists -> Entry]
    BY <1>1 DEF V!StoreAliases, ViewTypes
  <1> HIDE DEF v
  <1> QED BY <1>1, <1>2, <1>3, ViewerTypes DEF V!StoreAliases

LEMMA RestingTypes == V!Resting \in ViewerState /\ V!Resting.pc = "idle"
  BY DEF V!Resting, ViewerState, Entry

LEMMA RetrieveRowsTypes ==
  ASSUME ViewTypes, NEW r \in Readers, V!RetrieveRows(r)
  PROVE  ViewTypes'
  <1> DEFINE v == [viewer[r] EXCEPT !.pc = "resolve", !.version = version]
  <1>0. viewer[r] \in ViewerState /\ version \in Int
    BY DEF ViewTypes
  <1>1. v \in ViewerState /\ v.pc = "resolve"
    BY <1>0 DEF ViewerState
  <1>2. viewer' = [viewer EXCEPT ![r] = v] \/ viewer' = [viewer EXCEPT ![r] = V!Resting]
    BY DEF V!RetrieveRows
  <1>3. aliasMap' \in Entry /\ cache' \in [V!Lists -> Entry]
    BY DEF V!RetrieveRows, ViewTypes
  <1> HIDE DEF v
  <1> QED BY <1>1, <1>2, <1>3, RestingTypes, ViewerTypes DEF V!RetrieveRows

LEMMA WithResolvedAliasesTypes ==
  ASSUME ViewTypes, NEW r \in Readers, V!WithResolvedAliases(r)
  PROVE  ViewTypes'
  <1> DEFINE v == [viewer[r] EXCEPT !.pc = "list", !.list = "labels", !.aliases = aliasMap]
  <1>1. v \in ViewerState /\ v.list \in V!Lists
    BY DEF ViewTypes, ViewerState, V!Lists
  <1>2. viewer' = [viewer EXCEPT ![r] = v]
    BY DEF V!WithResolvedAliases
  <1>3. aliasMap' \in Entry /\ cache' \in [V!Lists -> Entry]
    BY DEF V!WithResolvedAliases, ViewTypes
  <1> HIDE DEF v
  <1> QED BY <1>1, <1>2, <1>3, ViewerTypes DEF V!WithResolvedAliases

LEMMA AugmentTypes ==
  ASSUME ViewTypes, NEW r \in Readers, V!Augment(r)
  PROVE  ViewTypes'
  <1> DEFINE v == [viewer[r] EXCEPT !.pc = "list", !.list = "languages"]
  <1>1. v \in ViewerState /\ v.list \in V!Lists
    BY DEF ViewTypes, ViewerState, V!Lists
  <1>2. viewer' = [viewer EXCEPT ![r] = v]
    BY DEF V!Augment
  <1>3. aliasMap' \in Entry /\ cache' \in [V!Lists -> Entry]
    BY DEF V!Augment, ViewTypes
  <1> HIDE DEF v
  <1> QED BY <1>1, <1>2, <1>3, ViewerTypes DEF V!Augment

\* What a reader goes on with when it has a list: the list is used, or is yet to be cached.
Used(r, found) == IF viewer[r].list = "labels"
                  THEN [viewer[r] EXCEPT !.pc = "put", !.labels = found] ELSE V!Resting
Found(r)       == [viewer[r] EXCEPT !.pc = "fill", !.labels = lists[viewer[r].list]]

LEMMA GetByUserIs ==
  ASSUME ViewTypes, NEW r \in Readers, V!GetByUser(r)
  PROVE  /\ viewer[r].pc = "list" /\ viewer[r].list \in V!Lists
         /\ \/ /\ cache[viewer[r].list] # Nothing
               /\ viewer' = [viewer EXCEPT ![r] = Used(r, cache[viewer[r].list])]
            \/ viewer' = [viewer EXCEPT ![r] = Found(r)]
            \/ viewOverlap /\ viewer' = [viewer EXCEPT ![r] = Used(r, {})]
  <1>1. viewer[r].pc = "list" /\ viewer[r].list \in V!Lists
    BY DEF V!GetByUser, V!At, ViewTypes
  <1> QED BY <1>1 DEF V!GetByUser, V!Fault, Used, Found

LEMMA FillListIs ==
  ASSUME ViewTypes, NEW r \in Readers, V!FillList(r)
  PROVE  /\ viewer[r].pc = "fill" /\ viewer[r].list \in V!Lists
         /\ viewer' = [viewer EXCEPT ![r] = Used(r, viewer[r].labels)]
  <1>1. viewer[r].pc = "fill" /\ viewer[r].list \in V!Lists
    BY DEF V!FillList, V!At, ViewTypes
  <1>2. viewer[r] \in ViewerState
    BY DEF ViewTypes
  <1>3. [viewer[r] EXCEPT !.pc = "put"] = [viewer[r] EXCEPT !.pc = "put", !.labels = viewer[r].labels]
    BY <1>2 DEF ViewerState
  <1> QED BY <1>1, <1>3 DEF V!FillList, Used

LEMMA UsedTypes ==
  ASSUME ViewTypes, NEW r \in Readers, NEW found \in Entry
  PROVE  /\ Used(r, found) \in ViewerState /\ Used(r, found).pc \in {"put", "idle"}
         /\ viewer[r].list \in V!Lists => Found(r) \in ViewerState /\ Found(r).pc = "fill"
                                          /\ Found(r).list = viewer[r].list
                                          /\ Found(r).labels = lists[viewer[r].list]
                                          /\ Found(r).version = viewer[r].version
  <1>1. viewer[r] \in ViewerState
    BY DEF ViewTypes
  <1>2. Used(r, found) \in ViewerState /\ Used(r, found).pc \in {"put", "idle"}
    BY <1>1, RestingTypes DEF Used, ViewerState
  <1>3. ASSUME viewer[r].list \in V!Lists PROVE lists[viewer[r].list] \in Entry
    BY <1>3 DEF ViewTypes, Entry
  <1> QED BY <1>1, <1>2, <1>3 DEF Found, ViewerState

LEMMA GetByUserTypes ==
  ASSUME ViewTypes, NEW r \in Readers, V!GetByUser(r)
  PROVE  ViewTypes'
  <1>1. viewer[r].list \in V!Lists
    BY GetByUserIs
  <1>2. aliasMap' \in Entry /\ cache' \in [V!Lists -> Entry] /\ {} \in Entry /\ cache[viewer[r].list] \in Entry
    BY <1>1 DEF V!GetByUser, ViewTypes, Entry
  <1>3. PICK v \in {Used(r, cache[viewer[r].list]), Found(r), Used(r, {})} : viewer' = [viewer EXCEPT ![r] = v]
    BY GetByUserIs
  <1>4. v \in ViewerState /\ (v.pc \in {"list", "fill"} => v.list \in V!Lists)
    BY <1>1, <1>2, <1>3, UsedTypes
  <1> QED BY <1>2, <1>3, <1>4, ViewerTypes DEF V!GetByUser

LEMMA FillListTypes ==
  ASSUME ViewTypes, NEW r \in Readers, V!FillList(r)
  PROVE  ViewTypes'
  <1>1. viewer[r].list \in V!Lists /\ viewer' = [viewer EXCEPT ![r] = Used(r, viewer[r].labels)]
    BY FillListIs
  <1>2. viewer[r].labels \in Entry
    BY DEF ViewTypes, ViewerState
  <1>3. aliasMap' \in Entry /\ cache' \in [V!Lists -> Entry]
    BY <1>1, <1>2 DEF V!FillList, ViewTypes
  <1>4. /\ Used(r, viewer[r].labels) \in ViewerState
        /\ Used(r, viewer[r].labels).pc \in {"put", "idle"}
    BY <1>2, UsedTypes
  <1> QED BY <1>1, <1>3, <1>4, ViewerTypes DEF V!FillList

LEMMA PutSummaryTypes ==
  ASSUME ViewTypes, NEW r \in Readers, V!PutSummary(r)
  PROVE  ViewTypes'
  <1>1. aliasMap' \in Entry /\ cache' \in [V!Lists -> Entry]
    BY DEF V!PutSummary, ViewTypes
  <1> QED BY <1>1, RestingTypes, ViewerTypes DEF V!PutSummary

LEMMA ReadyTypes == V!Ready \in WriterState /\ V!Ready.pc = "idle"
  BY DEF V!Ready, WriterState, V!Lists

\* A step of the writer: a change begins, or goes on.
LEMMA WriterTypes ==
  ASSUME ViewTypes, writer' \in WriterState, lists' \in [V!Lists \union {"aliases"} -> SUBSET Rows],
         aliasMap' \in Entry, cache' \in [V!Lists -> Entry], UNCHANGED viewer,
         \/ /\ changes' = changes + 1 /\ UNCHANGED <<version, events, reloads>>
         \/ /\ UNCHANGED changes /\ writer.pc # "idle"
            /\ \/ UNCHANGED <<version, events, reloads>>
               \/ UNCHANGED <<version, events>> /\ writer'.pc = "idle"
                     /\ reloads' = reloads \union {[n |-> changes, got |-> Nothing]}
               \/ version' = version + 1 /\ UNCHANGED <<events, reloads>> /\ writer'.pc = "idle"
               \/ events' = events + 1 /\ UNCHANGED <<version, reloads>> /\ writer'.pc = "idle"
  PROVE  ViewTypes'
  <1> USE DEF ViewTypes
  <1>1. changes' \in Nat /\ events' \in 0 .. changes' /\ version' \in 0 .. changes'
    OBVIOUS
  <1>2. writer'.pc # "idle" => events' < changes' /\ version' < changes'
    OBVIOUS
  <1>3. \A g \in reloads' : g.n \in 1 .. changes' /\ g.got \in Entry
    BY DEF Entry
  <1> QED BY <1>1, <1>2, <1>3

LEMMA BeginTypes == ASSUME ViewTypes, V!Begin PROVE ViewTypes'
  <1>1. CASE V!ChangeList
    <2>1. PICK l \in V!Lists, x \in Rows :
             /\ lists' \in {[lists EXCEPT ![l] = @ \union {x}], [lists EXCEPT ![l] = @ \ {x}]}
             /\ writer' = [V!Ready EXCEPT !.pc = "forget", !.list = l]
      BY <1>1 DEF V!ChangeList
    <2>2. writer' \in WriterState
      BY <2>1 DEF V!Ready, WriterState
    <2>3. lists' \in [V!Lists \union {"aliases"} -> SUBSET Rows]
      BY <2>1 DEF ViewTypes
    <2>4. aliasMap' \in Entry /\ cache' \in [V!Lists -> Entry]
      BY <1>1 DEF V!ChangeList, ViewTypes
    <2> QED BY <1>1, <2>2, <2>3, <2>4, WriterTypes DEF V!ChangeList, V!Change
  <1>2. CASE V!AddAlias
    <2>1. PICK a \in Rows \ lists.aliases :
             /\ lists' = [lists EXCEPT !.aliases = @ \union {a}]
             /\ writer' = [V!Ready EXCEPT !.pc = "append", !.ids = {a}]
      BY <1>2 DEF V!AddAlias
    <2>2. writer' \in WriterState
      BY <2>1 DEF V!Ready, WriterState, V!Lists
    <2>3. lists' \in [V!Lists \union {"aliases"} -> SUBSET Rows]
      BY <2>1 DEF ViewTypes
    <2>4. aliasMap' \in Entry /\ cache' \in [V!Lists -> Entry]
      BY <1>2 DEF V!AddAlias, V!Others, ViewTypes
    <2> QED BY <1>2, <2>2, <2>3, <2>4, WriterTypes DEF V!AddAlias, V!Others, V!Change
  <1>3. CASE V!FindAliases
    <2> DEFINE k == IF aliasMap = Nothing THEN lists.aliases ELSE aliasMap
    <2>1. k \in Entry
      BY DEF ViewTypes, Entry
    <2>2. aliasMap' = k /\ \E a \in Rows : writer' = [V!Ready EXCEPT !.pc = "delete", !.ids = {a} \intersect k]
      BY <1>3 DEF V!FindAliases
    <2> HIDE DEF k
    <2>3. writer' \in WriterState
      BY <2>2 DEF V!Ready, WriterState, V!Lists
    <2>4. lists' \in [V!Lists \union {"aliases"} -> SUBSET Rows] /\ cache' \in [V!Lists -> Entry]
      BY <1>3 DEF V!FindAliases, ViewTypes
    <2> QED BY <1>3, <2>1, <2>2, <2>3, <2>4, WriterTypes DEF V!FindAliases, V!Change
  <1>4. CASE V!InvalidateUserCache
    <2>1. writer' \in WriterState
      BY <1>4 DEF V!InvalidateUserCache, V!Ready, WriterState, V!Lists
    <2>2. /\ lists' \in [V!Lists \union {"aliases"} -> SUBSET Rows] /\ cache' \in [V!Lists -> Entry]
          /\ aliasMap' \in Entry
      BY <1>4 DEF V!InvalidateUserCache, ViewTypes
    <2> QED BY <1>4, <2>1, <2>2, WriterTypes DEF V!InvalidateUserCache, V!Change
  <1> QED BY <1>1, <1>2, <1>3, <1>4 DEF V!Begin

LEMMA WriteTypes == ASSUME ViewTypes, V!Write PROVE ViewTypes'
  <1>0. /\ lists \in [V!Lists \union {"aliases"} -> SUBSET Rows] /\ cache \in [V!Lists -> Entry]
        /\ aliasMap \in Entry /\ writer \in WriterState /\ writer.list \in V!Lists /\ writer.ids \subseteq Rows
    BY DEF ViewTypes, WriterState
  <1>1. CASE V!ForgetList
    <2>1. writer' \in WriterState
      BY <1>0, <1>1, ReadyTypes DEF V!ForgetList, WriterState
    <2>2. cache' \in [V!Lists -> Entry]
      BY <1>0, <1>1 DEF V!ForgetList, Entry
    <2> QED BY <1>0, <1>1, <2>1, <2>2, WriterTypes DEF V!ForgetList, V!Others
  <1>2. CASE V!NotifyUpdate
    <2>1. writer' \in WriterState /\ writer'.pc = "idle"
      BY <1>2, ReadyTypes DEF V!NotifyUpdate
    <2> QED BY <1>0, <1>2, <2>1, WriterTypes DEF V!NotifyUpdate, V!Others
  <1>3. CASE V!DeleteMulti
    <2>1. writer' \in WriterState
      BY <1>0, <1>3 DEF V!DeleteMulti, WriterState
    <2>2. lists' \in [V!Lists \union {"aliases"} -> SUBSET Rows]
      BY <1>0, <1>3 DEF V!DeleteMulti
    <2> QED BY <1>0, <1>3, <2>1, <2>2, WriterTypes DEF V!DeleteMulti, V!Others
  <1>4. CASE V!UpdateCache
    <2>1. writer' \in WriterState /\ writer'.pc = "idle"
      BY <1>4, ReadyTypes DEF V!UpdateCache
    <2>2. aliasMap' \in Entry
      BY <1>0, <1>4 DEF V!UpdateCache, Entry
    <2> QED BY <1>0, <1>4, <2>1, <2>2, WriterTypes DEF V!UpdateCache
  <1>5. CASE V!ChangeRows
    <2>1. writer' \in WriterState /\ writer'.pc = "idle"
      BY <1>5, ReadyTypes DEF V!ChangeRows
    <2> QED BY <1>0, <1>5, <2>1, WriterTypes DEF V!ChangeRows
  <1> QED BY <1>1, <1>2, <1>3, <1>4, <1>5 DEF V!Write

LEMMA ServeTypes ==
  ASSUME ViewTypes, V!Serve \/ V!ExpireSummary \/ (\E l \in V!Lists : V!ExpireList(l))
  PROVE  ViewTypes'
  <1>1. CASE V!ReloadQuery
    <2>1. PICK g \in reloads : reloads' = (reloads \ {g}) \union {[g EXCEPT !.got = lists.aliases]}
      BY <1>1 DEF V!ReloadQuery
    <2> DEFINE h == [g EXCEPT !.got = lists.aliases]
    <2>2. h.n \in 1 .. changes /\ h.got \in Entry
      <3>1. h.n = g.n
        OBVIOUS
      <3>2. h.got = lists.aliases \/ h.got = g.got
        OBVIOUS
      <3> QED BY <3>1, <3>2 DEF ViewTypes, Entry
    <2> HIDE DEF h
    <2>3. reloads' = (reloads \ {g}) \union {h}
      BY <2>1 DEF h
    <2> QED BY <1>1, <2>2, <2>3 DEF V!ReloadQuery, ViewTypes
  <1>2. CASE V!ReloadStore
    BY <1>2 DEF V!ReloadStore, ViewTypes
  <1>3. CASE V!InvalidateOnEvent
    BY <1>3 DEF V!InvalidateOnEvent, ViewTypes
  <1>4. CASE V!ExpireSummary
    BY <1>4 DEF V!ExpireSummary, ViewTypes
  <1>5. ASSUME NEW l \in V!Lists, V!ExpireList(l) PROVE ViewTypes'
    BY <1>5 DEF V!ExpireList, ViewTypes, Entry
  <1> QED BY <1>1, <1>2, <1>3, <1>4, <1>5 DEF V!Serve

LEMMA ViewTypesNext == ASSUME ViewTypes, [V!Next]_(V!vars) PROVE ViewTypes'
  <1>1. ASSUME NEW r \in Readers, V!ReadOn(r) PROVE ViewTypes'
    BY <1>1, StoreAliasesTypes, RetrieveRowsTypes, WithResolvedAliasesTypes, GetByUserTypes,
       FillListTypes, PutSummaryTypes DEF V!ReadOn
  <1>2. CASE UNCHANGED V!vars
    BY <1>2 DEF V!vars, ViewTypes
  <1> QED BY <1>1, <1>2, InitializeUserTypes, AugmentTypes, BeginTypes, WriteTypes, ServeTypes DEF V!Next

----------------------------------------------------------------------------
(***************************************************************************)
(* Views: what is kept is current.                                         *)
(***************************************************************************)
\* A reader's step, while no change is under way.
LEMMA ViewerCalm ==
  ASSUME ViewTypes, Calm, NEW r \in Readers, NEW v, writer.pc = "idle",
         viewer' = [viewer EXCEPT ![r] = v],
         v.pc = "fill" => v.labels = lists[v.list],
         v.pc = "put" => v.labels = lists["labels"],
         v.pc \in {"resolve", "put"} \/ (v.pc \in {"list", "fill"} /\ v.list = "labels") => v.version = version,
         UNCHANGED <<lists, version, events, writer>>,
         \/ UNCHANGED cache
         \/ \E l \in V!Lists : cache' = [cache EXCEPT ![l] = lists[l]],
         \/ UNCHANGED summary
         \/ summary'.version = version /\ summary'.labels = lists["labels"]
  PROVE  Calm'
  <1>1. TakeTurns'
    BY DEF TakeTurns
  <1>2. ListsCurrent'
    BY DEF Calm, ListsCurrent, ViewTypes
  <1>3. SummaryCurrent'
    BY DEF Calm, SummaryCurrent, Dropped
  <1>4. \A q \in Readers : q # r => viewer'[q] = viewer[q]
    BY DEF ViewTypes
  <1>5. viewer'[r] = v
    BY DEF ViewTypes
  <1>6. ReadersCurrent'
    BY <1>4, <1>5 DEF Calm, ReadersCurrent
  <1> QED BY <1>1, <1>2, <1>3, <1>6 DEF Calm

\* Who reads finds no change under way, and the list in the cache is the table's.
LEMMA UsedCalm ==
  ASSUME ViewTypes, Calm, NEW r \in Readers, NEW found \in Entry,
         viewer[r].list \in V!Lists, viewer[r].pc \in {"list", "fill"},
         found = lists[viewer[r].list]
  PROVE  /\ Used(r, found).pc \in {"put", "idle"}
         /\ Used(r, found).pc = "put" => Used(r, found).labels = lists["labels"] /\ Used(r, found).version = version
  <1>1. viewer[r] \in ViewerState
    BY DEF ViewTypes
  <1>2. CASE viewer[r].list = "labels"
    <2>1. viewer[r].version = version
      BY <1>2 DEF Calm, ReadersCurrent
    <2> QED BY <1>1, <1>2, <2>1 DEF Used, ViewerState
  <1>3. CASE viewer[r].list # "labels"
    BY <1>3, RestingTypes DEF Used
  <1> QED BY <1>2, <1>3

LEMMA ReadCalm ==
  ASSUME ViewTypes, Calm, ~ viewOverlap, NEW r \in Readers,
         V!InitializeUser(r) \/ V!Augment(r) \/ V!ReadOn(r)
  PROVE  Calm'
  <1>0. viewer[r] \in ViewerState /\ (viewer[r].pc # "idle" => writer.pc = "idle")
    BY DEF ViewTypes, Calm, TakeTurns
  <1>1. CASE V!InitializeUser(r)
    <2> DEFINE v == [viewer[r] EXCEPT !.pc = "store", !.aliases = lists["aliases"]]
    <2>1. v.pc = "store"
      BY <1>0 DEF ViewerState
    <2>2. viewer' = [viewer EXCEPT ![r] = v] /\ writer.pc = "idle"
      BY <1>1 DEF V!InitializeUser, V!MayRead
    <2> HIDE DEF v
    <2> QED BY <1>1, <2>1, <2>2, ViewerCalm DEF V!InitializeUser
  <1>2. CASE V!Augment(r)
    <2> DEFINE v == [viewer[r] EXCEPT !.pc = "list", !.list = "languages"]
    <2>1. v.pc = "list" /\ v.list # "labels"
      BY <1>0 DEF ViewerState
    <2>2. viewer' = [viewer EXCEPT ![r] = v] /\ writer.pc = "idle"
      BY <1>2 DEF V!Augment, V!MayRead
    <2> HIDE DEF v
    <2> QED BY <1>2, <2>1, <2>2, ViewerCalm DEF V!Augment
  <1>3. CASE V!StoreAliases(r)
    <2> DEFINE v == [viewer[r] EXCEPT !.pc = "retrieve"]
    <2>1. v.pc = "retrieve"
      BY <1>0 DEF ViewerState
    <2>2. viewer' = [viewer EXCEPT ![r] = v] /\ writer.pc = "idle"
      BY <1>0, <1>3 DEF V!StoreAliases, V!At, V!To
    <2> HIDE DEF v
    <2> QED BY <1>3, <2>1, <2>2, ViewerCalm DEF V!StoreAliases
  <1>4. CASE V!RetrieveRows(r)
    <2> DEFINE v == [viewer[r] EXCEPT !.pc = "resolve", !.version = version]
    <2>1. v.pc = "resolve" /\ v.version = version
      BY <1>0 DEF ViewerState
    <2>2. viewer' = [viewer EXCEPT ![r] = v] /\ writer.pc = "idle"
      BY <1>0, <1>4 DEF V!RetrieveRows, V!At, V!Fault
    <2> HIDE DEF v
    <2> QED BY <1>4, <2>1, <2>2, ViewerCalm DEF V!RetrieveRows
  <1>5. CASE V!WithResolvedAliases(r)
    <2> DEFINE v == [viewer[r] EXCEPT !.pc = "list", !.list = "labels", !.aliases = aliasMap]
    <2>1. v.pc = "list" /\ v.version = version
      BY <1>0, <1>5 DEF ViewerState, V!WithResolvedAliases, V!At, Calm, ReadersCurrent
    <2>2. viewer' = [viewer EXCEPT ![r] = v] /\ writer.pc = "idle"
      BY <1>0, <1>5 DEF V!WithResolvedAliases, V!At
    <2> HIDE DEF v
    <2> QED BY <1>5, <2>1, <2>2, ViewerCalm DEF V!WithResolvedAliases
  <1>6. CASE V!GetByUser(r)
    <2> DEFINE l == viewer[r].list
    <2>1. /\ viewer[r].pc = "list" /\ l \in V!Lists /\ writer.pc = "idle"
          /\ \/ cache[l] # Nothing /\ viewer' = [viewer EXCEPT ![r] = Used(r, cache[l])]
             \/ viewer' = [viewer EXCEPT ![r] = Found(r)]
      BY <1>0, <1>6, GetByUserIs
    <2>2. UNCHANGED <<lists, version, events, writer, cache, summary>>
      BY <1>6 DEF V!GetByUser
    <2>3. CASE cache[l] # Nothing /\ viewer' = [viewer EXCEPT ![r] = Used(r, cache[l])]
      <3>1. cache[l] = lists[l] /\ cache[l] \in Entry
        BY <2>1, <2>3 DEF Calm, ListsCurrent, ViewTypes
      <3>2. /\ Used(r, cache[l]).pc \in {"put", "idle"}
            /\ Used(r, cache[l]).pc = "put" =>
                  Used(r, cache[l]).labels = lists["labels"] /\ Used(r, cache[l]).version = version
        BY <2>1, <3>1, UsedCalm
      <3> HIDE DEF l
      <3> QED BY <2>1, <2>2, <2>3, <3>2, ViewerCalm
    <2>4. CASE viewer' = [viewer EXCEPT ![r] = Found(r)]
      <3>1. /\ Found(r).pc = "fill" /\ Found(r).labels = lists[Found(r).list]
            /\ Found(r).list = "labels" => Found(r).version = version
        <4>1. {} \in Entry
          BY DEF Entry
        <4>2. l = "labels" => viewer[r].version = version
          BY <2>1 DEF Calm, ReadersCurrent
        <4> QED BY <2>1, <4>1, <4>2, UsedTypes
      <3> HIDE DEF l
      <3> QED BY <2>1, <2>2, <2>4, <3>1, ViewerCalm
    <2> QED BY <2>1, <2>3, <2>4
  <1>7. CASE V!FillList(r)
    <2>1. /\ viewer[r].pc = "fill" /\ viewer[r].list \in V!Lists /\ writer.pc = "idle"
          /\ viewer' = [viewer EXCEPT ![r] = Used(r, viewer[r].labels)]
      BY <1>0, <1>7, FillListIs
    <2>2. viewer[r].labels = lists[viewer[r].list] /\ viewer[r].labels \in Entry
      BY <1>0, <2>1 DEF Calm, ReadersCurrent, ViewerState
    <2>3. /\ Used(r, viewer[r].labels).pc \in {"put", "idle"}
          /\ Used(r, viewer[r].labels).pc = "put" =>
                Used(r, viewer[r].labels).labels = lists["labels"] /\ Used(r, viewer[r].labels).version = version
      BY <2>1, <2>2, UsedCalm
    <2>4. cache' = [cache EXCEPT ![viewer[r].list] = lists[viewer[r].list]]
          /\ UNCHANGED <<lists, version, events, writer, summary>>
      BY <1>7, <2>2 DEF V!FillList
    <2> QED BY <2>1, <2>3, <2>4, ViewerCalm
  <1>8. CASE V!PutSummary(r)
    <2>1. viewer[r].pc = "put" /\ writer.pc = "idle" /\ viewer' = [viewer EXCEPT ![r] = V!Resting]
      BY <1>0, <1>8 DEF V!PutSummary, V!At
    <2>2. summary'.version = version /\ summary'.labels = lists["labels"]
      BY <1>8, <2>1 DEF V!PutSummary, Calm, ReadersCurrent
    <2>3. UNCHANGED <<lists, version, events, writer, cache>>
      BY <1>8 DEF V!PutSummary
    <2> QED BY <2>1, <2>2, <2>3, RestingTypes, ViewerCalm
  <1> QED BY <1>1, <1>2, <1>3, <1>4, <1>5, <1>6, <1>7, <1>8 DEF V!ReadOn

LEMMA ChangeCalm == ASSUME ViewTypes, Calm, ~ viewOverlap, V!Begin \/ V!Write PROVE Calm'
  <1>0. (\A r \in Readers : viewer[r].pc = "idle") /\ UNCHANGED viewer
    BY DEF Calm, TakeTurns, V!Begin, V!Write, V!ChangeList, V!AddAlias, V!FindAliases, V!InvalidateUserCache,
       V!Change, V!MayWrite, V!At, V!ForgetList, V!NotifyUpdate, V!DeleteMulti, V!UpdateCache, V!ChangeRows, V!Others
  <1>1. TakeTurns' /\ ReadersCurrent'
    BY <1>0 DEF TakeTurns, ReadersCurrent
  <1>2. ListsCurrent' /\ SummaryCurrent'
    <2> USE DEF Calm, ListsCurrent, SummaryCurrent, Dropped
    <2>1. CASE V!ChangeList
      <3>1. PICK l \in V!Lists :
               /\ \E x \in Rows : lists' \in {[lists EXCEPT ![l] = @ \union {x}], [lists EXCEPT ![l] = @ \ {x}]}
               /\ writer' = [V!Ready EXCEPT !.pc = "forget", !.list = l]
        BY <2>1 DEF V!ChangeList
      <3>2. writer.pc = "idle" /\ writer'.pc = "forget" /\ writer'.list = l
            /\ \A m \in V!Lists : m # l => lists'[m] = lists[m]
        BY <2>1, <3>1 DEF V!ChangeList, V!Change, V!Ready, ViewTypes
      <3>3. UNCHANGED <<cache, summary, version, events>>
        BY <2>1 DEF V!ChangeList
      <3> QED BY <3>2, <3>3 DEF V!Lists
    <2>2. CASE V!AddAlias
      <3>1. writer.pc = "idle" /\ writer'.pc = "append" /\ UNCHANGED <<cache, summary, version, events>>
        BY <2>2 DEF V!AddAlias, V!Change, V!Ready, V!Others
      <3>2. \A m \in V!Lists : lists'[m] = lists[m]
        BY <2>2 DEF V!AddAlias, V!Lists, ViewTypes
      <3> QED BY <3>1, <3>2 DEF V!Lists
    <2>3. CASE V!FindAliases
      <3>1. writer.pc = "idle" /\ writer'.pc = "delete" /\ UNCHANGED <<lists, cache, summary, version, events>>
        BY <2>3 DEF V!FindAliases, V!Change, V!Ready
      <3> QED BY <3>1
    <2>4. CASE V!InvalidateUserCache
      <3>1. writer.pc = "idle" /\ writer'.pc = "rows" /\ summary' = Nothing /\ UNCHANGED <<lists, cache, version, events>>
        BY <2>4 DEF V!InvalidateUserCache, V!Change, V!Ready
      <3> QED BY <3>1
    <2>5. CASE V!ForgetList
      <3>1. /\ writer.pc = "forget" /\ writer.list \in V!Lists
            /\ writer.list = "labels" => writer'.pc = "notify" /\ writer'.list = "labels"
            /\ writer.list # "labels" => writer'.pc = "idle"
            /\ UNCHANGED <<lists, summary, version, events>>
        BY <2>5 DEF V!ForgetList, V!Others, V!Ready, ViewTypes, WriterState
      <3>2. \A m \in V!Lists : cache'[m] = IF m = writer.list THEN Nothing ELSE cache[m]
        BY <2>5 DEF V!ForgetList, ViewTypes
      <3> QED BY <3>1, <3>2
    <2>6. CASE V!NotifyUpdate
      <3>1. /\ writer.pc = "notify" /\ writer'.pc = "idle" /\ events' > 0
            /\ UNCHANGED <<lists, cache, summary, version>>
        BY <2>6 DEF V!NotifyUpdate, V!Others, V!Ready, ViewTypes
      <3> QED BY <3>1
    <2>7. CASE V!DeleteMulti
      <3>1. writer.pc = "delete" /\ writer'.pc = "remove" /\ UNCHANGED <<cache, summary, version, events>>
        BY <2>7 DEF V!DeleteMulti, V!Others, ViewTypes, WriterState
      <3>2. \A m \in V!Lists : lists'[m] = lists[m]
        BY <2>7 DEF V!DeleteMulti, V!Lists, ViewTypes
      <3> QED BY <3>1, <3>2 DEF V!Lists
    <2>8. CASE V!UpdateCache
      <3>1. writer.pc \in {"append", "remove"} /\ writer'.pc = "idle"
            /\ UNCHANGED <<lists, cache, summary, version, events>>
        BY <2>8 DEF V!UpdateCache, V!Ready
      <3> QED BY <3>1
    <2>9. CASE V!ChangeRows
      <3>1. writer.pc = "rows" /\ UNCHANGED <<lists, cache, summary, events>>
        BY <2>9 DEF V!ChangeRows
      <3> QED BY <3>1
    <2> QED BY <2>1, <2>2, <2>3, <2>4, <2>5, <2>6, <2>7, <2>8, <2>9 DEF V!Begin, V!Write
  <1> QED BY <1>1, <1>2 DEF Calm

LEMMA ServeCalm ==
  ASSUME ViewTypes, Calm, V!Serve \/ V!ExpireSummary \/ (\E l \in V!Lists : V!ExpireList(l))
  PROVE  Calm'
  <1>1. UNCHANGED <<lists, version, viewer, writer>>
    BY DEF V!Serve, V!ReloadQuery, V!ReloadStore, V!InvalidateOnEvent, V!ExpireSummary, V!ExpireList
  <1>2. \A l \in V!Lists : cache'[l] \in {Nothing, cache[l]}
    BY DEF V!Serve, V!ReloadQuery, V!ReloadStore, V!InvalidateOnEvent, V!ExpireSummary, V!ExpireList, ViewTypes
  <1>3. summary' = Nothing \/ UNCHANGED <<summary, events>>
    BY DEF V!Serve, V!ReloadQuery, V!ReloadStore, V!InvalidateOnEvent, V!ExpireSummary, V!ExpireList
  <1>4. TakeTurns' /\ ReadersCurrent'
    BY <1>1 DEF Calm, TakeTurns, ReadersCurrent
  <1>5. ListsCurrent'
    BY <1>1, <1>2 DEF Calm, ListsCurrent
  <1>6. SummaryCurrent'
    BY <1>1, <1>3 DEF Calm, SummaryCurrent, Dropped
  <1> QED BY <1>4, <1>5, <1>6 DEF Calm

LEMMA ViewNext == ASSUME ViewInv, [V!Next]_(V!vars) PROVE ViewInv'
  <1>1. ViewTypes'
    BY ViewTypesNext DEF ViewInv
  <1>2. UNCHANGED viewOverlap
    BY DEF V!Next, V!vars, V!InitializeUser, V!Augment, V!ReadOn, V!StoreAliases, V!RetrieveRows,
       V!WithResolvedAliases, V!GetByUser, V!FillList, V!PutSummary, V!Write, V!Serve, V!Begin, V!ChangeList,
       V!AddAlias, V!FindAliases, V!InvalidateUserCache, V!ForgetList, V!NotifyUpdate, V!DeleteMulti,
       V!UpdateCache, V!ChangeRows, V!Others, V!ReloadQuery, V!ReloadStore, V!InvalidateOnEvent,
       V!ExpireSummary, V!ExpireList
  <1>3. ASSUME ~ viewOverlap PROVE Calm'
    <2>1. ViewTypes /\ Calm
      BY <1>3 DEF ViewInv
    <2>2. CASE UNCHANGED V!vars
      BY <2>1, <2>2 DEF V!vars, Calm, TakeTurns, ListsCurrent, SummaryCurrent, Dropped, ReadersCurrent
    <2> QED BY <1>3, <2>1, <2>2, ReadCalm, ChangeCalm, ServeCalm DEF V!Next
  <1> QED BY <1>1, <1>2, <1>3 DEF ViewInv

\* Every variable stays within its type, and no event and no version is without a change.
THEOREM ViewsTyped == V!Spec => []V!TypeOK
  <1>1. ViewInv => V!TypeOK
    <2> SUFFICES ASSUME ViewInv PROVE V!TypeOK
      OBVIOUS
    <2> QED BY DEF ViewInv, ViewTypes, V!TypeOK, V!Contents, Entry
  <1> QED BY <1>1, ViewInit, ViewNext, PTL DEF V!Spec

\* As long as no reader overlaps with a change and no query fails, a cached summary has the
\* labels and the rows of the tables and the cached lists are the tables': invalidating in the
\* order of the code (table, list, event; summaries before their rows) misses nothing.
THEOREM ViewsCurrent == V!Spec => []V!CachedIsCurrent
  <1>1. ViewInv => V!CachedIsCurrent
    <2> SUFFICES ASSUME ViewInv, ~ viewOverlap, V!Quiet
                 PROVE  /\ summary # Nothing => summary.labels = lists.labels /\ summary.version = version
                        /\ \A l \in V!Lists : cache[l] \in {Nothing, lists[l]}
      BY DEF V!CachedIsCurrent
    <2> QED BY DEF ViewInv, Calm, ViewTypes, ListsCurrent, SummaryCurrent, Dropped, V!Quiet
  <1> QED BY <1>1, ViewInit, ViewNext, PTL DEF V!Spec

----------------------------------------------------------------------------
(***************************************************************************)
(* Heartbeats: types.                                                      *)
(***************************************************************************)
LEMMA Limits == ASSUME Bounds PROVE IsFiniteSet(Beats) /\ MaxPosts \in Nat /\ MaxTroubles \in Nat
  BY Zenon DEF Bounds

LEMMA SetsApart ==
  ASSUME Bounds
  PROVE  /\ NoSet \notin SUBSET Projects(Beats) /\ NoSet \in Sets /\ {} # NoSet
         /\ Cardinality(Beats) \in Nat
         /\ \A S \in SUBSET Projects(Beats) : S \in Sets /\ S # NoSet
         /\ \A S \in Sets : S # NoSet => S \subseteq Projects(Beats)
  BY FS_CardinalityType DEF Bounds, NoSet, Sets

LEMMA ProjectsMonotone ==
  ASSUME NEW S, NEW T, S \subseteq T
  PROVE  Projects(S) \subseteq Projects(T) /\ Named(Projects(S)) \subseteq Named(Projects(T))
  BY DEF Projects, Named

LEMMA SetsInit == ASSUME Bounds, Init PROVE SetTypes
  <1>1. post \in [Posts -> PostState] /\ \A p \in Posts : post[p].hashes = {}
    BY DEF Init, PostState
  <1>2. reader \in ReaderState
    BY SetsApart DEF Init, Resting, ReaderState
  <1>3. /\ flushing \in Nat /\ deletes \in Nat /\ faults \in Nat
        /\ flushing <= deletes /\ faults + deletes <= MaxTroubles
    BY Limits DEF Init
  <1>4. entities \in Sets /\ unique \in Sets /\ stats \in Sets
    BY SetsApart DEF Init
  <1>5. table \subseteq Beats /\ updates \subseteq Projects(Beats) /\ notices \subseteq NoticeState /\ populating = NoSet
    BY DEF Init
  <1>6. \A p \in Posts : post[p].pc # "insert"
    BY DEF Init
  <1> QED BY <1>1, <1>2, <1>3, <1>4, <1>5, <1>6 DEF SetTypes

LEMMA PostTypes == ASSUME Bounds, SetTypes, NEW p \in Posts, Post(p) PROVE SetTypes'
  <1>1. PICK hashes \in (SUBSET Beats) \ {{}} :
           /\ post' = [post EXCEPT ![p] = [pc |-> "insert", hashes |-> hashes]]
           /\ updates' = updates \union Projects(hashes)
    BY DEF Post
  <1>2. post' \in [Posts -> PostState] /\ \A q \in Posts : post'[q].pc # "insert" => post'[q].hashes = {}
    BY <1>1 DEF SetTypes, PostState
  <1>3. updates' \subseteq Projects(Beats)
    BY <1>1, ProjectsMonotone DEF SetTypes
  <1> QED BY <1>2, <1>3 DEF SetTypes, Post

LEMMA InsertTypes == ASSUME Bounds, SetTypes, NEW p \in Posts, InsertBatch(p) PROVE SetTypes'
  <1>1. post' = [post EXCEPT ![p] = [pc |-> "done", hashes |-> {}]]
    BY DEF InsertBatch
  <1>2. post' \in [Posts -> PostState] /\ \A q \in Posts : post'[q].pc # "insert" => post'[q].hashes = {}
    BY <1>1 DEF SetTypes, PostState
  <1>3. post[p].hashes \subseteq Beats
    BY DEF SetTypes, PostState
  <1>4. table' \subseteq Beats /\ notices' \subseteq NoticeState
    BY <1>3 DEF InsertBatch, SetTypes, NoticeState
  <1>5. faults' \in Nat /\ faults' + deletes <= MaxTroubles
    <2>1. faults' = faults \/ (faults + deletes < MaxTroubles /\ faults' = faults + 1)
      BY DEF InsertBatch
    <2>2. faults \in Nat /\ deletes \in Nat /\ MaxTroubles \in Nat /\ faults + deletes <= MaxTroubles
      BY Limits DEF SetTypes
    <2> QED BY <2>1, <2>2
  <1> QED BY <1>2, <1>4, <1>5 DEF SetTypes, InsertBatch

LEMMA UpdateTypes == ASSUME Bounds, SetTypes, NEW name, UpdateEntity(name) PROVE SetTypes'
  <1>1. entities' \in Sets
    BY SetsApart DEF UpdateEntity, SetTypes
  <1> QED BY <1>1 DEF SetTypes, UpdateEntity

LEMMA OnHeartbeatTypes == ASSUME Bounds, SetTypes, OnHeartbeat PROVE SetTypes'
  <1>1. notices' \subseteq notices /\ stats' \in {NoSet, stats} /\ populating' \in {{}, populating}
    BY DEF OnHeartbeat
  <1> QED BY <1>1, SetsApart DEF SetTypes, OnHeartbeat

LEMMA ReadQueryTypes == ASSUME Bounds, SetTypes, ReadQuery PROVE SetTypes'
  <1>1. Cardinality(table) \in -1 .. Cardinality(Beats)
    <2>1. IsFiniteSet(Beats) /\ table \subseteq Beats
      BY Limits DEF SetTypes
    <2>2. IsFiniteSet(table) /\ Cardinality(table) <= Cardinality(Beats)
      BY <2>1, FS_Subset
    <2>3. Cardinality(table) \in Nat /\ Cardinality(Beats) \in Nat
      BY <2>1, <2>2, FS_CardinalityType
    <2> QED BY <2>2, <2>3
  <1>2. Named(Projects(table)) \subseteq Projects(Beats) /\ InStats(table) \subseteq Projects(Beats)
    <2>1. table \intersect Counted \subseteq Beats /\ table \subseteq Beats
      BY DEF SetTypes
    <2> QED BY <2>1, ProjectsMonotone DEF Named, InStats
  <1>3. PICK what \in {"count", "entities", "stats"} :
          reader' = [pc |-> "put", of |-> what, n |-> Cardinality(table),
                     found |-> IF what = "stats" THEN InStats(table) ELSE Named(Projects(table))]
    BY DEF ReadQuery
  <1>4. reader' \in ReaderState
    <2>1. CASE what = "stats"
      BY <1>1, <1>2, <1>3, <2>1 DEF ReaderState
    <2>2. CASE what # "stats"
      BY <1>1, <1>2, <1>3, <2>2 DEF ReaderState
    <2> QED BY <2>1, <2>2
  <1> QED BY <1>4 DEF SetTypes, ReadQuery

LEMMA ReadPutTypes == ASSUME Bounds, SetTypes, ReadPut PROVE SetTypes'
  <1>1. reader.found \in Sets
    BY SetsApart DEF SetTypes, ReaderState
  <1>2. entities' \in Sets /\ stats' \in Sets /\ populating' \in {NoSet, {}}
    BY <1>1 DEF ReadPut, SetTypes
  <1>3. reader' \in ReaderState
    BY SetsApart DEF ReadPut, Resting, ReaderState
  <1> QED BY <1>2, <1>3 DEF SetTypes, ReadPut

LEMMA PopulateTypes == ASSUME Bounds, SetTypes, Populate PROVE SetTypes'
  <1> DEFINE projects == IF entities # NoSet THEN entities ELSE Named(Projects(table))
  <1>1. Named(Projects(table)) \subseteq Projects(Beats)
    BY ProjectsMonotone DEF SetTypes, Named
  <1>2. projects \in Sets
    BY <1>1, SetsApart DEF SetTypes
  <1>3. \/ unique' = projects /\ entities' = projects
        \/ UNCHANGED <<unique, entities>>
    BY DEF Populate
  <1> HIDE DEF projects
  <1> QED BY <1>2, <1>3 DEF SetTypes, Populate

LEMMA DeleteTypes == ASSUME Bounds, SetTypes, Delete PROVE SetTypes'
  <1>1. table' \subseteq table /\ deletes' = deletes + 1 /\ flushing' = flushing + 1 /\ faults + deletes < MaxTroubles
    BY DEF Delete
  <1>2. /\ flushing' \in Nat /\ deletes' \in Nat /\ flushing' <= deletes' /\ faults + deletes' <= MaxTroubles
    BY <1>1, Limits DEF SetTypes
  <1>3. UNCHANGED <<post, updates, notices, entities, unique, stats, reader, populating, faults>>
    BY DEF Delete
  <1> QED BY <1>1, <1>2, <1>3 DEF SetTypes

LEMMA OtherTypes ==
  ASSUME Bounds, SetTypes, Flush \/ CountExpires \/ StatsExpire \/ UNCHANGED vars
  PROVE  SetTypes'
  BY SetsApart DEF SetTypes, Flush, CountExpires, StatsExpire, vars

LEMMA SetTypesNext == ASSUME Bounds, SetTypes, [Next]_vars PROVE SetTypes'
  BY PostTypes, InsertTypes, UpdateTypes, OnHeartbeatTypes, ReadQueryTypes, ReadPutTypes, PopulateTypes,
     DeleteTypes, OtherTypes DEF Next, Server

\* The count.
LEMMA CountInit == ASSUME Bounds, Init PROVE CountTyped
  <1>1. Answered = {} /\ notices = {} /\ count = -1
    BY DEF Init, Answered
  <1>2. Cardinality({}) = 0 /\ IsFiniteSet({})
    BY FS_EmptySet
  <1> DEFINE b == Cardinality(Beats)
  <1>3. b \in Nat
    BY SetsApart
  <1> HIDE DEF b
  <1>4. 0 <= b * 0 /\ -1 + 0 <= b * (1 + 0)
    BY <1>3
  <1> QED BY <1>1, <1>2, <1>4 DEF CountTyped, b

LEMMA PostsFinite ==
  ASSUME Bounds
  PROVE  /\ IsFiniteSet(Posts) /\ Cardinality(Posts) \in Nat
         /\ \A S \in SUBSET Posts : /\ IsFiniteSet(S) /\ Cardinality(S) \in Nat
                                     /\ Cardinality(S) <= Cardinality(Posts)
  <1>1. IsFiniteSet(Posts)
    <2>1. 1 \in Int /\ MaxPosts \in Int
      BY Limits
    <2>2. IsFiniteSet(1 .. MaxPosts)
      BY <2>1, FS_Interval
    <2> QED BY <2>2 DEF Posts
  <1> QED BY <1>1, FS_Subset, FS_CardinalityType

LEMMA InsertCount == ASSUME Bounds, SetTypes, CountTyped, NEW p \in Posts, InsertBatch(p) PROVE CountTyped'
  <1> DEFINE told == {[by |-> p, hash |-> h] : h \in post[p].hashes}
             b == Cardinality(Beats)
             a == Cardinality(Answered)
             n == Cardinality(notices)
  <1>1. post[p].pc = "insert" /\ post' = [post EXCEPT ![p] = [pc |-> "done", hashes |-> {}]] /\ UNCHANGED count
    BY DEF InsertBatch
  <1>2. Answered' = Answered \union {p} /\ p \notin Answered /\ Answered \subseteq Posts
    BY <1>1 DEF Answered, SetTypes
  <1>3. Cardinality(Answered') = a + 1 /\ a \in Nat
    BY <1>2, PostsFinite, FS_AddElement
  <1>4. IsFiniteSet(told) /\ Cardinality(told) <= b /\ Cardinality(told) \in Nat
    <2>1. post[p].hashes \subseteq Beats
      BY DEF SetTypes, PostState
    <2>2. IsFiniteSet(post[p].hashes) /\ Cardinality(post[p].hashes) <= b
      BY <2>1, FS_Subset DEF Bounds
    <2>3. IsFiniteSet(told) /\ Cardinality(told) <= Cardinality(post[p].hashes)
      <3> DEFINE hs == post[p].hashes
                 f == [h \in hs |-> [by |-> p, hash |-> h]]
      <3>1. f \in Surjection(hs, told)
        BY DEF Surjection
      <3> HIDE DEF f, hs
      <3>2. IsFiniteSet(hs)
        BY <2>2 DEF hs
      <3> HIDE DEF told
      <3>3. IsFiniteSet(told) /\ Cardinality(told) <= Cardinality(hs)
        BY <3>1, <3>2, FS_Surjection
      <3> QED BY <3>3 DEF hs
    <2> QED BY <2>2, <2>3, SetsApart, FS_CardinalityType
  <1>5. notices' \in {notices, notices \union told}
    BY DEF InsertBatch
  <1>6. IsFiniteSet(notices) /\ n \in Nat
    BY FS_CardinalityType DEF CountTyped
  <1> HIDE DEF told
  <1>7. IsFiniteSet(notices') /\ Cardinality(notices') \in Nat /\ Cardinality(notices') <= n + b
    <2>1. IsFiniteSet(notices \union told) /\ Cardinality(notices \union told) <= n + Cardinality(told)
      <3>1. /\ IsFiniteSet(notices \union told)
            /\ Cardinality(notices \union told) = n + Cardinality(told) - Cardinality(notices \intersect told)
        BY <1>4, <1>6, FS_Union
      <3>2. Cardinality(notices \intersect told) \in Nat
        BY <1>6, FS_Intersection, FS_CardinalityType
      <3> HIDE DEF n
      <3> QED BY <1>4, <1>6, <3>1, <3>2
    <2>2. Cardinality(notices \union told) \in Nat
      BY <2>1, FS_CardinalityType
    <2> HIDE DEF n, b
    <2>3. b \in Nat
      BY SetsApart DEF b
    <2>4. CASE notices' = notices
      <3>1. IsFiniteSet(notices') /\ Cardinality(notices') = n
        BY <1>6, <2>4 DEF n
      <3> QED BY <1>6, <2>3, <3>1
    <2>5. CASE notices' = notices \union told
      <3>1. IsFiniteSet(notices') /\ Cardinality(notices') \in Nat /\ Cardinality(notices') <= n + Cardinality(told)
        BY <2>1, <2>2, <2>5
      <3> QED BY <1>4, <1>6, <2>3, <3>1
    <2> QED BY <1>5, <2>4, <2>5
  <1>8. n <= b * a /\ count + n <= b * (1 + a) /\ count \in Int /\ count >= -1 /\ b \in Nat
    BY SetsApart DEF CountTyped
  <1> HIDE DEF a, b, n
  <1>9. b * (a + 1) = b * a + b /\ b * (1 + (a + 1)) = b * (1 + a) + b
    BY <1>3, <1>8
  <1>10. /\ Cardinality(notices') <= b * (a + 1)
         /\ count' + Cardinality(notices') <= b * (1 + (a + 1))
    <2> DEFINE x == b * a
               y == b * (1 + a)
               m == Cardinality(notices')
    <2>1. x \in Nat /\ y \in Nat
      BY <1>3, <1>8
    <2>2. m \in Nat /\ m <= n + b /\ n <= x /\ count + n <= y /\ count' = count
      BY <1>1, <1>7, <1>8
    <2> HIDE DEF x, y, m
    <2>3. m <= x + b /\ count' + m <= y + b
      BY <1>6, <1>8, <2>1, <2>2
    <2> QED BY <1>9, <2>3 DEF x, y, m
  <1> QED BY <1>1, <1>3, <1>7, <1>8, <1>10 DEF CountTyped, b

LEMMA CountSame ==
  ASSUME Bounds, SetTypes, CountTyped, UNCHANGED <<notices, post>>,
         count' \in {-1, count} \/ (count' \in Int /\ count' >= -1 /\ count' <= Cardinality(Beats))
  PROVE  CountTyped'
  <1> DEFINE b == Cardinality(Beats)
             a == Cardinality(Answered)
             n == Cardinality(notices)
  <1>1. Answered' = Answered /\ a \in Nat /\ n \in Nat /\ b \in Nat
    BY PostsFinite, SetsApart, FS_CardinalityType DEF Answered, CountTyped
  <1>2. IsFiniteSet(notices) /\ n <= b * a /\ count \in Int /\ count >= -1 /\ count + n <= b * (1 + a)
    BY DEF CountTyped
  <1> DEFINE x == b * a
             y == b * (1 + a)
  <1>3. y = x + b /\ x \in Nat
    <2> HIDE DEF a, b
    <2> QED BY <1>1
  <1>4. count' \in Int /\ count' >= -1 /\ count' + n <= y
    <2> HIDE DEF x, y, n, a
    <2>1. n <= x /\ count + n <= y
      BY <1>2 DEF x, y
    <2> QED BY <1>1, <1>2, <1>3, <2>1
  <1> QED BY <1>1, <1>2, <1>4 DEF CountTyped

LEMMA NoticeCount == ASSUME Bounds, SetTypes, CountTyped, OnHeartbeat PROVE CountTyped'
  <1>1. PICK e \in notices : notices' = notices \ {e} /\ count' = IF count = -1 THEN -1 ELSE count + 1
    BY DEF OnHeartbeat
  <1>2. Answered' = Answered
    BY DEF OnHeartbeat, Answered
  <1>3. /\ IsFiniteSet(notices') /\ Cardinality(notices') = Cardinality(notices) - 1
        /\ Cardinality(notices) \in Nat /\ Cardinality(notices) >= 1
    BY <1>1, FS_RemoveElement, FS_CardinalityType, FS_EmptySet DEF CountTyped
  <1> DEFINE x == Cardinality(Beats) * Cardinality(Answered)
             y == Cardinality(Beats) * (1 + Cardinality(Answered))
             n == Cardinality(notices)
  <1>4. x \in Int /\ y \in Int
    BY SetsApart, PostsFinite DEF Answered
  <1>5. n <= x /\ count + n <= y /\ count \in Int /\ count >= -1
    BY DEF CountTyped
  <1>6. n - 1 <= x /\ count' + (n - 1) <= y /\ count' \in Int /\ count' >= -1
    <2> HIDE DEF x, y
    <2> QED BY <1>1, <1>3, <1>4, <1>5
  <1> QED BY <1>2, <1>3, <1>6 DEF CountTyped

LEMMA CountNext == ASSUME Bounds, SetTypes, CountTyped, [Next]_vars PROVE CountTyped'
  <1>1. ASSUME NEW p \in Posts, Post(p) PROVE CountTyped'
    <2>1. Answered' = Answered /\ UNCHANGED <<notices, count>>
      BY <1>1 DEF Post, Answered, Idle, SetTypes
    <2> QED BY <2>1 DEF CountTyped
  <1>2. CASE ReadPut
    <2>1. reader.n \in -1 .. Cardinality(Beats)
      BY DEF SetTypes, ReaderState
    <2> QED BY <1>2, <2>1, SetsApart, CountSame DEF ReadPut
  <1>3. CASE \/ ReadQuery \/ Delete \/ CountExpires \/ StatsExpire \/ Populate \/ Flush
             \/ (\E name \in Projects(Beats) : UpdateEntity(name)) \/ UNCHANGED vars
    <2>1. UNCHANGED <<notices, post>> /\ count' \in {-1, count}
      BY <1>3 DEF ReadQuery, Delete, CountExpires, StatsExpire, Populate, Flush, UpdateEntity, vars
    <2> QED BY <2>1, CountSame
  <1> QED BY <1>1, <1>2, <1>3, InsertCount, NoticeCount DEF Next, Server

----------------------------------------------------------------------------
(***************************************************************************)
(* Heartbeats: the projects in memory.                                     *)
(***************************************************************************)
LEMMA ComingWhile ==
  ASSUME SetTypes
  PROVE  /\ \A p \in Posts : post[p].hashes \subseteq Coming
         /\ (\A p \in Posts : post[p].pc # "insert") => Coming = {}
  BY DEF SetTypes, Coming

LEMMA ProjectsUnion == ASSUME NEW S, NEW T PROVE Projects(S \union T) = Projects(S) \union Projects(T)
  BY DEF Projects

\* A project of the table is in the stats' result or has a heartbeat that does not count.
LEMMA CountedOrNot ==
  ASSUME NEW S
  PROVE  /\ Named(Projects(S)) \subseteq WhollyCounted(S) \union Projects(S \ Counted)
         /\ Named(Projects(S)) \subseteq InStats(S) \union Projects(S \ Counted)
         /\ WhollyCounted(S) \subseteq InStats(S) /\ InStats(S) \subseteq Named(Projects(S))
         /\ "" \notin InStats(S)
  BY DEF Named, Projects, WhollyCounted, InStats

LEMMA CountedGrow ==
  ASSUME NEW S, NEW T
  PROVE  /\ WhollyCounted(S \union T) \subseteq WhollyCounted(S) \union Named(Projects(T))
         /\ Projects(S \ Counted) \subseteq Projects((S \union T) \ Counted)
  <1>1. Projects(S \ Counted) \subseteq Projects((S \union T) \ Counted)
    BY DEF Projects
  <1>2. InStats(S \union T) \subseteq InStats(S) \union Named(Projects(T))
    BY DEF InStats, Named, Projects
  <1> QED BY <1>1, <1>2 DEF WhollyCounted

LEMMA PostInv ==
  ASSUME Bounds, SetTypes, ~ overlap, Apart, EntitiesComplete, faults = 0 => StatsComplete,
         NEW p \in Posts, Post(p)
  PROVE  (Apart /\ EntitiesComplete /\ (faults = 0 => StatsComplete))'
  <1>1. PICK hashes \in (SUBSET Beats) \ {{}} :
           /\ post' = [post EXCEPT ![p] = [pc |-> "insert", hashes |-> hashes]]
           /\ updates' = updates \union Projects(hashes)
    BY DEF Post
  <1>2. /\ reader.pc = "idle" /\ populating = NoSet /\ flushing = 0 /\ post[p].pc = "idle"
        /\ UNCHANGED <<table, notices, entities, unique, stats, reader, populating, flushing, faults>>
    BY DEF Post, ReadsEnd, Idle
  <1>3. Apart'
    BY <1>2 DEF Apart
  <1>4. Coming' = Coming \union hashes
    BY <1>1, <1>2 DEF Coming, SetTypes
  <1> DEFINE now  == table \union Coming
             soon == table' \union Coming'
  <1>5. Projects(soon) = Projects(now) \union Projects(hashes)
    <2>1. soon = now \union hashes
      BY <1>2, <1>4
    <2> HIDE DEF now, soon
    <2> QED BY <2>1, ProjectsUnion
  <1>6. EntitiesComplete'
    <2> HIDE DEF soon
    <2>1. entities # NoSet => Named(Projects(soon)) \subseteq entities \union updates'
      BY <1>1, <1>5 DEF EntitiesComplete, Named
    <2> QED BY <1>2, <2>1 DEF EntitiesComplete, soon
  <1>7. ASSUME faults = 0 PROVE StatsComplete'
    <2> HIDE DEF soon
    <2>1. /\ entities # NoSet => Named(entities) \subseteq Projects(soon)
          /\ Named(updates') \subseteq Projects(soon)
      BY <1>1, <1>2, <1>5, <1>7 DEF StatsComplete, Named
    <2>2. /\ stats # NoSet => WhollyCounted(table) \subseteq stats \union Projects({e.hash : e \in notices})
          /\ stats # NoSet /\ unique # NoSet => Named(unique) \subseteq stats \union Projects(table \ Counted)
          /\ unique # NoSet => Named(unique) \subseteq Projects(table)
      BY <1>2, <1>7 DEF StatsComplete
    <2> QED BY <1>2, <2>1, <2>2 DEF StatsComplete, soon
  <1> QED BY <1>2, <1>3, <1>6, <1>7

LEMMA InsertInv ==
  ASSUME Bounds, SetTypes, Apart, EntitiesComplete, faults = 0 => StatsComplete,
         NEW p \in Posts, InsertBatch(p)
  PROVE  (Apart /\ EntitiesComplete /\ (faults = 0 => StatsComplete))'
  <1> DEFINE hashes == post[p].hashes
  <1>1. /\ post[p].pc = "insert" /\ post' = [post EXCEPT ![p] = [pc |-> "done", hashes |-> {}]]
        /\ UNCHANGED <<updates, entities, unique, stats, reader, populating, flushing>>
        /\ ~ PostsRest
    BY DEF InsertBatch, PostsRest
  <1>2. \/ table' = table \union hashes /\ faults' = faults
           /\ notices' = notices \union {[by |-> p, hash |-> h] : h \in hashes}
        \/ faults' # 0 /\ UNCHANGED <<table, notices>>
    BY DEF InsertBatch, SetTypes
  <1>3. reader.pc = "idle" /\ flushing = 0 /\ (populating # NoSet => unique # NoSet)
    BY <1>1 DEF Apart, SetTypes
  <1>4. Apart'
    BY <1>1, <1>3 DEF Apart
  <1>5. Coming' \subseteq Coming /\ hashes \subseteq Coming /\ Coming \subseteq Coming' \union hashes
    BY <1>1 DEF Coming, SetTypes
  <1>6. EntitiesComplete'
    <2>1. table' \union Coming' \subseteq table \union Coming
      BY <1>2, <1>5
    <2>2. Named(Projects(table' \union Coming')) \subseteq Named(Projects(table \union Coming))
      BY <2>1, ProjectsMonotone
    <2> QED BY <1>1, <1>3, <2>2 DEF EntitiesComplete
  <1>7. ASSUME faults' = 0 PROVE StatsComplete'
    <2>1. /\ table' = table \union hashes /\ faults = 0
          /\ notices' = notices \union {[by |-> p, hash |-> h] : h \in hashes}
      BY <1>2, <1>7
    <2>2. {e.hash : e \in notices'} = {e.hash : e \in notices} \union hashes
      <3> DEFINE new == {[by |-> p, hash |-> h] : h \in hashes}
      <3>1. \A x : x \in {e.hash : e \in new} <=> x \in hashes
        <4>1. \A x : x \in {e.hash : e \in new} => x \in hashes
          OBVIOUS
        <4>2. ASSUME NEW x \in hashes PROVE x \in {e.hash : e \in new}
          <5>1. [by |-> p, hash |-> x] \in new /\ [by |-> p, hash |-> x].hash = x
            OBVIOUS
          <5> HIDE DEF new
          <5> QED BY <5>1
        <4> QED BY <4>1, <4>2
      <3>2. {e.hash : e \in new} = hashes
        BY <3>1
      <3> HIDE DEF new
      <3>3. {e.hash : e \in notices \union new} = {e.hash : e \in notices} \union {e.hash : e \in new}
        OBVIOUS
      <3> QED BY <2>1, <3>2, <3>3 DEF new
    <2> DEFINE told == {e.hash : e \in notices}
               toldNow == {e.hash : e \in notices'}
    <2>3. Projects(toldNow) = Projects(told) \union Projects(hashes)
      BY <2>2, ProjectsUnion
    <2>4. Projects(table') = Projects(table) \union Projects(hashes)
      BY <2>1, ProjectsUnion
    <2>5. Projects(table \union Coming) \subseteq Projects(table' \union Coming')
      <3>1. table \union Coming \subseteq table' \union Coming'
        BY <1>5, <2>1
      <3> QED BY <3>1, ProjectsMonotone
    <2> HIDE DEF told, toldNow, hashes
    <2>6. stats # NoSet => WhollyCounted(table) \subseteq stats \union Projects(told)
      BY <1>3, <2>1 DEF StatsComplete, told
    <2>9. /\ WhollyCounted(table') \subseteq WhollyCounted(table) \union Projects(hashes)
          /\ Projects(table \ Counted) \subseteq Projects(table' \ Counted)
      BY <2>1, CountedGrow DEF Named
    <2>7. stats # NoSet => WhollyCounted(table') \subseteq stats \union Projects(toldNow)
      BY <2>3, <2>6, <2>9
    <2>8. /\ entities # NoSet => Named(entities) \subseteq Projects(table' \union Coming')
          /\ Named(updates) \subseteq Projects(table' \union Coming')
          /\ unique # NoSet => Named(unique) \subseteq Projects(table')
          /\ stats # NoSet /\ unique # NoSet => Named(unique) \subseteq stats \union Projects(table' \ Counted)
      BY <1>3, <2>1, <2>4, <2>5, <2>9 DEF StatsComplete
    <2> QED BY <1>1, <2>7, <2>8 DEF StatsComplete, toldNow
  <1> QED BY <1>4, <1>6, <1>7

LEMMA UpdateInv ==
  ASSUME Bounds, SetTypes, Apart, EntitiesComplete, faults = 0 => StatsComplete,
         NEW name, UpdateEntity(name)
  PROVE  (Apart /\ EntitiesComplete /\ (faults = 0 => StatsComplete))'
  <1>1. /\ name \in updates /\ updates' = updates \ {name}
        /\ entities' = IF entities = NoSet THEN NoSet ELSE entities \union {name}
        /\ UNCHANGED <<table, post, notices, unique, stats, reader, populating, flushing, faults>>
        /\ ~ PostsRest
    BY DEF UpdateEntity, PostsRest
  <1>2. reader.pc = "idle" /\ flushing = 0
    BY <1>1 DEF Apart, SetTypes
  <1>3. Apart'
    BY <1>1, <1>2 DEF Apart
  <1>4. Coming' = Coming
    BY <1>1 DEF Coming
  <1>5. EntitiesComplete'
    BY <1>1, <1>2, <1>4 DEF EntitiesComplete
  <1>6. ASSUME faults = 0 PROVE StatsComplete'
    BY <1>1, <1>2, <1>4, <1>6 DEF StatsComplete, Named
  <1> QED BY <1>1, <1>3, <1>5, <1>6

LEMMA NoticeInv ==
  ASSUME Bounds, SetTypes, Apart, EntitiesComplete, faults = 0 => StatsComplete, OnHeartbeat
  PROVE  (Apart /\ EntitiesComplete /\ (faults = 0 => StatsComplete))'
  <1> DEFINE new(e) == unique # NoSet /\ Project(e.hash) \notin unique
  <1>1. PICK e \in notices :
           /\ notices' = notices \ {e} /\ stats' = IF new(e) THEN NoSet ELSE stats
           /\ populating' = IF new(e) /\ stats # NoSet /\ populating = NoSet THEN {} ELSE populating
    BY DEF OnHeartbeat
  <1>2. UNCHANGED <<table, post, updates, entities, unique, reader, flushing, faults>> /\ ~ PostsRest
    BY <1>1 DEF OnHeartbeat, PostsRest
  <1>3. /\ reader.pc = "idle" /\ flushing = 0 /\ (populating # NoSet => unique # NoSet)
        /\ stats # NoSet => unique # NoSet
    BY <1>2 DEF Apart, SetTypes
  <1>4. Apart'
    BY <1>1, <1>2, <1>3 DEF Apart
  <1>5. Coming' = Coming
    BY <1>2 DEF Coming
  <1>6. EntitiesComplete'
    BY <1>2, <1>5 DEF EntitiesComplete
  <1>7. ASSUME faults = 0 PROVE StatsComplete'
    <2> DEFINE told == {d.hash : d \in notices}
               toldNow == {d.hash : d \in notices'}
    <2>1. Projects(told) \subseteq Projects(toldNow) \union {Project(e.hash)}
      <3>1. told \subseteq toldNow \union {e.hash}
        BY <1>1
      <3> HIDE DEF told, toldNow
      <3> QED BY <3>1 DEF Projects
    <2>2. stats' # NoSet => Project(e.hash) = "" \/ Project(e.hash) \in stats \union Projects(table \ Counted)
      BY <1>1, <1>3, <1>7 DEF StatsComplete, Named
    <2> HIDE DEF told, toldNow
    <2>3. stats # NoSet => WhollyCounted(table) \subseteq stats \union Projects(told)
      BY <1>3, <1>7 DEF StatsComplete, told
    <2>6. "" \notin WhollyCounted(table) /\ WhollyCounted(table) \intersect Projects(table \ Counted) = {}
      BY CountedOrNot DEF WhollyCounted
    <2>4. stats' # NoSet => WhollyCounted(table) \subseteq stats' \union Projects(toldNow)
      BY <1>1, <2>1, <2>2, <2>3, <2>6
    <2>5. /\ stats' # NoSet /\ unique # NoSet => Named(unique) \subseteq stats' \union Projects(table \ Counted)
          /\ entities # NoSet => Named(entities) \subseteq Projects(table \union Coming)
          /\ Named(updates) \subseteq Projects(table \union Coming)
          /\ unique # NoSet => Named(unique) \subseteq Projects(table)
      BY <1>1, <1>3, <1>7 DEF StatsComplete
    <2> QED BY <1>2, <1>5, <2>4, <2>5 DEF StatsComplete, toldNow
  <1> QED BY <1>2, <1>4, <1>6, <1>7

LEMMA ReadQueryInv ==
  ASSUME Bounds, SetTypes, ~ overlap, Apart, EntitiesComplete, faults = 0 => StatsComplete, ReadQuery
  PROVE  (Apart /\ EntitiesComplete /\ (faults = 0 => StatsComplete))'
  <1>1. /\ PostsRest /\ flushing = 0
        /\ reader'.found = IF reader'.of = "stats" THEN InStats(table) ELSE Named(Projects(table))
        /\ UNCHANGED <<table, post, updates, notices, entities, unique, stats, populating, flushing, faults>>
    BY DEF ReadQuery, PostsEnd, PostsRest
  <1>2. PostsRest' /\ Coming' = Coming
    BY <1>1 DEF PostsRest, Coming
  <1>3. Apart'
    BY <1>1, <1>2 DEF Apart
  <1>4. EntitiesComplete'
    BY <1>1, <1>2 DEF EntitiesComplete
  <1>5. ASSUME faults = 0 PROVE StatsComplete'
    BY <1>1, <1>2, <1>5 DEF StatsComplete
  <1> QED BY <1>1, <1>3, <1>4, <1>5

LEMMA ReadPutInv ==
  ASSUME Bounds, SetTypes, Apart, EntitiesComplete, faults = 0 => StatsComplete, ReadPut
  PROVE  (Apart /\ EntitiesComplete /\ (faults = 0 => StatsComplete))'
  <1> DEFINE found   == Named(Projects(table))
             counted == InStats(table)
  <1>1. /\ PostsRest /\ flushing = 0
        /\ UNCHANGED <<table, post, updates, notices, unique, flushing, faults>> /\ reader'.pc = "idle"
        /\ entities' \in {entities, found} /\ stats' \in {stats, counted}
        /\ populating' # NoSet \/ (populating = NoSet /\ stats' = stats)
    BY SetsApart DEF ReadPut, Resting, Apart, EntitiesComplete
  <1>2. PostsRest' /\ Coming' = Coming /\ Coming = {} /\ table \union Coming = table
    BY <1>1, ComingWhile DEF PostsRest, Coming
  <1>3. Apart'
    BY <1>1, <1>2 DEF Apart
  <1> HIDE DEF found, counted
  <1>4. EntitiesComplete'
    BY <1>1, <1>2 DEF EntitiesComplete, found
  <1>5. ASSUME faults = 0 PROVE StatsComplete'
    <2>1. /\ entities # NoSet => Named(entities) \subseteq Projects(table)
          /\ Named(updates) \subseteq Projects(table)
          /\ unique # NoSet => Named(unique) \subseteq Projects(table)
          /\ stats # NoSet => WhollyCounted(table) \subseteq stats \union Projects({e.hash : e \in notices})
          /\ stats # NoSet /\ unique # NoSet => Named(unique) \subseteq stats \union Projects(table \ Counted)
      BY <1>1, <1>2, <1>5 DEF StatsComplete
    <2>2. /\ Named(found) \subseteq Projects(table) /\ WhollyCounted(table) \subseteq counted
          /\ found \subseteq counted \union Projects(table \ Counted)
          /\ Named(unique) \subseteq Projects(table) => Named(unique) \subseteq found
      BY CountedOrNot DEF found, counted, Named
    <2>3. /\ entities' # NoSet => Named(entities') \subseteq Projects(table)
          /\ stats' # NoSet => WhollyCounted(table) \subseteq stats' \union Projects({e.hash : e \in notices})
          /\ stats' # NoSet /\ unique # NoSet => Named(unique) \subseteq stats' \union Projects(table \ Counted)
      BY <1>1, <2>1, <2>2
    <2> QED BY <1>1, <1>2, <2>1, <2>3 DEF StatsComplete
  <1> QED BY <1>1, <1>3, <1>4, <1>5

LEMMA PopulateInv ==
  ASSUME Bounds, SetTypes, Apart, EntitiesComplete, faults = 0 => StatsComplete, Populate
  PROVE  (Apart /\ EntitiesComplete /\ (faults = 0 => StatsComplete))'
  <1> DEFINE projects == IF entities # NoSet THEN entities ELSE Named(Projects(table))
  <1>1. /\ populating # NoSet /\ populating' = NoSet
        /\ UNCHANGED <<table, post, updates, notices, stats, reader, flushing, faults>>
        /\ IF unique = NoSet THEN unique' = projects /\ entities' = projects ELSE UNCHANGED <<unique, entities>>
    BY DEF Populate
  <1>2. flushing = 0 /\ (unique = NoSet => PostsRest)
    BY <1>1 DEF Apart, SetTypes
  <1>3. projects # NoSet
    <2>1. Named(Projects(table)) \subseteq Projects(Beats)
      BY ProjectsMonotone DEF SetTypes, Named
    <2> QED BY <2>1, SetsApart
  <1>4. Coming' = Coming /\ PostsRest' = PostsRest
    BY <1>1 DEF Coming, PostsRest
  <1>5. Apart'
    BY <1>1, <1>2, <1>3, <1>4 DEF Apart
  <1>6. CASE unique # NoSet
    BY <1>1, <1>4, <1>5, <1>6 DEF EntitiesComplete, StatsComplete
  <1>7. CASE unique = NoSet
    <2>1. PostsRest /\ Coming = {} /\ table \union Coming = table /\ updates = {} /\ notices = {}
      BY <1>2, <1>7, ComingWhile DEF PostsRest
    <2>2. Named(Projects(table)) \subseteq projects
      BY <2>1 DEF EntitiesComplete
    <2>3. EntitiesComplete'
      BY <1>1, <1>4, <1>7, <2>1, <2>2 DEF EntitiesComplete
    <2>4. ASSUME faults = 0 PROVE StatsComplete'
      <3>1. Named(projects) \subseteq Projects(table)
        BY <1>2, <2>1, <2>4 DEF StatsComplete, Named
      <3>2. stats # NoSet => WhollyCounted(table) \subseteq stats
        <4>1. Projects({e.hash : e \in notices}) = {}
          BY <2>1 DEF Projects
        <4> QED BY <1>2, <2>4, <4>1 DEF StatsComplete
      <3>3. stats # NoSet => Named(projects) \subseteq stats \union Projects(table \ Counted)
        <4>1. Named(projects) \subseteq Named(Projects(table))
          BY <3>1 DEF Named
        <4> QED BY <3>2, <4>1, CountedOrNot
      <3>4. Named(updates) \subseteq Projects(table)
        BY <2>1 DEF Named
      <3> HIDE DEF projects
      <3> QED BY <1>1, <1>4, <1>7, <2>1, <3>1, <3>2, <3>3, <3>4 DEF StatsComplete
    <2> QED BY <1>1, <1>5, <2>3, <2>4
  <1> QED BY <1>6, <1>7

LEMMA DeleteInv ==
  ASSUME Bounds, SetTypes, ~ overlap, Apart, EntitiesComplete, faults = 0 => StatsComplete, Delete
  PROVE  (Apart /\ EntitiesComplete /\ (faults = 0 => StatsComplete))'
  <1>1. /\ table' \subseteq table /\ reader.pc = "idle" /\ populating = NoSet /\ PostsRest /\ flushing' = flushing + 1
        /\ UNCHANGED <<post, updates, notices, entities, unique, stats, reader, populating, faults>>
    BY DEF Delete, ReadsEnd, PostsEnd, PostsRest
  <1>2. PostsRest' /\ Coming' = Coming /\ flushing' # 0
    BY <1>1 DEF PostsRest, Coming, SetTypes
  <1>3. Apart'
    BY <1>1, <1>2 DEF Apart
  <1>4. /\ Named(Projects(table')) \subseteq Named(Projects(table))
        /\ Named(Projects(table' \union Coming)) \subseteq Named(Projects(table \union Coming))
    BY <1>1, ProjectsMonotone
  <1>5. EntitiesComplete'
    BY <1>1, <1>2, <1>4 DEF EntitiesComplete
  <1>6. ASSUME faults = 0 PROVE StatsComplete'
    BY <1>2 DEF StatsComplete
  <1> QED BY <1>1, <1>3, <1>5, <1>6

LEMMA FlushInv ==
  ASSUME Bounds, SetTypes, Apart, EntitiesComplete, faults = 0 => StatsComplete, Flush
  PROVE  (Apart /\ EntitiesComplete /\ (faults = 0 => StatsComplete))'
  <1>1. /\ flushing > 0 /\ entities' = NoSet /\ unique' = NoSet /\ stats' = NoSet
        /\ flushing' = flushing - 1 /\ flushing \in Nat
        /\ UNCHANGED <<table, post, updates, notices, reader, populating, faults>>
    BY DEF Flush, SetTypes
  <1>2. PostsRest /\ PostsRest' /\ populating = NoSet /\ reader.pc = "idle" /\ updates = {}
    BY <1>1 DEF Apart, PostsRest, SetTypes, ReaderState
  <1>3. Apart' /\ EntitiesComplete'
    BY <1>1, <1>2 DEF Apart, EntitiesComplete, SetTypes, ReaderState
  <1>4. StatsComplete'
    BY <1>1, <1>2 DEF StatsComplete, Named
  <1> QED BY <1>3, <1>4

LEMMA ExpireInv ==
  ASSUME SetTypes, Apart, EntitiesComplete, faults = 0 => StatsComplete,
         CountExpires \/ StatsExpire \/ UNCHANGED vars
  PROVE  (Apart /\ EntitiesComplete /\ (faults = 0 => StatsComplete))'
  <1>1. /\ stats' \in {NoSet, stats}
        /\ UNCHANGED <<table, post, updates, notices, entities, unique, reader, populating, flushing, faults>>
    BY DEF CountExpires, StatsExpire, vars
  <1>2. Coming' = Coming /\ PostsRest' = PostsRest
    BY <1>1 DEF Coming, PostsRest
  <1>3. Apart' /\ EntitiesComplete'
    BY <1>1, <1>2 DEF Apart, EntitiesComplete
  <1>4. StatsComplete => StatsComplete'
    BY <1>1, <1>2 DEF StatsComplete
  <1> QED BY <1>1, <1>3, <1>4

LEMMA IngestInit == ASSUME Bounds, Init PROVE IInv
  <1>1. PostsRest /\ Coming = {}
    BY DEF Init, PostsRest, Coming
  <1>2. Apart /\ EntitiesComplete /\ StatsComplete
    BY <1>1 DEF Init, Resting, Apart, EntitiesComplete, StatsComplete, Named
  <1> QED BY <1>2, SetsInit, CountInit DEF IInv, SetsInv

LEMMA IngestNext == ASSUME Bounds, IInv, [Next]_vars PROVE IInv'
  <1>1. SetTypes' /\ CountTyped'
    BY SetTypesNext, CountNext DEF IInv
  <1>2. UNCHANGED overlap
    BY DEF Next, Server, Post, InsertBatch, UpdateEntity, OnHeartbeat, ReadQuery, ReadPut, Populate, Delete,
       Flush, CountExpires, StatsExpire, vars
  <1>3. ASSUME ~ overlap PROVE (Apart /\ EntitiesComplete /\ (faults = 0 => StatsComplete))'
    <2>1. SetTypes /\ Apart /\ EntitiesComplete /\ (faults = 0 => StatsComplete)
      BY <1>3 DEF IInv, SetsInv
    <2> QED BY <1>3, <2>1, PostInv, InsertInv, UpdateInv, NoticeInv, ReadQueryInv, ReadPutInv, PopulateInv,
            DeleteInv, FlushInv, ExpireInv DEF Next, Server
  <1> QED BY <1>1, <1>2, <1>3 DEF IInv, SetsInv

\* Every variable stays within its type; the count, which duplicates increase and which reads
\* that overlap with insertions set back, is never more than all hashes of all requests.
THEOREM HeartbeatsTyped == ASSUME Bounds PROVE Spec => []TypeOK
  <1>1. IInv => TypeOK
    <2> SUFFICES ASSUME IInv PROVE TypeOK
      OBVIOUS
    <2> DEFINE b == Cardinality(Beats)
               a == Cardinality(Answered)
               n == Cardinality(notices)
               m == Cardinality(Posts)
    <2>1. a \in Nat /\ m \in Nat /\ a <= m /\ b \in Nat /\ n \in Nat
      BY PostsFinite, SetsApart, FS_CardinalityType DEF Answered, IInv, CountTyped
    <2>2. count \in Int /\ count >= -1 /\ count + n <= b * (1 + a)
      BY DEF IInv, CountTyped
    <2> HIDE DEF a, b, n, m
    <2>3. b * (1 + a) <= b * (1 + m)
      BY <2>1
    <2>4. count \in -1 .. b * (1 + m)
      <3> DEFINE x == b * (1 + a)
                 y == b * (1 + m)
      <3>1. x \in Int /\ y \in Int /\ x <= y /\ count + n <= x
        BY <2>1, <2>2, <2>3
      <3> HIDE DEF x, y
      <3>2. count \in -1 .. y
        BY <2>1, <2>2, <3>1
      <3> QED BY <3>2 DEF y
    <2>5. flushing \in 0 .. MaxTroubles
      BY Limits DEF IInv, SetTypes
    <2> QED BY <2>4, <2>5 DEF IInv, SetTypes, TypeOK, b, m
  <1> QED BY <1>1, IngestInit, IngestNext, PTL DEF Spec

\* As long as reads do not overlap with posts and deletions, once the goroutines are done, in
\* whatever order they updated, inserted and notified, the cached set of projects has every
\* project of the table, and the project stats, unless an insertion failed, every project of
\* which they count all heartbeats.
THEOREM NoProjectMissing == ASSUME Bounds PROVE Spec => []ProjectsComplete
  <1>1. IInv => ProjectsComplete
    <2> SUFFICES ASSUME IInv, ~ overlap, PostsEnd, ReadsEnd
                 PROVE  /\ entities = NoSet \/ Named(Projects(table)) \subseteq entities
                        /\ faults = 0 => stats = NoSet \/ WhollyCounted(table) \subseteq stats
      BY DEF ProjectsComplete
    <2>1. Coming = {} /\ table \union Coming = table /\ updates = {} /\ notices = {} /\ flushing = 0
      BY ComingWhile DEF IInv, PostsEnd
    <2>2. Projects({e.hash : e \in notices}) = {}
      BY <2>1 DEF Projects
    <2> QED BY <2>1, <2>2 DEF IInv, SetsInv, EntitiesComplete, StatsComplete
  <1> QED BY <1>1, IngestInit, IngestNext, PTL DEF Spec

----------------------------------------------------------------------------
(***************************************************************************)
(* Imports: types, and what becomes of each heartbeat of WakaTime's when   *)
(* nothing fails.  Once an import has begun it is in the table, or an      *)
(* import under way has it or has yet to ask for it.                       *)
(***************************************************************************)
\* What is assumed of the sizes.
ImportSizes == /\ LastBeat \in Nat /\ DayLength \in Nat \ {0} /\ BatchSize \in Nat \ {0}
               /\ MaxImports \in Nat /\ MaxFaults \in Nat

\* The states of the parts of an import.
DaysOfBeats == {P!DayOfBeat(b) : b \in P!Beats}
Asked    == [what : {"process", "poll"}, by : P!Imports]
Records  == [pc : {"idle", "refused", "begin", "failed", "mark", "receive", "done"}, legacy : BOOLEAN,
             from : Int, open : BOOLEAN, batch : SUBSET P!Beats, days : SUBSET DaysOfBeats,
             fetched : SUBSET DaysOfBeats, rest : SUBSET P!Beats]

ImportVarTypes ==
    /\ imported \in SUBSET P!Beats /\ ticking \in SUBSET P!Imports
    /\ imp \in [P!Imports -> Records]
    /\ queue \in Seq(Asked)
    /\ \/ job = P!Free
       \/ job \in [what : {"process", "poll", "days", "stream", "stuck"}, by : P!Imports]
    /\ importFaults \in Nat

\* No batch outgrows import_batch_size.
BatchesFit == \A i \in P!Imports : Cardinality(imp[i].batch) <= BatchSize

\* An import is under way; an import has begun; where a job is.
Under(i)    == imp[i].pc \in {"mark", "receive"}
Begun(i)    == imp[i].pc \in {"mark", "receive", "done"}
Has(q, j)   == \E k \in DOMAIN q : q[k] = j
Once(q)     == \A k, l \in DOMAIN q : q[k] = q[l] => k = l
InQueue(j)  == Has(queue, j)
Jb(w, i)    == [what |-> w, by |-> i]
NotAsked(i) == i \in ticking \/ job = Jb("process", i) \/ InQueue(Jb("process", i))

\* What an import still has to bring: it has it, or will ask for it.
Owes(i, b) ==
    /\ Under(i)
    /\ \/ b \in imp[i].batch \union imp[i].rest
       \/ b >= imp[i].from /\ (NotAsked(i) \/ P!DayOfBeat(b) \in imp[i].days \ imp[i].fetched)

\* Where the work for an import is: its job is queued, or with the worker, or its ticker runs.
Placed(i) ==
    /\ InQueue(Jb("process", i)) \/ job = Jb("process", i) \/ job = Jb("days", i) =>
          Begun(i) /\ imp[i].legacy /\ imp[i].open
    /\ job = Jb("days", i) => ~ InQueue(Jb("process", i))
    /\ InQueue(Jb("poll", i)) \/ job = Jb("poll", i) => i \in ticking
    /\ i \in ticking \/ job = Jb("stream", i) => Begun(i) /\ ~ imp[i].legacy /\ imp[i].open
    /\ job = Jb("stream", i) => i \notin ticking

\* A job is in one place at a time.
OneJob ==
    /\ Once(queue) /\ ~ InQueue(job) /\ job.what # "stuck"
    /\ \A i \in P!Imports : Placed(i)

\* What is still to be sent has a sender; who has not begun has nothing.
HasSender(i) ==
    /\ NotAsked(i) => imp[i].rest = {} /\ imp[i].days = {} /\ imp[i].fetched = {}
    /\ imp[i].rest # {} => job = Jb("days", i) \/ job = Jb("stream", i)
    /\ imp[i].days # {} => job = Jb("days", i)
    /\ job = Jb("days", i) => \A b \in imp[i].rest : P!DayOfBeat(b) \in imp[i].days
    /\ ~ Begun(i) => /\ imp[i].open /\ imp[i].batch = {} /\ imp[i].rest = {}
                     /\ imp[i].days = {} /\ imp[i].fetched = {}
    /\ imp[i].pc = "done" => ~ imp[i].open

\* That of every import.
Sending == \A i \in P!Imports : HasSender(i)

\* Once an import has begun, what is not in the table some import has yet to bring.
AllOwed ==
    /\ imported # {} => \E i \in P!Imports : Begun(i)
    /\ (\E i \in P!Imports : Begun(i)) => \A b \in P!Beats : b \in imported \/ \E i \in P!Imports : Owes(i, b)

ImportInv == ImportVarTypes /\ BatchesFit /\ (importFaults = 0 => OneJob /\ Sending /\ AllOwed)

\* When nothing failed and all imports have ended, one of them done, all is in the table.
AllImported ==
    importFaults = 0 /\ (\A i \in P!Imports : imp[i].pc \in {"idle", "refused", "done"})
       /\ (\E i \in P!Imports : P!At(i, "done")) => imported = P!Beats

LEMMA SameCardinality == ASSUME NEW S PROVE P!Cardinality(S) = Cardinality(S)
  BY DEF P!Cardinality, Cardinality

LEMMA Least == ASSUME NEW S \in SUBSET Nat, S # {} PROVE \E m \in S : \A k \in S : m <= k
  <1> DEFINE Lt == {ss \in Nat \X Nat : ss[1] < ss[2]}
  <1>1. IsWellFoundedOn(Lt, Nat)
    BY NatLessThanWellFounded DEF OpToRel
  <1>2. \A x, y \in Nat : <<y, x>> \in Lt <=> y < x
    OBVIOUS
  <1> HIDE DEF Lt
  <1>3. PICK m \in S : \A k \in S : ~ (<<k, m>> \in Lt)
    BY <1>1, WFMin
  <1>4. ASSUME NEW k \in S PROVE m <= k
    <2>1. k \in Nat /\ m \in Nat
      OBVIOUS
    <2>2. ~ (k < m)
      BY <1>2, <1>3, <2>1
    <2> QED BY <2>1, <2>2
  <1> QED BY <1>4

LEMMA FirstIsIn == ASSUME NEW S \in SUBSET P!Beats, S # {}, ImportSizes PROVE P!First(S) \in S
  <1>1. S \in SUBSET Nat
    BY DEF P!Beats, ImportSizes
  <1>2. \E m \in S : \A k \in S : m <= k
    BY <1>1, Least
  <1> QED BY <1>2 DEF P!First

LEMMA LatestIsInt == ASSUME ImportSizes, imported \in SUBSET P!Beats PROVE P!Latest \in Int
  <1>1. CASE imported = {}
    BY <1>1 DEF P!Latest
  <1>2. CASE imported # {}
    <2> DEFINE N == {n \in Nat : \E b \in imported : n = LastBeat - b}
    <2>1. \A b \in imported : b \in 1 .. LastBeat /\ LastBeat - b \in N
      BY DEF P!Beats, ImportSizes
    <2>2. N \in SUBSET Nat /\ N # {}
      BY <1>2, <2>1
    <2>3. PICK m \in N : \A k \in N : m <= k
      <3> HIDE DEF N
      <3> QED BY <2>2, Least
    <2>4. PICK b \in imported : m = LastBeat - b
      BY <2>3
    <2>5. \A c \in imported : b >= c
      BY <2>1, <2>3, <2>4 DEF ImportSizes
    <2> QED BY <1>2, <2>1, <2>4, <2>5 DEF P!Latest, ImportSizes
  <1> QED BY <1>1, <1>2

LEMMA QueueAppend ==
  ASSUME NEW q \in Seq(Asked), NEW e \in Asked
  PROVE  /\ Append(q, e) \in Seq(Asked)
         /\ \A j : Has(Append(q, e), j) <=> j = e \/ Has(q, j)
         /\ Once(q) /\ ~ Has(q, e) => Once(Append(q, e))
  <1> DEFINE r == Append(q, e)
  <1>1. /\ r \in Seq(Asked) /\ Len(r) = Len(q) + 1 /\ r[Len(q) + 1] = e
        /\ \A k \in 1 .. Len(q) : r[k] = q[k]
    BY AppendProperties
  <1>2. DOMAIN q = 1 .. Len(q) /\ DOMAIN r = 1 .. Len(q) + 1 /\ Len(q) \in Nat
    BY <1>1, LenProperties
  <1> HIDE DEF Asked, r
  <1>3. \A k \in DOMAIN r : (k \in DOMAIN q /\ r[k] = q[k]) \/ k = Len(q) + 1
    BY <1>1, <1>2
  <1>4. \A k \in DOMAIN q : k \in DOMAIN r /\ r[k] = q[k] /\ k # Len(q) + 1
    BY <1>1, <1>2
  <1>5. Len(q) + 1 \in DOMAIN r
    BY <1>2
  <1>6. /\ \A j : Has(r, j) <=> j = e \/ Has(q, j)
        /\ Once(q) /\ ~ Has(q, e) => Once(r)
    BY <1>1, <1>3, <1>4, <1>5 DEF Has, Once
  <1> QED BY <1>1, <1>6 DEF r

LEMMA QueueTail ==
  ASSUME NEW q \in Seq(Asked), q # <<>>, NEW r, r = Tail(q)
  PROVE  /\ r \in Seq(Asked) /\ Head(q) \in Asked /\ Has(q, Head(q))
         /\ \A j : Has(r, j) => Has(q, j)
         /\ \A j : Has(q, j) => j = Head(q) \/ Has(r, j)
         /\ Once(q) => Once(r) /\ ~ Has(r, Head(q))
  <1>1. /\ r \in Seq(Asked) /\ Head(q) \in Asked /\ Len(r) = Len(q) - 1
        /\ \A k \in 1 .. Len(r) : r[k] = q[k + 1]
    BY HeadTailProperties
  <1>2. /\ DOMAIN q = 1 .. Len(q) /\ DOMAIN r = 1 .. Len(r) /\ Len(q) \in Nat /\ Len(q) # 0
        /\ Head(q) = q[1]
    BY <1>1, LenProperties, EmptySeq
  <1>3. 1 \in DOMAIN q /\ \A k \in DOMAIN r : k + 1 \in DOMAIN q /\ r[k] = q[k + 1] /\ k + 1 # 1 /\ k \in Int
    BY <1>1, <1>2
  <1>4. \A k \in DOMAIN q : k = 1 \/ (k - 1 \in DOMAIN r /\ r[k - 1] = q[k])
    BY <1>1, <1>2
  <1>5. ASSUME \A k, l \in DOMAIN q : q[k] = q[l] => k = l, NEW k \in DOMAIN r, NEW l \in DOMAIN r, r[k] = r[l]
        PROVE  k = l
    <2>1. k + 1 = l + 1
      BY <1>3, <1>5
    <2> QED BY <1>3, <2>1
  <1>6. ASSUME \A k, l \in DOMAIN q : q[k] = q[l] => k = l, NEW k \in DOMAIN r PROVE r[k] # Head(q)
    BY <1>2, <1>3, <1>6
  <1> HIDE DEF Asked
  <1>7. \E k \in DOMAIN q : q[k] = Head(q)
    BY <1>2, <1>3
  <1>8. \A j : (\E k \in DOMAIN r : r[k] = j) => \E k \in DOMAIN q : q[k] = j
    BY <1>3
  <1>9. \A j : (\E k \in DOMAIN q : q[k] = j) => j = Head(q) \/ \E k \in DOMAIN r : r[k] = j
    BY <1>2, <1>4
  <1> QED BY <1>1, <1>5, <1>6, <1>7, <1>8, <1>9 DEF Has, Once

LEMMA ImportTypesKept ==
  ASSUME ImportSizes, ImportVarTypes, [P!Next]_(P!vars) PROVE ImportVarTypes'
  <1> USE DEF ImportVarTypes
  <1>1. ASSUME NEW i \in P!Imports, P!Request(i) PROVE ImportVarTypes'
    <2>1. PICK legacy \in BOOLEAN, pc \in {"refused", "begin"} :
             imp' = [imp EXCEPT ![i] = [imp[i] EXCEPT !.pc = pc, !.legacy = legacy]]
      BY <1>1 DEF P!Request
    <2>2. [imp[i] EXCEPT !.pc = pc, !.legacy = legacy] \in Records
      <3>1. imp[i] \in Records
        OBVIOUS
      <3> QED BY <3>1 DEF Records
    <2>3. imp' \in [P!Imports -> Records]
      BY <2>1, <2>2
    <2> QED BY <1>1, <2>3 DEF P!Request
  <1>2. ASSUME P!PutLastImport \/ P!KeysExpire \/ P!Complete PROVE ImportVarTypes'
    BY <1>2 DEF P!PutLastImport, P!KeysExpire, P!Complete
  <1>3. ASSUME NEW i \in P!Imports, P!Begin(i) PROVE ImportVarTypes'
    <2>1. PICK n \in Int : n = P!Latest
      BY LatestIsInt
    <2>2. \/ imp' = [imp EXCEPT ![i] = [imp[i] EXCEPT !.pc = "mark", !.from = n]]
          \/ imp' = [imp EXCEPT ![i] = [imp[i] EXCEPT !.pc = "failed"]]
      BY <1>3, <2>1 DEF P!Begin
    <2>3. /\ [imp[i] EXCEPT !.pc = "mark", !.from = n] \in Records
          /\ [imp[i] EXCEPT !.pc = "failed"] \in Records
      <3>1. imp[i] \in Records
        OBVIOUS
      <3> QED BY <3>1 DEF Records
    <2>4. imp' \in [P!Imports -> Records]
      BY <2>2, <2>3
    <2>5. ticking' \in SUBSET P!Imports /\ importFaults' \in Nat
      BY <1>3 DEF P!Begin, P!Fault
    <2>6. queue' \in Seq(Asked)
      <3>1. Jb("process", i) \in Asked
        BY DEF Asked, Jb
      <3>2. queue' = queue \/ queue' = Append(queue, Jb("process", i))
        BY <1>3 DEF P!Begin, Jb
      <3> QED BY <3>1, <3>2, QueueAppend
    <2> QED BY <1>3, <2>4, <2>5, <2>6 DEF P!Begin
  <1>4. ASSUME NEW i \in P!Imports, P!MarkSuccess(i) PROVE ImportVarTypes'
    <2>1. [imp[i] EXCEPT !.pc = "receive"] \in Records
      <3>1. imp[i] \in Records
        OBVIOUS
      <3> QED BY <3>1 DEF Records
    <2> QED BY <1>4, <2>1 DEF P!MarkSuccess
  <1>5. ASSUME NEW i \in P!Imports, P!Insert(i) PROVE ImportVarTypes'
    <2>1. PICK pc \in {"receive", "done"} : imp' = [imp EXCEPT ![i] = [imp[i] EXCEPT !.batch = {}, !.pc = pc]]
      BY <1>5, SameCardinality DEF P!Insert
    <2>2. [imp[i] EXCEPT !.batch = {}, !.pc = pc] \in Records
      <3>1. imp[i] \in Records
        OBVIOUS
      <3> QED BY <3>1 DEF Records
    <2>3. imp' \in [P!Imports -> Records]
      BY <2>1, <2>2
    <2>4. imp[i].batch \subseteq P!Beats
      BY DEF Records
    <2> QED BY <1>5, <2>3, <2>4, SameCardinality DEF P!Insert, P!Fault
  <1>6. ASSUME P!TakeJob PROVE ImportVarTypes'
    <2>1. queue' \in Seq(Asked) /\ job' \in Asked
      BY <1>6, QueueTail DEF P!TakeJob
    <2> QED BY <1>6, <2>1 DEF P!TakeJob, Asked
  <1>7. ASSUME P!Tick PROVE ImportVarTypes'
    <2>1. PICK i \in ticking : queue' = Append(queue, Jb("poll", i))
      BY <1>7 DEF P!Tick, Jb
    <2>2. Jb("poll", i) \in Asked
      BY DEF Asked, Jb
    <2>3. queue' \in Seq(Asked)
      BY <2>1, <2>2, QueueAppend
    <2>4. importFaults' \in Nat
      BY <1>7 DEF P!Tick, P!Fault
    <2> QED BY <1>7, <2>3, <2>4 DEF P!Tick
  <1>8. ASSUME P!StartDays \/ P!FetchDay \/ P!SendOfDay \/ P!DayDone \/ P!Poll \/ P!Stream PROVE ImportVarTypes'
    <2> DEFINE i == job.by
    <2>1. i \in P!Imports /\ job \in [what : {"process", "poll", "days", "stream", "stuck"}, by : P!Imports]
      <3>1. job.what \in {"process", "poll", "days", "stream"}
        BY <1>8 DEF P!StartDays, P!FetchDay, P!SendOfDay, P!DayDone, P!Poll, P!Stream
      <3>2. job # P!Free
        BY <3>1 DEF P!Free
      <3> QED BY <3>2
    <2>2. imp[i] \in Records
      BY <2>1
    <2>3. imported' = imported /\ queue' = queue /\ ticking' \in SUBSET P!Imports /\ importFaults' \in Nat
      <3>1. imported' = imported /\ queue' = queue
        BY <1>8 DEF P!StartDays, P!FetchDay, P!SendOfDay, P!DayDone, P!Poll, P!Stream
      <3>2. ticking' \in SUBSET P!Imports
        BY <1>8 DEF P!StartDays, P!FetchDay, P!SendOfDay, P!DayDone, P!Poll, P!Stream
      <3>3. importFaults' \in Nat
        <4>1. importFaults' = importFaults \/ P!Fault
          BY <1>8 DEF P!StartDays, P!FetchDay, P!SendOfDay, P!DayDone, P!Poll, P!Stream
        <4> QED BY <4>1 DEF P!Fault
      <3> QED BY <3>1, <3>2, <3>3
    <2>4. job' = job \/ job' = P!Free \/ \E w \in {"days", "stream", "stuck"} : job' = [job EXCEPT !.what = w]
      BY <1>8 DEF P!StartDays, P!FetchDay, P!SendOfDay, P!DayDone, P!Poll, P!Stream
    <2>5. job' = P!Free \/ job' \in [what : {"process", "poll", "days", "stream", "stuck"}, by : P!Imports]
      BY <2>1, <2>4
    <2>6. \E r \in Records : imp' = imp \/ imp' = [imp EXCEPT ![i] = r]
      <3> DEFINE With(r) == imp' = [imp EXCEPT ![i] = r]
      <3>1. CASE P!StartDays
        <4>1. imp' = imp \/ \E D \in SUBSET DaysOfBeats : With([imp[i] EXCEPT !.days = D])
          <5> DEFINE wanted == {b \in P!Beats : b >= imp[i].from}
                     D      == {P!DayOfBeat(b) : b \in wanted}
          <5>1. imp' = imp \/ imp' = [imp EXCEPT ![i].days = D]
            BY <3>1 DEF P!StartDays
          <5>2. D \in SUBSET DaysOfBeats
            BY DEF DaysOfBeats
          <5> HIDE DEF D
          <5>3. imp' = imp \/ With([imp[i] EXCEPT !.days = D])
            BY <2>1, <5>1
          <5> QED BY <5>2, <5>3
        <4>2. \A D \in SUBSET DaysOfBeats : [imp[i] EXCEPT !.days = D] \in Records
          BY <2>2 DEF Records
        <4> QED BY <2>2, <4>1, <4>2
      <3>2. CASE P!FetchDay
        <4>0. PICK d \in imp[i].days :
                 \/ imp' = [imp EXCEPT ![i].fetched = @ \union {d},
                        ![i].rest = @ \union {b \in P!Beats : P!DayOfBeat(b) = d /\ b >= imp[i].from}]
                 \/ imp' = [imp EXCEPT ![i].fetched = @ \union {d}]
          BY <3>2 DEF P!FetchDay
        <4> DEFINE Rest == {b \in P!Beats : P!DayOfBeat(b) = d /\ b >= imp[i].from}
        <4>1. \/ With([imp[i] EXCEPT !.fetched = imp[i].fetched \union {d}, !.rest = imp[i].rest \union Rest])
              \/ With([imp[i] EXCEPT !.fetched = imp[i].fetched \union {d}])
          BY <2>1, <4>0
        <4>3. Rest \in SUBSET P!Beats /\ d \in imp[i].days
          OBVIOUS
        <4> HIDE DEF Rest
        <4>2. /\ [imp[i] EXCEPT !.fetched = imp[i].fetched \union {d}, !.rest = imp[i].rest \union Rest]
                     \in Records
              /\ [imp[i] EXCEPT !.fetched = imp[i].fetched \union {d}] \in Records
          BY <2>2, <4>3 DEF Records
        <4> QED BY <4>1, <4>2
      <3>3. CASE P!SendOfDay
        <4>0. PICK d \in imp[i].days :
                LET mine == {b \in imp[i].rest : P!DayOfBeat(b) = d}
                IN  /\ mine # {}
                    /\ imp' = [imp EXCEPT ![i].rest = @ \ {P!First(mine)},
                           ![i].batch = @ \union {P!First(mine)}]
          BY <3>3 DEF P!SendOfDay
        <4> DEFINE mine == {b \in imp[i].rest : P!DayOfBeat(b) = d}
        <4>1. /\ mine # {} /\ mine \in SUBSET imp[i].rest
              /\ With([imp[i] EXCEPT !.rest = imp[i].rest \ {P!First(mine)},
                                     !.batch = imp[i].batch \union {P!First(mine)}])
          BY <2>1, <4>0
        <4> HIDE DEF mine
        <4>2. P!First(mine) \in P!Beats
          BY <2>2, <4>1, FirstIsIn DEF Records
        <4>3. [imp[i] EXCEPT !.rest = imp[i].rest \ {P!First(mine)},
                             !.batch = imp[i].batch \union {P!First(mine)}] \in Records
          BY <2>2, <4>2 DEF Records
        <4> QED BY <4>1, <4>3
      <3>4. CASE P!DayDone
        <4>0. PICK d : imp' = [imp EXCEPT ![i].days = @ \ {d}, ![i].open = imp[i].days # {d}]
          BY <3>4 DEF P!DayDone
        <4>1. PICK o \in BOOLEAN : With([imp[i] EXCEPT !.days = imp[i].days \ {d}, !.open = o])
          BY <2>1, <4>0
        <4>2. [imp[i] EXCEPT !.days = imp[i].days \ {d}, !.open = o] \in Records
          BY <2>2 DEF Records
        <4> QED BY <4>1, <4>2
      <3>5. CASE P!Poll
        <4>1. \/ imp' = imp
              \/ \E Rest \in SUBSET P!Beats : With([imp[i] EXCEPT !.rest = Rest])
              \/ With([imp[i] EXCEPT !.open = FALSE])
          BY <3>5 DEF P!Poll
        <4>2. /\ \A Rest \in SUBSET P!Beats : [imp[i] EXCEPT !.rest = Rest] \in Records
              /\ [imp[i] EXCEPT !.open = FALSE] \in Records
          BY <2>2 DEF Records
        <4> QED BY <2>2, <4>1, <4>2
      <3>6. CASE P!Stream
        <4>1. \/ /\ imp[i].rest # {}
                 /\ With([imp[i] EXCEPT !.rest = imp[i].rest \ {P!First(imp[i].rest)},
                                        !.batch = imp[i].batch \union {P!First(imp[i].rest)}])
              \/ With([imp[i] EXCEPT !.open = FALSE])
          BY <3>6 DEF P!Stream
        <4>2. imp[i].rest # {} => P!First(imp[i].rest) \in P!Beats
          BY <2>2, FirstIsIn DEF Records
        <4>3. /\ imp[i].rest # {} => [imp[i] EXCEPT !.rest = imp[i].rest \ {P!First(imp[i].rest)},
                                        !.batch = imp[i].batch \union {P!First(imp[i].rest)}] \in Records
              /\ [imp[i] EXCEPT !.open = FALSE] \in Records
          BY <2>2, <4>2 DEF Records
        <4> QED BY <4>1, <4>3
      <3> QED BY <1>8, <3>1, <3>2, <3>3, <3>4, <3>5, <3>6
    <2> QED BY <2>1, <2>3, <2>5, <2>6
  <1>9. ASSUME UNCHANGED (P!vars) PROVE ImportVarTypes'
    BY <1>9 DEF P!vars
  <1> QED BY <1>1, <1>2, <1>3, <1>4, <1>5, <1>6, <1>7, <1>8, <1>9 DEF P!Next, P!Goroutine, P!Worker
Steady == OneJob /\ Sending /\ AllOwed

\* What is owed stays owed until it is in the table.
LEMMA OwedKept ==
  ASSUME AllOwed, imported \subseteq imported', imported' # {} => \E i \in P!Imports : Begun(i),
         \A i \in P!Imports : Begun(i)' <=> Begun(i),
         \A i \in P!Imports : \A b \in P!Beats : Owes(i, b) => Owes(i, b)' \/ b \in imported'
  PROVE  AllOwed'
  <1>1. (\E i \in P!Imports : Begun(i)) <=> (\E i \in P!Imports : Begun(i))'
    OBVIOUS
  <1>2. ASSUME NEW b \in P!Beats, \E i \in P!Imports : Begun(i)
        PROVE  b \in imported' \/ \E i \in P!Imports : Owes(i, b)'
    <2>1. CASE b \in imported
      BY <2>1
    <2>2. CASE \E i \in P!Imports : Owes(i, b)
      BY <2>2
    <2> QED BY <1>2, <2>1, <2>2 DEF AllOwed
  <1> QED BY <1>1, <1>2 DEF AllOwed

LEMMA SteadyRequest ==
  ASSUME ImportVarTypes, Steady, NEW i \in P!Imports, P!Request(i)
  PROVE  Steady'
  <1>1. /\ imp[i].pc = "idle" /\ \A k \in P!Imports \ {i} : imp'[k] = imp[k]
        /\ imp'[i].pc \in {"refused", "begin"}
        /\ imp'[i].open = imp[i].open /\ imp'[i].batch = imp[i].batch /\ imp'[i].days = imp[i].days
        /\ imp'[i].fetched = imp[i].fetched /\ imp'[i].rest = imp[i].rest
    BY DEF P!Request, P!At, ImportVarTypes, Records
  <1>2. queue' = queue /\ job' = job /\ ticking' = ticking /\ imported' = imported
    BY DEF P!Request
  <1>3. /\ \A j : InQueue(j)' <=> InQueue(j)
        /\ \A k \in P!Imports : NotAsked(k)' <=> NotAsked(k)
    BY <1>2 DEF InQueue, NotAsked
  <1>4. \A k \in P!Imports : Begun(k)' <=> Begun(k)
    BY <1>1 DEF Begun
  <1>5. OneJob'
    <2>1. ASSUME NEW k \in P!Imports PROVE Placed(k)'
      <3>1. CASE k = i
        BY <1>1, <1>2, <1>3, <1>4, <3>1 DEF Steady, OneJob, Placed, Begun
      <3>2. CASE k # i
        BY <1>1, <1>2, <1>3, <1>4, <3>2 DEF Steady, OneJob, Placed
      <3> QED BY <3>1, <3>2
    <2> QED BY <1>2, <1>3, <2>1 DEF Steady, OneJob
  <1>6. Sending'
    <2>1. ASSUME NEW k \in P!Imports PROVE HasSender(k)'
      <3>1. CASE k = i
        BY <1>1, <1>2, <1>3, <1>4, <3>1 DEF Steady, Sending, HasSender
      <3>2. CASE k # i
        BY <1>1, <1>2, <1>3, <1>4, <3>2 DEF Steady, Sending, HasSender
      <3> QED BY <3>1, <3>2
    <2> QED BY <2>1 DEF Sending
  <1>7. AllOwed'
    <2>1. \A k \in P!Imports : \A b \in P!Beats : Owes(k, b) => Owes(k, b)'
      BY <1>1, <1>3 DEF Owes, Under
    <2> QED BY <1>2, <1>4, <2>1, OwedKept DEF Steady, AllOwed
  <1> QED BY <1>5, <1>6, <1>7 DEF Steady

LEMMA SteadyOutside ==
  ASSUME Steady, P!PutLastImport \/ P!KeysExpire \/ P!Complete \/ UNCHANGED (P!vars)
  PROVE  Steady'
  <1>1. imp' = imp /\ queue' = queue /\ job' = job /\ ticking' = ticking /\ imported' = imported
    BY DEF P!PutLastImport, P!KeysExpire, P!Complete, P!vars
  <1> QED BY <1>1 DEF Steady, OneJob, Sending, AllOwed, Placed, HasSender, Owes, Under, Begun, NotAsked, InQueue
\* Only what is said of one import changes with it.
LEMMA SteadyBegin ==
  ASSUME ImportSizes, ImportVarTypes, Steady, ~ P!Fault, NEW i \in P!Imports, P!Begin(i)
  PROVE  Steady'
  <1>1. /\ imp[i].pc = "begin" /\ \A k \in P!Imports \ {i} : imp'[k] = imp[k]
        /\ imp'[i].pc = "mark" /\ imp'[i].from = P!Latest /\ imp'[i].legacy = imp[i].legacy
        /\ imp'[i].open = imp[i].open /\ imp'[i].batch = imp[i].batch /\ imp'[i].days = imp[i].days
        /\ imp'[i].fetched = imp[i].fetched /\ imp'[i].rest = imp[i].rest
    BY DEF P!Begin, P!At, ImportVarTypes, Records
  <1>2. job' = job /\ imported' = imported
    BY DEF P!Begin
  <1>3. /\ ~ Begun(i) /\ Begun(i)' /\ ~ Under(i) /\ Under(i)'
        /\ \A k \in P!Imports \ {i} : (Begun(k)' <=> Begun(k)) /\ (Under(k)' <=> Under(k))
    BY <1>1 DEF Begun, Under
  <1>4. /\ ~ InQueue(Jb("process", i)) /\ job # Jb("process", i) /\ job # Jb("days", i)
        /\ ~ InQueue(Jb("poll", i)) /\ job # Jb("poll", i) /\ i \notin ticking /\ job # Jb("stream", i)
        /\ imp[i].open /\ imp[i].batch = {} /\ imp[i].rest = {} /\ imp[i].days = {} /\ imp[i].fetched = {}
    BY <1>3 DEF Steady, OneJob, Sending, Placed, HasSender
  <1>5. \/ /\ imp[i].legacy /\ ticking' = ticking /\ queue' = Append(queue, Jb("process", i))
        \/ /\ ~ imp[i].legacy /\ ticking' = ticking \union {i} /\ queue' = queue
    BY DEF P!Begin, Jb
  <1>6. /\ Once(queue')
        /\ \A j : InQueue(j)' <=> InQueue(j) \/ (imp[i].legacy /\ j = Jb("process", i))
    <2>1. CASE imp[i].legacy
      <3>1. Jb("process", i) \in Asked
        BY DEF Asked, Jb
      <3>2. queue' = Append(queue, Jb("process", i)) /\ queue \in Seq(Asked)
        BY <1>5, <2>1 DEF ImportVarTypes
      <3>3. Once(queue)
        BY DEF Steady, OneJob
      <3>4. Once(queue') /\ \A j : Has(queue', j) <=> j = Jb("process", i) \/ Has(queue, j)
        <4>1. ~ Has(queue, Jb("process", i))
          BY <1>4 DEF InQueue
        <4> QED BY <3>1, <3>2, <3>3, <4>1, QueueAppend
      <3> QED BY <2>1, <3>4 DEF InQueue
    <2>2. CASE ~ imp[i].legacy
      BY <1>5, <2>2 DEF Steady, OneJob, InQueue
    <2> QED BY <2>1, <2>2
  <1>7. /\ \A k \in P!Imports \ {i} : NotAsked(k)' <=> NotAsked(k)
        /\ NotAsked(i)'
    <2>1. \A k \in P!Imports \ {i} : Jb("process", k) # Jb("process", i)
      BY DEF Jb
    <2> QED BY <1>2, <1>5, <1>6, <2>1 DEF NotAsked
  <1>8. OneJob'
    <2>1. ASSUME NEW k \in P!Imports PROVE Placed(k)'
      <3>1. Jb("poll", k) # Jb("process", i) /\ (k # i => Jb("process", k) # Jb("process", i))
        BY DEF Jb
      <3>2. CASE k = i
        <4>1. ~ InQueue(Jb("poll", i))' /\ job' # Jb("poll", i)
          BY <1>2, <1>4, <1>6, <3>1, <3>2
        <4>2. InQueue(Jb("process", i))' => imp'[i].legacy
          BY <1>1, <1>4, <1>6
        <4>3. i \in ticking' => ~ imp'[i].legacy
          BY <1>1, <1>4, <1>5
        <4> QED BY <1>1, <1>2, <1>3, <1>4, <3>2, <4>1, <4>2, <4>3 DEF Placed
      <3>3. CASE k # i
        BY <1>1, <1>2, <1>3, <1>5, <1>6, <3>1, <3>3 DEF Steady, OneJob, Placed
      <3> QED BY <3>2, <3>3
    <2>2. ~ InQueue(job)'
      BY <1>2, <1>4, <1>6 DEF Steady, OneJob
    <2> QED BY <1>2, <1>6, <2>1, <2>2 DEF Steady, OneJob
  <1>9. Sending'
    <2>1. ASSUME NEW k \in P!Imports PROVE HasSender(k)'
      <3>1. CASE k = i
        BY <1>1, <1>2, <1>3, <1>4, <3>1 DEF HasSender
      <3>2. CASE k # i
        BY <1>1, <1>2, <1>3, <1>7, <3>2 DEF Steady, Sending, HasSender
      <3> QED BY <3>1, <3>2
    <2> QED BY <2>1 DEF Sending
  <1>10. AllOwed'
    <2>1. \A k \in P!Imports : \A b \in P!Beats : Owes(k, b) => Owes(k, b)'
      BY <1>1, <1>3, <1>7 DEF Owes
    <2>2. ASSUME NEW b \in P!Beats PROVE b \in imported' \/ \E k \in P!Imports : Owes(k, b)'
      <3>1. CASE \E k \in P!Imports : Begun(k)
        BY <1>2, <2>1, <3>1 DEF Steady, AllOwed
      <3>2. CASE ~ \E k \in P!Imports : Begun(k)
        <4>1. P!Latest = 0
          BY <3>2 DEF Steady, AllOwed, P!Latest
        <4>2. b >= imp'[i].from
          BY <1>1, <4>1 DEF P!Beats, ImportSizes
        <4>3. Owes(i, b)'
          BY <1>3, <1>7, <4>2 DEF Owes
        <4> QED BY <4>3
      <3> QED BY <3>1, <3>2
    <2> QED BY <1>3, <2>2 DEF AllOwed
  <1> QED BY <1>8, <1>9, <1>10 DEF Steady

LEMMA SteadyMark ==
  ASSUME ImportVarTypes, Steady, NEW i \in P!Imports, P!MarkSuccess(i)
  PROVE  Steady'
  <1>1. /\ imp[i].pc = "mark" /\ \A k \in P!Imports \ {i} : imp'[k] = imp[k]
        /\ imp'[i].pc = "receive" /\ imp'[i].from = imp[i].from /\ imp'[i].legacy = imp[i].legacy
        /\ imp'[i].open = imp[i].open /\ imp'[i].batch = imp[i].batch /\ imp'[i].days = imp[i].days
        /\ imp'[i].fetched = imp[i].fetched /\ imp'[i].rest = imp[i].rest
    BY DEF P!MarkSuccess, P!At, ImportVarTypes, Records
  <1>2. queue' = queue /\ job' = job /\ ticking' = ticking /\ imported' = imported
    BY DEF P!MarkSuccess
  <1>3. /\ \A j : InQueue(j)' <=> InQueue(j)
        /\ \A k \in P!Imports : NotAsked(k)' <=> NotAsked(k)
    BY <1>2 DEF InQueue, NotAsked
  <1>4. \A k \in P!Imports : (Begun(k)' <=> Begun(k)) /\ (Under(k)' <=> Under(k))
    BY <1>1 DEF Begun, Under
  <1>5. OneJob'
    <2>1. ASSUME NEW k \in P!Imports PROVE Placed(k)'
      <3>1. CASE k = i
        BY <1>1, <1>2, <1>3, <1>4, <3>1 DEF Steady, OneJob, Placed
      <3>2. CASE k # i
        BY <1>1, <1>2, <1>3, <1>4, <3>2 DEF Steady, OneJob, Placed
      <3> QED BY <3>1, <3>2
    <2> QED BY <1>2, <1>3, <2>1 DEF Steady, OneJob
  <1>6. Sending'
    <2>1. ASSUME NEW k \in P!Imports PROVE HasSender(k)'
      <3>1. CASE k = i
        BY <1>1, <1>2, <1>3, <1>4, <3>1 DEF Steady, Sending, HasSender
      <3>2. CASE k # i
        BY <1>1, <1>2, <1>3, <1>4, <3>2 DEF Steady, Sending, HasSender
      <3> QED BY <3>1, <3>2
    <2> QED BY <2>1 DEF Sending
  <1>7. AllOwed'
    <2>1. \A k \in P!Imports : \A b \in P!Beats : Owes(k, b) => Owes(k, b)'
      BY <1>1, <1>3, <1>4 DEF Owes
    <2> QED BY <1>2, <1>4, <2>1, OwedKept DEF Steady, AllOwed
  <1> QED BY <1>5, <1>6, <1>7 DEF Steady

LEMMA SteadyInsert ==
  ASSUME ImportVarTypes, Steady, ~ P!Fault, NEW i \in P!Imports, P!Insert(i)
  PROVE  Steady'
  <1> DEFINE full == Cardinality(imp[i].batch) = BatchSize
  <1>1. /\ imp[i].pc = "receive" /\ \A k \in P!Imports \ {i} : imp'[k] = imp[k]
        /\ imp'[i].pc = IF full THEN "receive" ELSE "done"
        /\ imp'[i].from = imp[i].from /\ imp'[i].legacy = imp[i].legacy
        /\ imp'[i].open = imp[i].open /\ imp'[i].batch = {} /\ imp'[i].days = imp[i].days
        /\ imp'[i].fetched = imp[i].fetched /\ imp'[i].rest = imp[i].rest
    BY SameCardinality DEF P!Insert, P!At, ImportVarTypes, Records
  <1>2. /\ queue' = queue /\ job' = job /\ ticking' = ticking /\ imported' = imported \union imp[i].batch
        /\ full \/ ~ imp[i].open
    BY SameCardinality DEF P!Insert
  <1> HIDE DEF full
  <1>3. /\ \A j : InQueue(j)' <=> InQueue(j)
        /\ \A k \in P!Imports : NotAsked(k)' <=> NotAsked(k)
    BY <1>2 DEF InQueue, NotAsked
  <1>4. /\ \A k \in P!Imports : Begun(k)' <=> Begun(k)
        /\ \A k \in P!Imports \ {i} : Under(k)' <=> Under(k)
        /\ Begun(i) /\ (full => Under(i)') /\ Under(i)
    BY <1>1 DEF Begun, Under
  <1>5. OneJob'
    <2>1. ASSUME NEW k \in P!Imports PROVE Placed(k)'
      <3>1. CASE k = i
        BY <1>1, <1>2, <1>3, <1>4, <3>1 DEF Steady, OneJob, Placed
      <3>2. CASE k # i
        BY <1>1, <1>2, <1>3, <1>4, <3>2 DEF Steady, OneJob, Placed
      <3> QED BY <3>1, <3>2
    <2> QED BY <1>2, <1>3, <2>1 DEF Steady, OneJob
  <1>6. Sending'
    <2>1. ASSUME NEW k \in P!Imports PROVE HasSender(k)'
      <3>1. CASE k = i
        BY <1>1, <1>2, <1>3, <1>4, <3>1 DEF Steady, Sending, HasSender
      <3>2. CASE k # i
        BY <1>1, <1>2, <1>3, <1>4, <3>2 DEF Steady, Sending, HasSender
      <3> QED BY <3>1, <3>2
    <2> QED BY <2>1 DEF Sending
  <1>7. AllOwed'
    <2>1. ASSUME ~ full PROVE ~ NotAsked(i) /\ imp[i].rest = {} /\ imp[i].days = {}
      BY <1>2, <2>1 DEF Steady, OneJob, Sending, Placed, HasSender, NotAsked
    <2>2. ASSUME NEW b \in P!Beats, Owes(i, b) PROVE Owes(i, b)' \/ b \in imported'
      <3>1. CASE b \in imp[i].batch
        BY <1>2, <3>1
      <3>2. CASE b \notin imp[i].batch
        <4>1. full
          BY <2>1, <2>2, <3>2 DEF Owes
        <4> QED BY <1>1, <1>3, <1>4, <2>2, <3>2, <4>1 DEF Owes
      <3> QED BY <3>1, <3>2
    <2>3. \A k \in P!Imports \ {i} : \A b \in P!Beats : Owes(k, b) => Owes(k, b)'
      BY <1>1, <1>3, <1>4 DEF Owes
    <2> QED BY <1>2, <1>4, <2>2, <2>3, OwedKept DEF Steady
  <1> QED BY <1>5, <1>6, <1>7 DEF Steady
\* The queue or the job changes, the imports do not.
LEMMA SteadyTake ==
  ASSUME ImportVarTypes, Steady, P!TakeJob
  PROVE  Steady'
  <1>1. imp' = imp /\ ticking' = ticking /\ imported' = imported /\ job = P!Free /\ job' = Head(queue)
    BY DEF P!TakeJob
  <1>2. /\ job' \in Asked /\ Once(queue')
        /\ ~ InQueue(job)' /\ InQueue(job')
        /\ \A j : InQueue(j)' => InQueue(j)
        /\ \A j : InQueue(j) => j = job' \/ InQueue(j)'
    <2>1. queue \in Seq(Asked) /\ queue # <<>> /\ queue' = Tail(queue)
      BY DEF P!TakeJob, ImportVarTypes
    <2>2. Once(queue)
      BY DEF Steady, OneJob
    <2> QED BY <1>1, <2>1, <2>2, QueueTail DEF InQueue
  <1>3. \A k : /\ job' # Jb("days", k) /\ job' # Jb("stream", k) /\ job' # P!Free
               /\ job # Jb("days", k) /\ job # Jb("stream", k) /\ job # Jb("process", k) /\ job # Jb("poll", k)
    BY <1>1, <1>2 DEF Asked, Jb, P!Free
  <1>4. job'.what # "stuck"
    BY <1>2 DEF Asked
  <1>5. \A k \in P!Imports : NotAsked(k)' <=> NotAsked(k)
    BY <1>1, <1>2, <1>3 DEF NotAsked
  <1>6. \A k \in P!Imports : (Begun(k)' <=> Begun(k)) /\ (Under(k)' <=> Under(k))
    BY <1>1 DEF Begun, Under
  <1>7. OneJob'
    <2>1. ASSUME NEW k \in P!Imports PROVE Placed(k)'
      BY <1>1, <1>2, <1>3, <1>6 DEF Steady, OneJob, Placed
    <2> QED BY <1>2, <1>4, <2>1 DEF OneJob
  <1>8. Sending'
    BY <1>1, <1>3, <1>5, <1>6 DEF Steady, Sending, HasSender
  <1>9. AllOwed'
    <2>1. \A k \in P!Imports : \A b \in P!Beats : Owes(k, b) => Owes(k, b)'
      BY <1>1, <1>5, <1>6 DEF Owes
    <2> QED BY <1>1, <1>6, <2>1, OwedKept DEF Steady, AllOwed
  <1> QED BY <1>7, <1>8, <1>9 DEF Steady

LEMMA SteadyTick ==
  ASSUME ImportVarTypes, Steady, ~ P!Fault, P!Tick
  PROVE  Steady'
  <1>1. imp' = imp /\ ticking' = ticking /\ imported' = imported /\ job' = job
    BY DEF P!Tick
  <1>2. PICK i \in ticking : /\ queue' = Append(queue, Jb("poll", i))
                            /\ job # Jb("poll", i) /\ ~ InQueue(Jb("poll", i))
    BY DEF P!Tick, InQueue, Has, Jb
  <1>3. /\ Once(queue')
        /\ \A j : InQueue(j)' <=> j = Jb("poll", i) \/ InQueue(j)
    <2>1. queue \in Seq(Asked) /\ Jb("poll", i) \in Asked
      BY DEF ImportVarTypes, Asked, Jb
    <2>2. Once(queue)
      BY DEF Steady, OneJob
    <2>3. ~ Has(queue, Jb("poll", i))
      BY <1>2 DEF InQueue
    <2>4. Once(queue') /\ \A j : Has(queue', j) <=> j = Jb("poll", i) \/ Has(queue, j)
      BY <1>2, <2>1, <2>2, <2>3, QueueAppend
    <2> QED BY <2>4 DEF InQueue
  <1>4. \A k : Jb("process", k) # Jb("poll", i) /\ (k # i => Jb("poll", k) # Jb("poll", i))
    BY DEF Jb
  <1>5. \A k \in P!Imports : NotAsked(k)' <=> NotAsked(k)
    BY <1>1, <1>3, <1>4 DEF NotAsked
  <1>6. \A k \in P!Imports : (Begun(k)' <=> Begun(k)) /\ (Under(k)' <=> Under(k))
    BY <1>1 DEF Begun, Under
  <1>7. OneJob'
    <2>1. ASSUME NEW k \in P!Imports PROVE Placed(k)'
      BY <1>1, <1>2, <1>3, <1>4, <1>6 DEF Steady, OneJob, Placed
    <2>2. ~ InQueue(job)'
      BY <1>1, <1>2, <1>3 DEF Steady, OneJob
    <2> QED BY <1>1, <1>3, <2>1, <2>2 DEF Steady, OneJob
  <1>8. Sending'
    BY <1>1, <1>5, <1>6 DEF Steady, Sending, HasSender
  <1>9. AllOwed'
    <2>1. \A k \in P!Imports : \A b \in P!Beats : Owes(k, b) => Owes(k, b)'
      BY <1>1, <1>5, <1>6 DEF Owes
    <2> QED BY <1>1, <1>6, <2>1, OwedKept DEF Steady, AllOwed
  <1> QED BY <1>7, <1>8, <1>9 DEF Steady

\* The worker is at an import's job, which is not another's.
LEMMA JobIs ==
  ASSUME ImportVarTypes, job.what \in {"process", "poll", "days", "stream"}
  PROVE  /\ job.by \in P!Imports /\ job = Jb(job.what, job.by)
         /\ \A w, k : job = Jb(w, k) <=> w = job.what /\ k = job.by
  BY DEF ImportVarTypes, Jb, P!Free

\* What a step of the worker on a job for an import leaves alone is as it was.
LEMMA SteadyWorker ==
  ASSUME ImportVarTypes, Steady, NEW i \in P!Imports,
         \A k \in P!Imports \ {i} : imp'[k] = imp[k],
             \A k \in P!Imports \ {i} : k \in ticking' <=> k \in ticking,
         queue' = queue, imported' = imported,
         NEW w \in {"process", "poll", "days", "stream"}, job = Jb(w, i),
         job' = P!Free \/ job' = Jb("days", i) \/ job' = Jb("stream", i), 
         imp'[i].pc = imp[i].pc,
         Placed(i)', HasSender(i)', \A b \in P!Beats : Owes(i, b) => Owes(i, b)'
  PROVE  Steady'
  <1>1. \A j : InQueue(j)' <=> InQueue(j)
    BY DEF InQueue
  <1>2. \A k \in P!Imports \ {i} : \A v \in {"process", "poll", "days", "stream"} :
           job # Jb(v, k) /\ job' # Jb(v, k)
    BY DEF Jb, P!Free
  <1>3. \A k \in P!Imports \ {i} : NotAsked(k)' <=> NotAsked(k)
    BY <1>1, <1>2 DEF NotAsked
  <1>4. \A k \in P!Imports : (Begun(k)' <=> Begun(k)) /\ (Under(k)' <=> Under(k))
    BY DEF Begun, Under
  <1>5. OneJob'
    <2>1. ASSUME NEW k \in P!Imports \ {i} PROVE Placed(k)'
      BY <1>1, <1>2, <1>4 DEF Steady, OneJob, Placed
    <2>2. \A k \in DOMAIN queue : queue[k].what \in {"process", "poll"}
      <3>1. queue \in Seq(Asked)
        BY DEF ImportVarTypes
      <3>2. \A k \in DOMAIN queue : queue[k] \in Asked
        BY <3>1, ElementOfSeq, LenProperties
      <3> QED BY <3>2 DEF Asked
    <2>3. ~ InQueue(job)' /\ job'.what # "stuck"
      BY <2>2 DEF InQueue, Has, Jb, P!Free
    <2> QED BY <2>1, <2>3 DEF Steady, OneJob
  <1>6. Sending'
    <2>1. ASSUME NEW k \in P!Imports \ {i} PROVE HasSender(k)'
      BY <1>2, <1>3, <1>4 DEF Steady, Sending, HasSender
    <2> QED BY <2>1 DEF Sending
  <1>7. AllOwed'
    <2>1. \A k \in P!Imports \ {i} : \A b \in P!Beats : Owes(k, b) => Owes(k, b)'
      BY <1>3, <1>4 DEF Owes
    <2> QED BY <1>4, <2>1, OwedKept DEF Steady, AllOwed
  <1> QED BY <1>5, <1>6, <1>7 DEF Steady
LEMMA SteadyStartDays ==
  ASSUME ImportVarTypes, Steady, ~ P!Fault, P!StartDays
  PROVE  Steady'
  <1>1. PICK i \in P!Imports : i = job.by /\ job = Jb("process", i)
    BY JobIs DEF P!StartDays
  <1> DEFINE D == {P!DayOfBeat(b) : b \in {b \in P!Beats : b >= imp[i].from}}
  <1>2. /\ \A k \in P!Imports \ {i} : imp'[k] = imp[k]
        /\ imp'[i].days = D /\ imp'[i].pc = imp[i].pc
        /\ imp'[i].from = imp[i].from /\ imp'[i].legacy = imp[i].legacy
        /\ imp'[i].open = imp[i].open /\ imp'[i].batch = imp[i].batch
        /\ imp'[i].fetched = imp[i].fetched /\ imp'[i].rest = imp[i].rest
    <2>1. imp[i] \in Records /\ imp \in [P!Imports -> Records]
      BY DEF ImportVarTypes
    <2>2. imp' = [imp EXCEPT ![i].days = D]
      BY <1>1 DEF P!StartDays
    <2> HIDE DEF D
    <2>3. imp' = [imp EXCEPT ![i] = [imp[i] EXCEPT !.days = D]]
      BY <2>1, <2>2
    <2> QED BY <2>1, <2>3 DEF Records
  <1>3. queue' = queue /\ ticking' = ticking /\ imported' = imported /\ job' = Jb("days", i)
    BY <1>1 DEF P!StartDays, Jb
  <1>4. \A b \in P!Beats : b >= imp[i].from => P!DayOfBeat(b) \in D
    OBVIOUS
  <1> HIDE DEF D
  <1>5. /\ ~ InQueue(Jb("process", i)) /\ i \notin ticking /\ ~ InQueue(Jb("poll", i))
        /\ Begun(i) /\ imp[i].legacy /\ imp[i].open
        /\ imp[i].rest = {} /\ imp[i].days = {} /\ imp[i].fetched = {}
    BY <1>1 DEF Steady, OneJob, Sending, Placed, HasSender, NotAsked
  <1>6. /\ Jb("days", i) # Jb("process", i) /\ Jb("days", i) # Jb("poll", i) /\ Jb("days", i) # Jb("stream", i)
    BY DEF Jb
  <1>7. (Begun(i)' <=> Begun(i)) /\ (Under(i)' <=> Under(i)) /\ \A j : InQueue(j)' <=> InQueue(j)
    BY <1>2, <1>3 DEF Begun, Under, InQueue
  <1>8. ~ NotAsked(i)'
    BY <1>3, <1>5, <1>6, <1>7 DEF NotAsked
  <1>9. Placed(i)'
    BY <1>2, <1>3, <1>5, <1>6, <1>7 DEF Placed
  <1>10. HasSender(i)'
    BY <1>2, <1>3, <1>5, <1>6, <1>7, <1>8 DEF HasSender, Begun, Steady, Sending
  <1>11. \A b \in P!Beats : Owes(i, b) => Owes(i, b)'
    BY <1>2, <1>4, <1>5, <1>7 DEF Owes
  <1> QED BY <1>1, <1>2, <1>3, <1>9, <1>10, <1>11, SteadyWorker

LEMMA SteadyFetchDay ==
  ASSUME ImportVarTypes, Steady, ~ P!Fault, P!FetchDay
  PROVE  Steady'
  <1>1. PICK i \in P!Imports : i = job.by /\ job = Jb("days", i)
    BY JobIs DEF P!FetchDay
  <1>2. PICK d \in imp[job.by].days \ imp[job.by].fetched, Rest \in SUBSET P!Beats :
           /\ Rest = {b \in P!Beats : P!DayOfBeat(b) = d /\ b >= imp[job.by].from}
           /\ imp' = [imp EXCEPT ![job.by].fetched = @ \union {d}, ![job.by].rest = @ \union Rest]
    BY DEF P!FetchDay
  <1>3. /\ \A k \in P!Imports \ {i} : imp'[k] = imp[k]
        /\ imp'[i].fetched = imp[i].fetched \union {d} /\ imp'[i].pc = imp[i].pc
        /\ imp'[i].rest = imp[i].rest \union Rest
        /\ d \in imp[i].days \ imp[i].fetched
        /\ imp'[i].from = imp[i].from /\ imp'[i].legacy = imp[i].legacy
        /\ imp'[i].open = imp[i].open /\ imp'[i].batch = imp[i].batch /\ imp'[i].days = imp[i].days
    <2>1. imp[i] \in Records /\ imp \in [P!Imports -> Records]
      BY DEF ImportVarTypes
    <2>2. imp' = [imp EXCEPT ![i] = [imp[i] EXCEPT !.fetched = imp[i].fetched \union {d},
                                                   !.rest = imp[i].rest \union Rest]]
      BY <1>1, <1>2, <2>1
    <2>3. d \in imp[i].days \ imp[i].fetched
      BY <1>1
    <2> QED BY <2>1, <2>2, <2>3 DEF Records
  <1>4. queue' = queue /\ ticking' = ticking /\ imported' = imported /\ job' = job
    BY DEF P!FetchDay
  <1>5. Jb("days", i) # Jb("process", i) /\ Jb("days", i) # Jb("poll", i) /\ Jb("days", i) # Jb("stream", i)
    BY DEF Jb
  <1>6. /\ Placed(i) /\ HasSender(i) /\ Begun(i) /\ ~ NotAsked(i)
        /\ \A b \in P!Beats : b \in Rest <=> P!DayOfBeat(b) = d /\ b >= imp[i].from
        /\ Rest \subseteq P!Beats
    BY <1>1, <1>2, <1>5 DEF Steady, OneJob, Sending, Placed, NotAsked
  <1>7. (Begun(i)' <=> Begun(i)) /\ (Under(i)' <=> Under(i)) /\ \A j : InQueue(j)' <=> InQueue(j)
    BY <1>3, <1>4 DEF Begun, Under, InQueue
  <1>8. NotAsked(i)' <=> NotAsked(i)
    BY <1>4, <1>7 DEF NotAsked
  <1>9. Placed(i)'
    BY <1>3, <1>4, <1>6, <1>7 DEF Placed
  <1>10. HasSender(i)'
    <2>1. \A b \in imp'[i].rest : P!DayOfBeat(b) \in imp'[i].days
      BY <1>1, <1>3, <1>6 DEF HasSender
    <2> QED BY <1>1, <1>3, <1>4, <1>6, <1>7, <1>8, <2>1 DEF HasSender
  <1>11. ASSUME NEW b \in P!Beats, Owes(i, b) PROVE Owes(i, b)'
    <2>1. CASE P!DayOfBeat(b) = d /\ b >= imp[i].from
      BY <1>3, <1>6, <1>7, <1>11, <2>1 DEF Owes
    <2>2. CASE ~ (P!DayOfBeat(b) = d /\ b >= imp[i].from)
      BY <1>3, <1>6, <1>7, <1>11, <2>2 DEF Owes
    <2> QED BY <2>1, <2>2
  <1> QED BY <1>1, <1>3, <1>4, <1>9, <1>10, <1>11, SteadyWorker

LEMMA SteadySendOfDay ==
  ASSUME ImportVarTypes, Steady, P!SendOfDay
  PROVE  Steady'
  <1>1. PICK i \in P!Imports : i = job.by /\ job = Jb("days", i)
    BY JobIs DEF P!SendOfDay
  <1>2. PICK e : imp' = [imp EXCEPT ![i].rest = @ \ {e}, ![i].batch = @ \union {e}]
    BY <1>1 DEF P!SendOfDay
  <1>3. /\ \A k \in P!Imports \ {i} : imp'[k] = imp[k]
        /\ imp'[i].rest = imp[i].rest \ {e} /\ imp'[i].batch = imp[i].batch \union {e}
        /\ imp'[i].pc = imp[i].pc /\ imp'[i].fetched = imp[i].fetched
        /\ imp'[i].from = imp[i].from /\ imp'[i].legacy = imp[i].legacy
        /\ imp'[i].open = imp[i].open /\ imp'[i].days = imp[i].days
    <2>1. imp[i] \in Records /\ imp \in [P!Imports -> Records]
      BY DEF ImportVarTypes
    <2>2. imp' = [imp EXCEPT ![i] = [imp[i] EXCEPT !.rest = imp[i].rest \ {e},
                                                   !.batch = imp[i].batch \union {e}]]
      BY <1>2, <2>1
    <2> QED BY <2>1, <2>2 DEF Records
  <1>4. queue' = queue /\ ticking' = ticking /\ imported' = imported /\ job' = job
    BY DEF P!SendOfDay
  <1>5. Jb("days", i) # Jb("process", i) /\ Jb("days", i) # Jb("poll", i) /\ Jb("days", i) # Jb("stream", i)
    BY DEF Jb
  <1>6. /\ Placed(i) /\ HasSender(i) /\ Begun(i) /\ ~ NotAsked(i)
    BY <1>1, <1>5 DEF Steady, OneJob, Sending, Placed, NotAsked
  <1>7. (Begun(i)' <=> Begun(i)) /\ (Under(i)' <=> Under(i)) /\ \A j : InQueue(j)' <=> InQueue(j)
    BY <1>3, <1>4 DEF Begun, Under, InQueue
  <1>8. NotAsked(i)' <=> NotAsked(i)
    BY <1>4, <1>7 DEF NotAsked
  <1>9. Placed(i)'
    BY <1>3, <1>4, <1>6, <1>7 DEF Placed
  <1>10. HasSender(i)'
    BY <1>1, <1>3, <1>4, <1>6, <1>7, <1>8 DEF HasSender
  <1>11. \A b \in P!Beats : Owes(i, b) => Owes(i, b)'
    BY <1>3, <1>7, <1>8 DEF Owes
  <1> QED BY <1>1, <1>3, <1>4, <1>9, <1>10, <1>11, SteadyWorker

LEMMA SteadyDayDone ==
  ASSUME ImportVarTypes, Steady, P!DayDone
  PROVE  Steady'
  <1>1. PICK i \in P!Imports : i = job.by /\ job = Jb("days", i)
    BY JobIs DEF P!DayDone
  <1>2. PICK d \in imp[i].fetched :
           /\ d \in imp[i].days
           /\ \A b \in imp[i].rest : P!DayOfBeat(b) # d
           /\ imp' = [imp EXCEPT ![i].days = @ \ {d}, ![i].open = imp[i].days # {d}]
           /\ job' = IF imp[i].days = {d} THEN P!Free ELSE job
    BY <1>1 DEF P!DayDone
  <1> DEFINE more == imp[i].days # {d}
  <1>3. PICK open \in BOOLEAN :
        /\ \A k \in P!Imports \ {i} : imp'[k] = imp[k]
        /\ imp'[i].days = imp[i].days \ {d} /\ imp'[i].open = open
        /\ imp'[i].rest = imp[i].rest /\ imp'[i].batch = imp[i].batch
        /\ imp'[i].pc = imp[i].pc /\ imp'[i].fetched = imp[i].fetched
        /\ imp'[i].from = imp[i].from /\ imp'[i].legacy = imp[i].legacy
        /\ open => job' = job
        /\ ~ open => job' = P!Free /\ imp'[i].days = {}
    <2>1. imp[i] \in Records /\ imp \in [P!Imports -> Records]
      BY DEF ImportVarTypes
    <2>2. imp' = [imp EXCEPT ![i] = [imp[i] EXCEPT !.days = imp[i].days \ {d}, !.open = more]]
      BY <1>2, <2>1
    <2>3. more \in BOOLEAN /\ (more => job' = job) /\ (~ more => job' = P!Free /\ imp[i].days \ {d} = {})
      BY <1>2
    <2> HIDE DEF more
    <2>4. imp'[i] = [imp[i] EXCEPT !.days = imp[i].days \ {d}, !.open = more]
      BY <2>1, <2>2
    <2>5. \A k \in P!Imports \ {i} : imp'[k] = imp[k]
      BY <2>1, <2>2
    <2> QED BY <2>1, <2>3, <2>4, <2>5 DEF Records
  <1>4. queue' = queue /\ ticking' = ticking /\ imported' = imported
    BY DEF P!DayDone
  <1>5. /\ Jb("days", i) # Jb("process", i) /\ Jb("days", i) # Jb("poll", i) /\ Jb("days", i) # Jb("stream", i)
        /\ \A w : Jb(w, i) # P!Free \/ i = 0
    BY DEF Jb, P!Free
  <1>6. /\ Placed(i) /\ HasSender(i) /\ Begun(i) /\ ~ NotAsked(i) /\ i # 0
    BY <1>1, <1>5 DEF Steady, OneJob, Sending, Placed, NotAsked, P!Imports
  <1>7. (Begun(i)' <=> Begun(i)) /\ (Under(i)' <=> Under(i)) /\ \A j : InQueue(j)' <=> InQueue(j)
    BY <1>3, <1>4 DEF Begun, Under, InQueue
  <1>8. job' = job \/ job' = P!Free
    BY <1>3
  <1>9. ~ NotAsked(i)'
    BY <1>1, <1>4, <1>5, <1>6, <1>7, <1>8 DEF NotAsked
  <1>10. Placed(i)'
    <2>1. CASE ~ open
      <3>1. job' = P!Free /\ ~ InQueue(Jb("process", i))' /\ ~ InQueue(Jb("poll", i))' /\ i \notin ticking'
        BY <1>1, <1>3, <1>4, <1>6, <1>7, <2>1 DEF Placed
      <3> QED BY <1>5, <1>6, <3>1 DEF Placed
    <2>2. CASE open
      <3>1. job' = job /\ imp'[i].open /\ imp[i].open
        BY <1>1, <1>3, <1>6, <2>2 DEF Placed
      <3> QED BY <1>1, <1>3, <1>4, <1>6, <1>7, <3>1 DEF Placed
    <2> QED BY <2>1, <2>2
  <1>11. HasSender(i)'
    <2>1. \A b \in imp'[i].rest : P!DayOfBeat(b) \in imp'[i].days
      BY <1>1, <1>2, <1>3, <1>6 DEF HasSender
    <2>2. CASE ~ open
      <3>1. imp'[i].days = {} /\ imp'[i].rest = {}
        BY <1>3, <2>1, <2>2
      <3>2. imp'[i].pc = "done" => ~ imp'[i].open
        BY <1>3, <2>2
      <3> QED BY <1>6, <1>7, <1>9, <3>1, <3>2, <2>1 DEF HasSender
    <2>3. CASE open
      <3>1. imp[i].pc # "done"
        BY <1>1, <1>6 DEF HasSender, Placed
      <3> QED BY <1>1, <1>3, <1>6, <1>7, <1>8, <1>9, <2>1, <2>3, <3>1 DEF HasSender
    <2> QED BY <2>2, <2>3
  <1>12. \A b \in P!Beats : Owes(i, b) => Owes(i, b)'
    BY <1>2, <1>3, <1>6, <1>7 DEF Owes
  <1> QED BY <1>1, <1>3, <1>4, <1>8, <1>10, <1>11, <1>12, SteadyWorker
LEMMA SteadyPoll ==
  ASSUME ImportVarTypes, Steady, ~ P!Fault, P!Poll
  PROVE  Steady'
  <1>1. PICK i \in P!Imports : i = job.by /\ job = Jb("poll", i)
    BY JobIs DEF P!Poll
  <1>2. /\ Jb("poll", i) # Jb("process", i) /\ Jb("poll", i) # Jb("days", i) /\ Jb("poll", i) # Jb("stream", i)
        /\ Jb("stream", i) # Jb("process", i) /\ Jb("stream", i) # Jb("days", i)
        /\ \A w : Jb(w, i) # P!Free
    BY DEF Jb, P!Free, P!Imports
  <1>3. /\ Placed(i) /\ HasSender(i) /\ Begun(i) /\ i \in ticking /\ imp[i].open
        /\ ~ InQueue(Jb("poll", i)) /\ ~ InQueue(Jb("process", i)) /\ ~ imp[i].legacy
        /\ imp[i].rest = {} /\ imp[i].days = {} /\ imp[i].fetched = {}
    BY <1>1 DEF Steady, OneJob, Sending, Placed, HasSender, NotAsked
  <1>4. queue' = queue /\ imported' = imported /\ \A j : InQueue(j)' <=> InQueue(j)
    BY DEF P!Poll, InQueue
  <1>5. CASE ~ completed
    <2>1. imp' = imp /\ job' = P!Free /\ ticking' = ticking
      BY <1>1, <1>3, <1>5 DEF P!Poll
    <2>2. Placed(i)' /\ HasSender(i)' /\ NotAsked(i)'
      BY <1>2, <1>3, <1>4, <2>1 DEF Placed, HasSender, Begun, NotAsked
    <2>3. \A b \in P!Beats : Owes(i, b) => Owes(i, b)'
      BY <2>1, <2>2 DEF Owes, Under
    <2> QED BY <1>1, <1>4, <2>1, <2>2, <2>3, SteadyWorker
  <1>6. CASE completed
    <2>1. PICK Rest : /\ Rest = {b \in P!Beats : b >= imp[job.by].from}
                   /\ imp' = [imp EXCEPT ![job.by].rest = Rest]
                   /\ job' = [job EXCEPT !.what = "stream"] /\ ticking' = ticking \ {job.by}
      BY <1>1, <1>3, <1>6 DEF P!Poll
    <2>2. /\ job' = Jb("stream", i) /\ ticking' = ticking \ {i}
          /\ \A b \in P!Beats : b >= imp[i].from => b \in Rest
      BY <1>1, <2>1 DEF Jb
    <2>3. /\ \A k \in P!Imports \ {i} : imp'[k] = imp[k]
          /\ imp'[i].rest = Rest /\ imp'[i].batch = imp[i].batch
          /\ imp'[i].pc = imp[i].pc /\ imp'[i].fetched = imp[i].fetched
          /\ imp'[i].from = imp[i].from /\ imp'[i].legacy = imp[i].legacy
          /\ imp'[i].open = imp[i].open /\ imp'[i].days = imp[i].days
      <3>1. imp[i] \in Records /\ imp \in [P!Imports -> Records]
        BY DEF ImportVarTypes
      <3>2. imp' = [imp EXCEPT ![i] = [imp[i] EXCEPT !.rest = Rest]]
        BY <1>1, <2>1, <3>1
      <3> QED BY <3>1, <3>2 DEF Records
    <2>4. (Begun(i)' <=> Begun(i)) /\ (Under(i)' <=> Under(i)) /\ ~ NotAsked(i)'
      BY <1>2, <1>3, <1>4, <2>2, <2>3 DEF Begun, Under, NotAsked
    <2>5. Placed(i)'
      BY <1>2, <1>3, <1>4, <2>2, <2>3, <2>4 DEF Placed
    <2>6. HasSender(i)'
      BY <1>2, <1>3, <2>2, <2>3, <2>4 DEF HasSender
    <2>7. \A b \in P!Beats : Owes(i, b) => Owes(i, b)'
      BY <1>3, <2>2, <2>3, <2>4 DEF Owes
    <2> QED BY <1>1, <1>4, <2>2, <2>3, <2>5, <2>6, <2>7, SteadyWorker
  <1> QED BY <1>5, <1>6

LEMMA SteadyStream ==
  ASSUME ImportVarTypes, Steady, P!Stream
  PROVE  Steady'
  <1>1. PICK i \in P!Imports : i = job.by /\ job = Jb("stream", i)
    BY JobIs DEF P!Stream
  <1>2. /\ Jb("stream", i) # Jb("process", i) /\ Jb("stream", i) # Jb("days", i)
               /\ Jb("stream", i) # Jb("poll", i)
        /\ \A w : Jb(w, i) # P!Free
    BY DEF Jb, P!Free, P!Imports
  <1>3. /\ Placed(i) /\ HasSender(i) /\ Begun(i) /\ i \notin ticking /\ imp[i].open /\ ~ imp[i].legacy
        /\ ~ InQueue(Jb("poll", i)) /\ ~ InQueue(Jb("process", i)) /\ imp[i].days = {} /\ ~ NotAsked(i)
    BY <1>1, <1>2 DEF Steady, OneJob, Sending, Placed, HasSender, NotAsked
  <1>4. queue' = queue /\ imported' = imported /\ ticking' = ticking /\ \A j : InQueue(j)' <=> InQueue(j)
    BY DEF P!Stream, InQueue
  <1>5. imp[i] \in Records /\ imp \in [P!Imports -> Records]
    BY DEF ImportVarTypes
  <1>6. CASE imp[i].rest # {}
    <2>1. PICK e : /\ imp' = [imp EXCEPT ![job.by].rest = @ \ {e}, ![job.by].batch = @ \union {e}]
                   /\ job' = job
      BY <1>1, <1>6 DEF P!Stream
    <2>2. imp' = [imp EXCEPT ![i] = [imp[i] EXCEPT !.rest = imp[i].rest \ {e},
              !.batch = imp[i].batch \union {e}]]
      BY <1>1, <1>5, <2>1
    <2>3. /\ \A k \in P!Imports \ {i} : imp'[k] = imp[k]
          /\ imp'[i].rest = imp[i].rest \ {e} /\ imp'[i].batch = imp[i].batch \union {e}
          /\ imp'[i].pc = imp[i].pc /\ imp'[i].fetched = imp[i].fetched
          /\ imp'[i].from = imp[i].from /\ imp'[i].legacy = imp[i].legacy
          /\ imp'[i].open = imp[i].open /\ imp'[i].days = imp[i].days
      BY <1>5, <2>2 DEF Records
    <2>4. (Begun(i)' <=> Begun(i)) /\ (Under(i)' <=> Under(i)) /\ ~ NotAsked(i)'
      BY <1>1, <1>2, <1>3, <1>4, <2>1, <2>3 DEF Begun, Under, NotAsked
    <2>5. Placed(i)'
      BY <1>1, <1>2, <1>3, <1>4, <2>1, <2>3, <2>4 DEF Placed
    <2>6. HasSender(i)'
      BY <1>1, <1>2, <1>3, <2>1, <2>3, <2>4 DEF HasSender
    <2>7. \A b \in P!Beats : Owes(i, b) => Owes(i, b)'
      BY <1>3, <2>3, <2>4 DEF Owes
    <2> QED BY <1>1, <1>4, <2>1, <2>3, <2>5, <2>6, <2>7, SteadyWorker
  <1>7. CASE imp[i].rest = {}
    <2>1. imp' = [imp EXCEPT ![i].open = FALSE] /\ job' = P!Free
      BY <1>1, <1>7 DEF P!Stream
    <2>2. /\ \A k \in P!Imports \ {i} : imp'[k] = imp[k]
          /\ imp'[i].rest = imp[i].rest /\ imp'[i].batch = imp[i].batch
          /\ imp'[i].pc = imp[i].pc /\ imp'[i].fetched = imp[i].fetched
          /\ imp'[i].from = imp[i].from /\ imp'[i].legacy = imp[i].legacy
          /\ imp'[i].open = FALSE /\ imp'[i].days = imp[i].days
      BY <1>5, <2>1 DEF Records
    <2>3. (Begun(i)' <=> Begun(i)) /\ (Under(i)' <=> Under(i)) /\ ~ NotAsked(i)'
      BY <1>2, <1>3, <1>4, <2>1, <2>2 DEF Begun, Under, NotAsked
    <2>4. Placed(i)'
      BY <1>2, <1>3, <1>4, <2>1, <2>2, <2>3 DEF Placed
    <2>5. HasSender(i)'
      BY <1>2, <1>3, <1>7, <2>1, <2>2, <2>3 DEF HasSender
    <2>6. \A b \in P!Beats : Owes(i, b) => Owes(i, b)'
      BY <1>3, <2>2, <2>3 DEF Owes
    <2> QED BY <1>1, <1>4, <2>1, <2>2, <2>4, <2>5, <2>6, SteadyWorker
  <1> QED BY <1>6, <1>7

\* A batch takes what the channel brings until it is full.
LEMMA BatchesFitKept ==
  ASSUME ImportSizes, ImportVarTypes, BatchesFit, [P!Next]_(P!vars) PROVE BatchesFit'
  <1> DEFINE Grown(k) == \E e : /\ Cardinality(imp[k].batch) < BatchSize
                                /\ imp'[k].batch = imp[k].batch \union {e}
             Fits(k)  == imp'[k].batch = imp[k].batch \/ imp'[k].batch = {} \/ Grown(k)
  <1>1. ASSUME NEW k \in P!Imports, Fits(k) PROVE Cardinality(imp'[k].batch) <= BatchSize
    <2>1. IsFiniteSet(imp[k].batch)
      <3>1. imp[k] \in Records
        BY DEF ImportVarTypes
      <3>2. imp[k].batch \subseteq 1 .. LastBeat
        BY <3>1 DEF Records, P!Beats
      <3>3. IsFiniteSet(1 .. LastBeat)
        BY FS_Interval DEF ImportSizes
      <3> QED BY <3>2, <3>3, FS_Subset
    <2>2. Cardinality(imp[k].batch) \in Nat /\ Cardinality(imp[k].batch) <= BatchSize
      BY <2>1, FS_CardinalityType DEF BatchesFit
    <2>3. ASSUME NEW B, B = imp[k].batch, NEW e
          PROVE  /\ Cardinality(B \union {e}) \in Nat
                 /\ Cardinality(B \union {e}) <= Cardinality(B) + 1
      <3>1. IsFiniteSet(B \union {e}) /\ (Cardinality(B \union {e}) = Cardinality(B)
                                       \/ Cardinality(B \union {e}) = Cardinality(B) + 1)
        BY <2>1, <2>3, FS_AddElement
      <3>2. Cardinality(B \union {e}) \in Nat /\ Cardinality(B) \in Nat
        BY <3>1, <2>1, <2>3, FS_CardinalityType
      <3> QED BY <3>1, <3>2
    <2>4. CASE imp'[k].batch = {}
      BY <2>4, FS_EmptySet DEF ImportSizes
    <2>5. CASE Grown(k)
      <3>1. PICK e : /\ Cardinality(imp[k].batch) < BatchSize
                     /\ imp'[k].batch = imp[k].batch \union {e}
        BY <2>5
      <3>2. /\ Cardinality(imp[k].batch \union {e}) \in Nat
            /\ Cardinality(imp[k].batch \union {e}) <= Cardinality(imp[k].batch) + 1
        BY <2>3
      <3> QED BY <2>2, <3>1, <3>2 DEF ImportSizes
    <2> QED BY <1>1, <2>2, <2>4, <2>5
  <1>2. \A k \in P!Imports : Fits(k)
    <2>1. imp \in [P!Imports -> Records] /\ \A k \in P!Imports : imp[k] \in Records
      BY DEF ImportVarTypes
    <2> DEFINE With(i, r) == imp' = [imp EXCEPT ![i] = r]
    <2>2. ASSUME NEW i \in P!Imports, NEW r, With(i, r),
                 \/ r.batch = imp[i].batch \/ r.batch = {}
                 \/ \E e : Cardinality(imp[i].batch) < BatchSize /\ r.batch = imp[i].batch \union {e}
          PROVE  \A k \in P!Imports : Fits(k)
      <3>1. imp'[i] = r /\ \A k \in P!Imports \ {i} : imp'[k] = imp[k]
        BY <2>1, <2>2
      <3>2. Fits(i)
        BY <2>2, <3>1
      <3> QED BY <3>1, <3>2
    <2>3. CASE \E i \in P!Imports : P!Request(i)
      <3>1. PICK i \in P!Imports : P!Request(i)
        BY <2>3
      <3>2. PICK pc, legacy : imp' = [imp EXCEPT ![i].pc = pc, ![i].legacy = legacy]
        BY <3>1 DEF P!Request
      <3>3. With(i, [imp[i] EXCEPT !.pc = pc, !.legacy = legacy])
        BY <2>1, <3>2
      <3> HIDE DEF With
      <3> QED BY <2>1, <2>2, <3>3 DEF Records
    <2>4. CASE \E i \in P!Imports : P!Begin(i)
      <3>1. PICK i \in P!Imports : P!Begin(i)
        BY <2>4
      <3>2. PICK n : n = P!Latest
        OBVIOUS
      <3>3. \/ imp' = [imp EXCEPT ![i].pc = "mark", ![i].from = n]
            \/ imp' = [imp EXCEPT ![i].pc = "failed"]
        BY <3>1, <3>2 DEF P!Begin
      <3>4. \/ With(i, [imp[i] EXCEPT !.pc = "mark", !.from = n])
            \/ With(i, [imp[i] EXCEPT !.pc = "failed"])
        BY <2>1, <3>3
      <3> HIDE DEF With
      <3> QED BY <2>1, <2>2, <3>4 DEF Records
    <2>5. CASE \E i \in P!Imports : P!MarkSuccess(i)
      <3>1. PICK i \in P!Imports : With(i, [imp[i] EXCEPT !.pc = "receive"])
        BY <2>1, <2>5 DEF P!MarkSuccess
      <3> HIDE DEF With
      <3> QED BY <2>1, <2>2, <3>1 DEF Records
    <2>6. CASE \E i \in P!Imports : P!Insert(i)
      <3>1. PICK i \in P!Imports : P!Insert(i)
        BY <2>6
      <3>2. PICK pc \in {"receive", "done"} : imp' = [imp EXCEPT ![i].batch = {}, ![i].pc = pc]
        BY <3>1, SameCardinality DEF P!Insert
      <3>3. With(i, [imp[i] EXCEPT !.batch = {}, !.pc = pc])
        BY <2>1, <3>2
      <3> HIDE DEF With
      <3> QED BY <2>1, <2>2, <3>3 DEF Records
    <2>7. CASE \E i \in P!Imports : i = job.by /\ (P!StartDays \/ P!FetchDay \/ P!DayDone \/ P!Poll)
      <3>1. PICK i \in P!Imports : i = job.by /\ (P!StartDays \/ P!FetchDay \/ P!DayDone \/ P!Poll)
        BY <2>7
      <3>2. CASE P!StartDays \/ P!Poll
        BY <2>1, <3>1, <3>2 DEF P!StartDays, P!Poll, Records
      <3>3. CASE P!FetchDay
        <4>1. PICK d, Rest : \/ imp' = [imp EXCEPT ![job.by].fetched = @ \union {d},
                                    ![job.by].rest = @ \union Rest]
                          \/ imp' = [imp EXCEPT ![job.by].fetched = @ \union {d}]
          BY <3>3 DEF P!FetchDay
        <4>2. \/ With(i, [imp[i] EXCEPT !.fetched = imp[i].fetched \union {d},
                     !.rest = imp[i].rest \union Rest])
              \/ With(i, [imp[i] EXCEPT !.fetched = imp[i].fetched \union {d}])
          BY <2>1, <3>1, <4>1
        <4> HIDE DEF With
        <4> QED BY <2>1, <2>2, <4>2 DEF Records
      <3>4. CASE P!DayDone
        <4>1. PICK d : imp' = [imp EXCEPT ![i].days = @ \ {d}, ![i].open = imp[i].days # {d}]
          BY <3>1, <3>4 DEF P!DayDone
        <4> DEFINE D == imp[i].days \ {d}
                   o == imp[i].days # {d}
        <4>2. With(i, [imp[i] EXCEPT !.days = D, !.open = o])
          BY <2>1, <4>1
        <4> HIDE DEF D, o
        <4> HIDE DEF With
        <4> QED BY <2>1, <2>2, <4>2 DEF Records
      <3> QED BY <3>1, <3>2, <3>3, <3>4
    <2>8. CASE \E i \in P!Imports : i = job.by /\ (P!SendOfDay \/ P!Stream)
      <3>1. PICK i \in P!Imports : i = job.by /\ (P!SendOfDay \/ P!Stream)
        BY <2>8
      <3>2. \/ imp' = [imp EXCEPT ![i].open = FALSE]
            \/ \E e : /\ imp' = [imp EXCEPT ![i].rest = @ \ {e}, ![i].batch = @ \union {e}]
                      /\ Cardinality(imp[i].batch) < BatchSize
        <4>1. CASE P!SendOfDay
          BY <3>1, <4>1, SameCardinality DEF P!SendOfDay, P!CanReceive
        <4>2. CASE P!Stream
          BY <3>1, <4>2, SameCardinality DEF P!Stream, P!CanReceive
        <4> QED BY <3>1, <4>1, <4>2
      <3>3. CASE imp' = [imp EXCEPT ![i].open = FALSE]
        <4>1. With(i, [imp[i] EXCEPT !.open = FALSE])
          BY <2>1, <3>3
        <4> HIDE DEF With
        <4> QED BY <2>1, <2>2, <4>1 DEF Records
      <3>4. CASE imp' # [imp EXCEPT ![i].open = FALSE]
        <4>1. PICK e : /\ imp' = [imp EXCEPT ![i].rest = @ \ {e}, ![i].batch = @ \union {e}]
                       /\ Cardinality(imp[i].batch) < BatchSize
          BY <3>2, <3>4
        <4>2. With(i, [imp[i] EXCEPT !.rest = imp[i].rest \ {e}, !.batch = imp[i].batch \union {e}])
          BY <2>1, <4>1
        <4> HIDE DEF With
        <4>3. [imp[i] EXCEPT !.rest = imp[i].rest \ {e}, !.batch = imp[i].batch \union {e}].batch
                 = imp[i].batch \union {e}
          BY <2>1 DEF Records
        <4> QED BY <2>2, <4>1, <4>2, <4>3
      <3> QED BY <3>3, <3>4
    <2>9. CASE P!PutLastImport \/ P!KeysExpire \/ P!Tick \/ P!Complete \/ P!TakeJob \/ UNCHANGED (P!vars)
      BY <2>9 DEF P!PutLastImport, P!KeysExpire, P!Tick, P!Complete, P!TakeJob, P!vars
    <2>10. P!StartDays \/ P!FetchDay \/ P!SendOfDay \/ P!DayDone \/ P!Poll \/ P!Stream => job.by \in P!Imports
      <3>1. P!StartDays \/ P!FetchDay \/ P!SendOfDay \/ P!DayDone \/ P!Poll \/ P!Stream
               => job.what \in {"process", "poll", "days", "stream"}
        BY DEF P!StartDays, P!FetchDay, P!SendOfDay, P!DayDone, P!Poll, P!Stream
      <3> QED BY <3>1, JobIs
    <2> QED BY <2>3, <2>4, <2>5, <2>6, <2>7, <2>8, <2>9, <2>10 DEF P!Next, P!Goroutine, P!Worker
  <1> QED BY <1>1, <1>2 DEF BatchesFit

LEMMA ImportInvKept == ASSUME ImportSizes, ImportInv, [P!Next]_(P!vars) PROVE ImportInv'
  <1>1. ImportVarTypes /\ ImportVarTypes'
    BY ImportTypesKept DEF ImportInv
  <1>2. ASSUME importFaults' = 0 PROVE Steady'
    <2>1. ~ P!Fault
      BY <1>1, <1>2 DEF P!Fault, ImportVarTypes
    <2>2. importFaults' = importFaults \/ P!Fault
      BY SameCardinality DEF P!Next, P!Goroutine, P!Worker, P!Request, P!PutLastImport, P!KeysExpire, P!Tick,
           P!Complete, P!Begin, P!MarkSuccess, P!Insert,
             P!TakeJob, P!StartDays, P!FetchDay, P!SendOfDay, P!DayDone, P!Poll, P!Stream, P!vars
    <2>3. Steady
      BY <1>2, <2>1, <2>2 DEF ImportInv, Steady
    <2> QED BY <1>1, <2>1, <2>3, SteadyRequest, SteadyOutside, SteadyBegin, SteadyMark, SteadyInsert,
                SteadyTake,
               SteadyTick, SteadyStartDays, SteadyFetchDay, SteadySendOfDay, SteadyDayDone, SteadyPoll,
               SteadyStream DEF P!Next, P!Goroutine, P!Worker
  <1>3. BatchesFit'
    BY <1>1, BatchesFitKept DEF ImportInv
  <1> QED BY <1>1, <1>2, <1>3 DEF ImportInv, Steady

LEMMA ImportInvInit == ASSUME ImportSizes, P!Init PROVE ImportInv
  <1>1. P!Unasked \in Records
    BY DEF P!Unasked, Records
  <1>2. ImportVarTypes
    BY <1>1 DEF P!Init, ImportVarTypes
  <1>3. /\ \A i \in P!Imports : ~ Begun(i) /\ imp[i] = P!Unasked /\ ~ NotAsked(i) /\ ~ InQueue(Jb("poll", i))
        /\ \A i, w : ~ InQueue(Jb(w, i)) /\ job # Jb("days", i) /\ job # Jb("process", i)
                      /\ job # Jb("poll", i) /\ job # Jb("stream", i)
        /\ ~ InQueue(job) /\ Once(queue) /\ job.what # "stuck"
    BY DEF P!Init, Begun, P!Unasked, NotAsked, InQueue, Has, Once, Jb, P!Free
  <1>4. OneJob
    BY <1>3 DEF OneJob, Placed, P!Init
  <1>5. Sending
    BY <1>3 DEF Sending, HasSender, P!Unasked, Begun
  <1>6. AllOwed
    BY <1>3 DEF AllOwed, P!Init
  <1>7. BatchesFit
    <2>1. \A i \in P!Imports : imp[i].batch = {}
      BY <1>3 DEF P!Unasked
    <2>2. Cardinality({}) = 0 /\ 0 <= BatchSize
      BY FS_EmptySet DEF ImportSizes
    <2> QED BY <2>1, <2>2 DEF BatchesFit
  <1> QED BY <1>2, <1>4, <1>5, <1>6, <1>7 DEF ImportInv

LEMMA ImportInvariance == ASSUME ImportSizes PROVE P!Spec => []ImportInv
  BY ImportInvInit, ImportInvKept, PTL DEF P!Spec

\* Only heartbeats that WakaTime has come into the table, and a batch never has more than
\* import_batch_size, whatever fails.
THEOREM ImportTyped == ASSUME ImportSizes PROVE P!Spec => []P!TypeOK
  <1>1. ImportInv => P!TypeOK
    <2> SUFFICES ASSUME ImportInv PROVE P!TypeOK
      OBVIOUS
    <2>1. \A i \in P!Imports : imp[i] \in Records
      BY DEF ImportInv, ImportVarTypes
    <2>2. \A i \in P!Imports : imp[i].batch \subseteq P!Beats
              /\ imp[i].fetched \subseteq {P!DayOfBeat(b) : b \in P!Beats}
      BY <2>1 DEF Records, DaysOfBeats
    <2>3. imported \subseteq P!Beats /\ job.what \in {"idle", "process", "poll", "days", "stream", "stuck"}
      BY DEF ImportInv, ImportVarTypes, P!Free
    <2> QED BY <2>2, <2>3, SameCardinality DEF ImportInv, BatchesFit, P!TypeOK
  <1> QED BY <1>1, ImportInvariance, PTL

\* When nothing fails and every import has ended, one of them having been done, all of
\* WakaTime's heartbeats are in the table: none was in a batch, with a job or in the
\* queue of one import while another had passed it by.
THEOREM ImportsWhole == ASSUME ImportSizes PROVE P!Spec => []AllImported
  <1>1. ImportInv => AllImported
    <2> SUFFICES ASSUME ImportInv, importFaults = 0,
                            \A i \in P!Imports : imp[i].pc \in {"idle", "refused", "done"},
                        NEW i \in P!Imports, P!At(i, "done")
                 PROVE  imported = P!Beats
      BY DEF AllImported
    <2>1. \A k \in P!Imports : ~ Under(k)
      BY DEF Under
    <2>2. Begun(i)
      BY DEF Begun, P!At
    <2>3. \A b \in P!Beats : b \in imported
      BY <2>1, <2>2 DEF ImportInv, AllOwed, Owes
    <2> QED BY <2>3 DEF ImportInv, ImportVarTypes
  <1> QED BY <1>1, ImportInvariance, PTL

----------------------------------------------------------------------------
(***************************************************************************)
(* Relaying: types, and what becomes of each hash when no request is lost  *)
(* or refused and no server restarts.  What a server knows it has handled  *)
(* or is about to, and what it has handled the server behind it has        *)
(* handled too, or it is on its way there or still to be sent.             *)
(***************************************************************************)
\* What is assumed of the constants: servers relay to servers, outside, or nowhere.
RelaySizes ==
    /\ IsFiniteSet(Hashes) /\ MaxPosts \in Nat /\ MaxLoad \in Nat
    /\ Nowhere \notin Servers /\ Routes \subseteq [Servers -> Servers \union {Outside, Nowhere}]

\* The states of a post and of a refused request.
PostRecords == [pc : {"idle", "arrived", "look", "set", "send", "gone"}, at : Servers \union {Nowhere},
                origin : {R!NoOrigin} \union Servers \X Nat, body : SUBSET Hashes, todo : SUBSET Hashes,
                new : SUBSET Hashes, passed : SUBSET Servers]
Refusals    == [by : R!Posts, at : Servers, pc : {"look", "zero", "count"}]

RelayVarTypes ==
    /\ behind \in [Servers -> Servers \union {Outside, Nowhere}]
    /\ run \in [Servers -> Nat]
    /\ known \in [Servers -> SUBSET Hashes] /\ handed \in [Servers -> SUBSET Hashes]
    /\ failures \in [Servers -> Int]
    /\ relayed \in [R!Posts -> PostRecords]
    /\ refused \in SUBSET Refusals
    /\ sent \in Nat /\ lostRequests \in Nat /\ sent + lostRequests <= MaxLoad

\* What is filtered of a post is of it, and who filters it is a server.
PartsOfPost == \A p \in R!Posts :
    /\ relayed[p].new \subseteq relayed[p].body /\ relayed[p].todo \subseteq relayed[p].body
    /\ relayed[p].pc \in {"arrived", "look", "set", "send"} => relayed[p].at \in Servers

\* A failure is counted once at most, and only if it occurred.
FailuresCounted ==
    /\ IsFiniteSet(refused)
    /\ Cardinality(refused) <= lostRequests
    /\ \A s \in Servers : failures[s] >= -1 /\ failures[s] + Cardinality(refused) <= lostRequests

RelayTypes == RelayVarTypes /\ PartsOfPost /\ FailuresCounted

\* A server that filters a post has new hashes of it to handle.
New(s, h) == \E p \in R!Posts : relayed[p].at = s /\ relayed[p].pc \in {"look", "set"} /\ h \in relayed[p].new

\* A server has handled a hash, or will.
Comes(s, h) ==
    \/ h \in handed[s]
    \/ \E p \in R!Posts : /\ relayed[p].at = s /\ relayed[p].pc \in {"arrived", "look", "set"}
                        /\ h \in relayed[p].todo \union relayed[p].new

\* A server has a hash to send to the one behind it.
ToSend(s, h) ==
    \E p \in R!Posts : relayed[p].at = s /\ relayed[p].pc \in {"look", "set", "send"} /\ h \in relayed[p].new

\* What a server knows it handles; of what it has dropped from a post, too; what it sends on
\* it has handled; and what it has handled comes to the server behind it, or is still to go.
NothingFailed == refused = {} /\ \A s \in Servers : run[s] = 0
KnownComes    == \A s \in Servers : \A h \in known[s] : h \in handed[s] \/ New(s, h)
DroppedComes  ==
    \A p \in R!Posts : relayed[p].pc \in {"arrived", "look", "set"} =>
        \A h \in relayed[p].body : \/ h \in relayed[p].todo \union relayed[p].new \/ h \in handed[relayed[p].at]
                                \/ New(relayed[p].at, h)
SentHandled   ==
    \A p \in R!Posts : /\ relayed[p].pc = "send" => relayed[p].new \subseteq handed[relayed[p].at]
                     /\ \A s \in Servers : relayed[p].pc # "gone" /\ relayed[p].origin = R!Self(s) =>
                            relayed[p].body \subseteq handed[s]
HandledGoesOn ==
    \A s \in Servers : behind[s] \in Servers =>
        \A h \in handed[s] : Comes(behind[s], h) \/ ToSend(s, h)

OnItsWay == NothingFailed /\ KnownComes /\ DroppedComes /\ SentHandled /\ HandledGoesOn

RelayInv == RelayTypes /\ (lostRequests = 0 => OnItsWay)

\* When nothing failed and all posts have ended, what a server has handled the one behind
\* it has, too.
AllHanded ==
    lostRequests = 0 /\ (\A p \in R!Posts : relayed[p].pc \in {"idle", "gone"})
       => \A s \in Servers : behind[s] \in Servers => handed[s] \subseteq handed[behind[s]]

Filled == {"arrived", "look", "set", "send"}

LEMMA CardinalityHere == ASSUME NEW S PROVE R!Cardinality(S) = Cardinality(S)
  BY DEF R!Cardinality, Cardinality

\* What a step does to the one post it is about.
LEMMA ClientFacts ==
  ASSUME RelaySizes, RelayTypes, NEW p \in R!Posts, R!Client(p)
  PROVE  \E s \in Servers, B \in SUBSET Hashes :
            /\ relayed[p].pc = "idle"
            /\ relayed' = [relayed EXCEPT ![p] = R!Arrived(s, R!NoOrigin, B, {})]
            /\ R!Arrived(s, R!NoOrigin, B, {}) \in PostRecords
            /\ sent' \in Nat /\ sent' + lostRequests <= MaxLoad
            /\ UNCHANGED <<behind, run, known, failures, handed, refused, lostRequests>>
  <1>1. PICK s \in Servers, B \in (SUBSET Hashes) \ {{}} :
           /\ sent' = sent + Cardinality(B) /\ sent' + lostRequests <= MaxLoad
           /\ relayed' = [relayed EXCEPT ![p] = R!Arrived(s, R!NoOrigin, B, {})]
    BY CardinalityHere DEF R!Client
  <1>2. Cardinality(B) \in Nat
    BY <1>1, FS_Subset, FS_CardinalityType DEF RelaySizes
  <1>3. R!Arrived(s, R!NoOrigin, B, {}) \in PostRecords
    BY <1>1 DEF R!Arrived, PostRecords
  <1>4. sent' \in Nat
    BY <1>1, <1>2 DEF RelayTypes, RelayVarTypes
  <1>5. relayed[p].pc = "idle" /\ UNCHANGED <<behind, run, known, failures, handed, refused, lostRequests>>
    BY CardinalityHere DEF R!Client, R!At
  <1> QED BY <1>1, <1>3, <1>4, <1>5

LEMMA LookFacts ==
  ASSUME RelayTypes, NEW p \in R!Posts, R!Look(p)
  PROVE  \E h \in relayed[p].todo, r \in PostRecords :
            /\ relayed' = [relayed EXCEPT ![p] = r]
            /\ relayed[p].pc \in {"arrived", "look"} /\ relayed[p].at \in Servers
            /\ r.at = relayed[p].at /\ r.origin = relayed[p].origin /\ r.body = relayed[p].body
            /\ r.todo = relayed[p].todo \ {h} /\ r.pc \in {"look", "set"}
            /\ \/ h \in known[relayed[p].at] /\ r.new = relayed[p].new
               \/ r.new = relayed[p].new \union {h}
            /\ UNCHANGED <<behind, run, known, failures, handed, refused, sent, lostRequests>>
  <1>1. relayed \in [R!Posts -> PostRecords] /\ relayed[p] \in PostRecords
    BY DEF RelayTypes, RelayVarTypes
  <1>2. PICK h \in relayed[p].todo :
          \/ /\ h \in known[relayed[p].at]
             /\ relayed' = [relayed EXCEPT ![p] = [relayed[p] EXCEPT !.pc = "look",
                    !.todo = relayed[p].todo \ {h}]]
          \/ /\ h \notin known[relayed[p].at]
             /\ relayed' = [relayed EXCEPT ![p] = [relayed[p] EXCEPT !.pc = "set",
                    !.todo = relayed[p].todo \ {h},
                                                            !.new = relayed[p].new \union {h}]]
    <2>1. PICK h \in relayed[p].todo :
             \/ /\ h \in known[relayed[p].at]
                /\ relayed' = [relayed EXCEPT ![p].pc = "look", ![p].todo = @ \ {h}]
             \/ /\ h \notin known[relayed[p].at]
                /\ relayed' = [relayed EXCEPT ![p].pc = "set", ![p].todo = @ \ {h}, ![p].new = @ \union {h}]
      BY DEF R!Look
    <2>2. CASE h \in known[relayed[p].at]
      <3>1. relayed' = [relayed EXCEPT ![p] = [relayed[p] EXCEPT !.pc = "look", !.todo = relayed[p].todo \ {h}]]
        BY <1>1, <2>1, <2>2
      <3> QED BY <2>2, <3>1
    <2>3. CASE h \notin known[relayed[p].at]
      <3>1. relayed' = [relayed EXCEPT ![p] = [relayed[p] EXCEPT !.pc = "set", !.todo = relayed[p].todo \ {h},
                                                       !.new = relayed[p].new \union {h}]]
        BY <1>1, <2>1, <2>3
      <3> QED BY <2>3, <3>1
    <2> QED BY <2>2, <2>3
  <1>3. relayed[p].pc \in {"arrived", "look"} /\ relayed[p].at \in Servers
    BY DEF R!Look, R!Filtering, R!At, RelayTypes, PartsOfPost
  <1>4. CASE h \in known[relayed[p].at]
    <2>1. [relayed[p] EXCEPT !.pc = "look", !.todo = relayed[p].todo \ {h}] \in PostRecords
      BY <1>1 DEF PostRecords
    <2> QED BY <1>1, <1>2, <1>3, <1>4, <2>1 DEF R!Look, PostRecords
  <1>5. CASE h \notin known[relayed[p].at]
    <2>1. [relayed[p] EXCEPT !.pc = "set", !.todo = relayed[p].todo \ {h}, !.new = relayed[p].new \union {h}]
              \in PostRecords
      BY <1>1 DEF PostRecords
    <2> QED BY <1>1, <1>2, <1>3, <1>5, <2>1 DEF R!Look, PostRecords
  <1> QED BY <1>4, <1>5

LEMMA SetFacts ==
  ASSUME RelayTypes, NEW p \in R!Posts, R!SetKnown(p)
  PROVE  \E r \in PostRecords :
            /\ relayed' = [relayed EXCEPT ![p] = r] /\ r.pc = "look"
            /\ relayed[p].pc = "set" /\ relayed[p].at \in Servers
            /\ r.at = relayed[p].at /\ r.origin = relayed[p].origin /\ r.body = relayed[p].body
            /\ r.todo = relayed[p].todo /\ r.new = relayed[p].new
            /\ known' = [known EXCEPT ![relayed[p].at] = known[relayed[p].at] \union relayed[p].new]
            /\ UNCHANGED <<behind, run, failures, handed, refused, sent, lostRequests>>
  <1>1. relayed \in [R!Posts -> PostRecords] /\ relayed[p] \in PostRecords
    BY DEF RelayTypes, RelayVarTypes
  <1>2. relayed[p].pc = "set" /\ relayed[p].at \in Servers
    BY DEF R!SetKnown, R!At, RelayTypes, PartsOfPost
  <1>3. relayed' = [relayed EXCEPT ![p] = [relayed[p] EXCEPT !.pc = "look"]]
    BY <1>1 DEF R!SetKnown
  <1>4. [relayed[p] EXCEPT !.pc = "look"] \in PostRecords
    BY <1>1 DEF PostRecords
  <1>5. known' = [known EXCEPT ![relayed[p].at] = known[relayed[p].at] \union relayed[p].new]
    BY <1>2 DEF R!SetKnown, RelayTypes, RelayVarTypes
  <1> QED BY <1>1, <1>2, <1>3, <1>4, <1>5 DEF R!SetKnown, PostRecords

\* The handler is given the whole post, or what is new of it.
LEMMA HandFacts ==
  ASSUME RelayTypes, NEW p \in R!Posts, R!ServeOnly(p) \/ R!Relayed(p)
  PROVE  \E r \in PostRecords, B \in SUBSET relayed[p].body :
            /\ relayed' = [relayed EXCEPT ![p] = r] /\ relayed[p].at \in Servers
            /\ handed' = [handed EXCEPT ![relayed[p].at] = handed[relayed[p].at] \union B]
            /\ \/ /\ r = R!Gone /\ B = relayed[p].body /\ relayed[p].pc = "arrived"
                  /\ relayed[p].origin = R!Self(relayed[p].at) \/ behind[relayed[p].at] = Nowhere
               \/ /\ r = R!Gone /\ B = relayed[p].body /\ relayed[p].pc = "look"
                  /\ relayed[p].new = {} /\ relayed[p].todo = {}
               \/ /\ r.pc = "send" /\ B = relayed[p].new /\ relayed[p].pc = "look" /\ relayed[p].todo = {}
                  /\ r.at = relayed[p].at /\ r.origin = relayed[p].origin /\ r.body = relayed[p].body
                  /\ r.todo = relayed[p].todo /\ r.new = relayed[p].new
            /\ UNCHANGED <<behind, run, known, failures, refused, sent, lostRequests>>
  <1>1. relayed \in [R!Posts -> PostRecords] /\ relayed[p] \in PostRecords
    BY DEF RelayTypes, RelayVarTypes
  <1>2. relayed[p].at \in Servers /\ relayed[p].new \subseteq relayed[p].body
    BY DEF R!ServeOnly, R!Relayed, R!At, RelayTypes, PartsOfPost
  <1>3. R!Gone \in PostRecords /\ [relayed[p] EXCEPT !.pc = "send"] \in PostRecords
    BY <1>1 DEF R!Gone, PostRecords
  <1>4. CASE R!ServeOnly(p)
    <2>1. handed' = [handed EXCEPT ![relayed[p].at] = handed[relayed[p].at] \union relayed[p].body]
      BY <1>2, <1>4 DEF R!ServeOnly, R!HandOn, RelayTypes, RelayVarTypes
    <2> QED BY <1>2, <1>3, <1>4, <2>1 DEF R!ServeOnly, R!At
  <1>5. CASE R!Relayed(p) /\ relayed[p].new = {}
    <2>1. handed' = [handed EXCEPT ![relayed[p].at] = handed[relayed[p].at] \union relayed[p].body]
      BY <1>2, <1>5 DEF R!Relayed, R!HandOn, RelayTypes, RelayVarTypes
    <2> QED BY <1>2, <1>3, <1>5, <2>1 DEF R!Relayed, R!At
  <1>6. CASE R!Relayed(p) /\ relayed[p].new # {}
    <2>1. handed' = [handed EXCEPT ![relayed[p].at] = handed[relayed[p].at] \union relayed[p].new]
      BY <1>2, <1>6 DEF R!Relayed, R!HandOn, RelayTypes, RelayVarTypes
    <2>2. relayed' = [relayed EXCEPT ![p] = [relayed[p] EXCEPT !.pc = "send"]]
      BY <1>1, <1>6 DEF R!Relayed
    <2> QED BY <1>1, <1>2, <1>3, <1>6, <2>1, <2>2 DEF R!Relayed, R!At, PostRecords
  <1> QED BY <1>4, <1>5, <1>6

LEMMA SendFactsR ==
  ASSUME RelayTypes, NEW p \in R!Posts, R!Send(p)
  PROVE  \E r \in PostRecords, s \in Servers :
            /\ relayed' = [relayed EXCEPT ![p] = r] /\ relayed[p].at = s /\ relayed[p].pc = "send"
            /\ \/ /\ behind[s] \in Servers /\ r.pc = "arrived" /\ r.at = behind[s]
                  /\ r.origin = (IF relayed[p].origin = R!NoOrigin THEN R!Self(s) ELSE relayed[p].origin)
                  /\ r.body = relayed[p].new /\ r.todo = relayed[p].new /\ r.new = {}
                  /\ UNCHANGED <<refused, lostRequests>>
               \/ r = R!Gone /\ behind[s] \notin Servers /\ UNCHANGED <<refused, lostRequests>>
               \/ r = R!Gone /\ R!Fault /\ UNCHANGED refused
               \/ r = R!Gone /\ R!Fault /\ refused' = refused \union {[by |-> p, at |-> s, pc |-> "look"]}
            /\ UNCHANGED <<behind, run, known, failures, handed, sent>>
  <1>1. relayed \in [R!Posts -> PostRecords] /\ relayed[p] \in PostRecords
    BY DEF RelayTypes, RelayVarTypes
  <1>2. relayed[p].pc = "send" /\ relayed[p].at \in Servers
    BY DEF R!Send, R!At, RelayTypes, PartsOfPost
  <1>3. PICK s \in Servers : s = relayed[p].at
    BY <1>2
  <1> DEFINE o == IF relayed[p].origin = R!NoOrigin THEN R!Self(s) ELSE relayed[p].origin
             r == R!Arrived(behind[s], o, relayed[p].new, relayed[p].passed)
  <1>4. R!Gone \in PostRecords /\ (behind[s] \in Servers => r \in PostRecords)
    <2>1. R!Self(s) \in Servers \X Nat
      BY DEF R!Self, RelayTypes, RelayVarTypes
    <2>2. o \in {R!NoOrigin} \union Servers \X Nat
      BY <1>1, <2>1 DEF PostRecords
    <2> HIDE DEF o
    <2> QED BY <1>1, <2>2 DEF R!Gone, PostRecords, R!Arrived
  <1>5. \/ /\ relayed' = [relayed EXCEPT ![p] = IF behind[s] \in Servers THEN r ELSE R!Gone]
           /\ UNCHANGED <<refused, lostRequests>>
        \/ relayed' = [relayed EXCEPT ![p] = R!Gone] /\ R!Fault /\ UNCHANGED refused
        \/ relayed' = [relayed EXCEPT ![p] = R!Gone] /\ R!Fault
              /\ refused' = refused \union {[by |-> p, at |-> s, pc |-> "look"]}
    BY <1>3 DEF R!Send
  <1>6. UNCHANGED <<behind, run, known, failures, handed, sent>>
    BY DEF R!Send
  <1>7. /\ r.pc = "arrived" /\ r.at = behind[s] /\ r.origin = o
        /\ r.body = relayed[p].new /\ r.todo = relayed[p].new /\ r.new = {}
    BY DEF R!Arrived
  <1> HIDE DEF r
  <1>8. CASE relayed' = [relayed EXCEPT ![p] = r] /\ behind[s] \in Servers
                 /\ UNCHANGED <<refused, lostRequests>>
    BY <1>2, <1>3, <1>4, <1>6, <1>7, <1>8
  <1>9. CASE relayed' = [relayed EXCEPT ![p] = R!Gone] /\ behind[s] \notin Servers
                 /\ UNCHANGED <<refused, lostRequests>>
    BY <1>2, <1>3, <1>4, <1>6, <1>9
  <1>10. CASE relayed' = [relayed EXCEPT ![p] = R!Gone] /\ R!Fault
                /\ (UNCHANGED refused \/ refused' = refused \union {[by |-> p, at |-> s, pc |-> "look"]})
    BY <1>2, <1>3, <1>4, <1>6, <1>10
  <1> QED BY <1>5, <1>8, <1>9, <1>10

LEMMA PostKept ==
  ASSUME RelayTypes, NEW p \in R!Posts, NEW r \in PostRecords, relayed' = [relayed EXCEPT ![p] = r],
         r.new \subseteq r.body, r.todo \subseteq r.body, r.pc \in Filled => r.at \in Servers
  PROVE  /\ relayed' \in [R!Posts -> PostRecords] /\ PartsOfPost'
         /\ relayed'[p] = r /\ \A q \in R!Posts \ {p} : relayed'[q] = relayed[q]
  <1>1. /\ relayed' \in [R!Posts -> PostRecords]
        /\ relayed'[p] = r /\ \A q \in R!Posts \ {p} : relayed'[q] = relayed[q]
    BY DEF RelayTypes, RelayVarTypes
  <1>2. ASSUME NEW q \in R!Posts
        PROVE  /\ relayed'[q].new \subseteq relayed'[q].body /\ relayed'[q].todo \subseteq relayed'[q].body
               /\ relayed'[q].pc \in Filled => relayed'[q].at \in Servers
    <2>1. CASE q = p
      BY <1>1, <2>1
    <2>2. CASE q # p
      BY <1>1, <2>2 DEF RelayTypes, PartsOfPost, Filled
    <2> QED BY <2>1, <2>2
  <1> QED BY <1>1, <1>2 DEF PartsOfPost, Filled

LEMMA GoneFits == R!Gone \in PostRecords /\ R!Gone.new = {} /\ R!Gone.todo = {} /\ R!Gone.body = {}
    /\ R!Gone.pc = "gone"
                  /\ R!Gone.at = Nowhere
  BY DEF R!Gone, PostRecords

\* A fault leaves room for one refused request more, which makes one failure more.
LEMMA RefusedKept ==
  ASSUME RelayTypes, NEW r, lostRequests' = lostRequests + 1, refused' = refused \union {r},
             failures' = failures
  PROVE  FailuresCounted'
  <1>1. IsFiniteSet(refused) /\ Cardinality(refused) \in Nat
    BY FS_CardinalityType DEF RelayTypes, FailuresCounted
  <1>2. /\ IsFiniteSet(refused')
        /\ Cardinality(refused') = Cardinality(refused) \/ Cardinality(refused') = Cardinality(refused) + 1
    BY <1>1, FS_AddElement
  <1>3. \A s \in Servers : failures[s] \in Int
    BY DEF RelayTypes, RelayVarTypes
  <1>4. Cardinality(refused') \in Nat /\ Cardinality(refused') <= Cardinality(refused) + 1
    BY <1>1, <1>2
  <1>5. lostRequests \in Nat /\ Cardinality(refused) <= lostRequests
    BY DEF RelayTypes, RelayVarTypes, FailuresCounted
  <1>6. ASSUME NEW s \in Servers PROVE failures'[s] >= -1
                   /\ failures'[s] + Cardinality(refused') <= lostRequests'
    <2>1. failures[s] >= -1 /\ failures[s] + Cardinality(refused) <= lostRequests
      BY DEF RelayTypes, FailuresCounted
    <2> QED BY <1>1, <1>3, <1>4, <1>5, <2>1
  <1>7. Cardinality(refused') <= lostRequests'
    BY <1>1, <1>4, <1>5
  <1> QED BY <1>2, <1>6, <1>7 DEF FailuresCounted

LEMMA FewerRefused ==
  ASSUME NEW S, IsFiniteSet(S), NEW Sub \in SUBSET S
  PROVE  IsFiniteSet(Sub) /\ Cardinality(Sub) \in Nat /\ Cardinality(S) \in Nat
             /\ Cardinality(Sub) <= Cardinality(S)
  BY FS_Subset, FS_CardinalityType

\* A refused request is looked at further, or has been counted.
LEMMA FailuresKept ==
  ASSUME RelaySizes, RelayTypes, R!LookFailures \/ R!ZeroFailures \/ R!CountFailure
  PROVE  RelayTypes'
  <1>1. PICK r \in refused :
           \/ /\ \E pc \in {"zero", "count"} : refused' = (refused \ {r}) \union {[r EXCEPT !.pc = pc]}
              /\ failures' = failures \/ failures' = [failures EXCEPT ![r.at] = 0]
              /\ behind' = behind
           \/ /\ refused' = refused \ {r} /\ failures' = [failures EXCEPT ![r.at] = @ + 1]
              /\ behind' = behind \/ behind' = [behind EXCEPT ![r.at] = Nowhere]
    <2>1. CASE R!LookFailures
      BY <2>1 DEF R!LookFailures
    <2>2. CASE R!ZeroFailures
      BY <2>2 DEF R!ZeroFailures
    <2>3. CASE R!CountFailure
      BY <2>3 DEF R!CountFailure
    <2> QED BY <2>1, <2>2, <2>3
  <1>2. UNCHANGED <<run, known, handed, relayed, sent, lostRequests>>
    BY DEF R!LookFailures, R!ZeroFailures, R!CountFailure
  <1>3. r \in Refusals /\ r.at \in Servers /\ \A pc \in {"zero", "count"} : [r EXCEPT !.pc = pc] \in Refusals
    BY DEF RelayTypes, RelayVarTypes, Refusals
  <1>4. RelayVarTypes'
    BY <1>1, <1>2, <1>3 DEF RelayTypes, RelayVarTypes
  <1>5. PartsOfPost'
    BY <1>2 DEF RelayTypes, PartsOfPost
  <1>6. /\ IsFiniteSet(refused \ {r}) /\ IsFiniteSet(refused)
        /\ Cardinality(refused \ {r}) = Cardinality(refused) - 1
        /\ Cardinality(refused) \in Nat /\ Cardinality(refused \ {r}) \in Nat
    <2>1. IsFiniteSet(refused)
      BY DEF RelayTypes, FailuresCounted
    <2> QED BY <2>1, FS_RemoveElement, FS_CardinalityType
  <1>7. /\ IsFiniteSet(refused') /\ Cardinality(refused') \in Nat
        /\ Cardinality(refused') <= Cardinality(refused)
        /\ refused' = refused \ {r} => Cardinality(refused') = Cardinality(refused) - 1
    <2>1. CASE refused' = refused \ {r}
      BY <1>6, <2>1
    <2>2. CASE \E e : refused' = (refused \ {r}) \union {e}
      <3>1. PICK e : refused' = (refused \ {r}) \union {e}
        BY <2>2
      <3>2. /\ IsFiniteSet(refused')
            /\ \/ Cardinality(refused') = Cardinality(refused \ {r})
               \/ Cardinality(refused') = Cardinality(refused \ {r}) + 1
        BY <1>6, <3>1, FS_AddElement
      <3>3. Cardinality(refused') \in Nat /\ Cardinality(refused') <= Cardinality(refused)
        BY <1>6, <3>2
      <3>4. refused' = refused \ {r} => Cardinality(refused') = Cardinality(refused) - 1
        BY <1>6
      <3> QED BY <3>2, <3>3, <3>4
    <2> QED BY <1>1, <2>1, <2>2
  <1>8. Cardinality(refused') <= lostRequests
    BY <1>6, <1>7 DEF RelayTypes, RelayVarTypes, FailuresCounted
  <1>9. ASSUME NEW s \in Servers
        PROVE  failures'[s] >= -1 /\ failures'[s] + Cardinality(refused') <= lostRequests
    <2>1. /\ failures[s] \in Int /\ failures[s] >= -1 /\ failures[s] + Cardinality(refused) <= lostRequests
          /\ Cardinality(refused) <= lostRequests /\ lostRequests \in Nat
      BY DEF RelayTypes, RelayVarTypes, FailuresCounted
    <2>2. CASE refused' = refused \ {r} /\ failures' = [failures EXCEPT ![r.at] = @ + 1]
      <3>1. failures'[s] = failures[s] \/ failures'[s] = failures[s] + 1
        BY <2>2 DEF RelayTypes, RelayVarTypes
      <3> QED BY <1>6, <1>7, <2>1, <2>2, <3>1
    <2>3. CASE failures' = failures \/ failures' = [failures EXCEPT ![r.at] = 0]
      <3>1. failures'[s] = failures[s] \/ failures'[s] = 0
        BY <2>3 DEF RelayTypes, RelayVarTypes
      <3> QED BY <1>6, <1>7, <1>8, <2>1, <3>1
    <2> QED BY <1>1, <2>2, <2>3
  <1>10. FailuresCounted'
    BY <1>2, <1>7, <1>8, <1>9 DEF FailuresCounted
  <1> QED BY <1>4, <1>5, <1>10 DEF RelayTypes

LEMMA RelayTypesKept == ASSUME RelaySizes, RelayTypes, [R!Next]_(R!vars) PROVE RelayTypes'
  <1>1. ASSUME NEW p \in R!Posts, R!Client(p) PROVE RelayTypes'
    <2>1. PICK s \in Servers, B \in SUBSET Hashes :
             /\ relayed' = [relayed EXCEPT ![p] = R!Arrived(s, R!NoOrigin, B, {})]
             /\ R!Arrived(s, R!NoOrigin, B, {}) \in PostRecords
             /\ sent' \in Nat /\ sent' + lostRequests <= MaxLoad
             /\ UNCHANGED <<behind, run, known, failures, handed, refused, lostRequests>>
      BY <1>1, ClientFacts
    <2>2. relayed' \in [R!Posts -> PostRecords] /\ PartsOfPost'
      <3>1. PICK r \in PostRecords : r = R!Arrived(s, R!NoOrigin, B, {})
        BY <2>1
      <3>2. r.new \subseteq r.body /\ r.todo \subseteq r.body /\ r.at \in Servers
        BY <3>1 DEF R!Arrived
      <3> QED BY <2>1, <3>1, <3>2, PostKept
    <2> QED BY <2>1, <2>2 DEF RelayTypes, RelayVarTypes, FailuresCounted
  <1>2. ASSUME NEW p \in R!Posts, R!Look(p) PROVE RelayTypes'
    <2>1. PICK h \in relayed[p].todo, r \in PostRecords :
             /\ relayed' = [relayed EXCEPT ![p] = r] /\ relayed[p].at \in Servers
             /\ r.at = relayed[p].at /\ r.body = relayed[p].body /\ r.todo = relayed[p].todo \ {h}
             /\ r.new = relayed[p].new \/ r.new = relayed[p].new \union {h}
             /\ UNCHANGED <<behind, run, known, failures, handed, refused, sent, lostRequests>>
      BY <1>2, LookFacts
    <2>2. relayed[p].new \subseteq relayed[p].body /\ relayed[p].todo \subseteq relayed[p].body
      BY DEF RelayTypes, PartsOfPost
    <2>3. relayed' \in [R!Posts -> PostRecords] /\ PartsOfPost'
      BY <2>1, <2>2, PostKept
    <2> QED BY <2>1, <2>3 DEF RelayTypes, RelayVarTypes, FailuresCounted
  <1>3. ASSUME NEW p \in R!Posts, R!SetKnown(p) PROVE RelayTypes'
    <2>1. PICK r \in PostRecords :
             /\ relayed' = [relayed EXCEPT ![p] = r] /\ relayed[p].at \in Servers
             /\ r.at = relayed[p].at /\ r.body = relayed[p].body /\ r.todo = relayed[p].todo
                    /\ r.new = relayed[p].new
             /\ known' = [known EXCEPT ![relayed[p].at] = known[relayed[p].at] \union relayed[p].new]
             /\ UNCHANGED <<behind, run, failures, handed, refused, sent, lostRequests>>
      BY <1>3, SetFacts
    <2>2. relayed[p].new \subseteq relayed[p].body /\ relayed[p].todo \subseteq relayed[p].body
      BY DEF RelayTypes, PartsOfPost
    <2>3. relayed' \in [R!Posts -> PostRecords] /\ PartsOfPost'
      BY <2>1, <2>2, PostKept
    <2>4. relayed[p].new \subseteq Hashes
      BY DEF RelayTypes, RelayVarTypes, PostRecords
    <2>5. known' \in [Servers -> SUBSET Hashes]
      BY <2>1, <2>4 DEF RelayTypes, RelayVarTypes
    <2> QED BY <2>1, <2>3, <2>5 DEF RelayTypes, RelayVarTypes, FailuresCounted
  <1>4. ASSUME NEW p \in R!Posts, R!ServeOnly(p) \/ R!Relayed(p) PROVE RelayTypes'
    <2>1. PICK r \in PostRecords, B \in SUBSET relayed[p].body :
             /\ relayed' = [relayed EXCEPT ![p] = r] /\ relayed[p].at \in Servers
             /\ handed' = [handed EXCEPT ![relayed[p].at] = handed[relayed[p].at] \union B]
             /\ \/ /\ r = R!Gone /\ B = relayed[p].body /\ relayed[p].pc = "arrived"
                   /\ relayed[p].origin = R!Self(relayed[p].at) \/ behind[relayed[p].at] = Nowhere
                \/ /\ r = R!Gone /\ B = relayed[p].body /\ relayed[p].pc = "look"
                   /\ relayed[p].new = {} /\ relayed[p].todo = {}
                \/ /\ r.pc = "send" /\ B = relayed[p].new /\ relayed[p].pc = "look" /\ relayed[p].todo = {}
                   /\ r.at = relayed[p].at /\ r.origin = relayed[p].origin /\ r.body = relayed[p].body
                   /\ r.todo = relayed[p].todo /\ r.new = relayed[p].new
             /\ UNCHANGED <<behind, run, known, failures, refused, sent, lostRequests>>
      BY <1>4, HandFacts
    <2>2. relayed[p].new \subseteq relayed[p].body /\ relayed[p].todo \subseteq relayed[p].body
      BY DEF RelayTypes, PartsOfPost
    <2>3. relayed' \in [R!Posts -> PostRecords] /\ PartsOfPost'
      BY <2>1, <2>2, PostKept, GoneFits DEF Filled
    <2>4. B \subseteq Hashes
      BY DEF RelayTypes, RelayVarTypes, PostRecords
    <2>5. handed' \in [Servers -> SUBSET Hashes]
      BY <2>1, <2>4 DEF RelayTypes, RelayVarTypes
    <2> QED BY <2>1, <2>3, <2>5 DEF RelayTypes, RelayVarTypes, FailuresCounted
  <1>5. ASSUME NEW p \in R!Posts, R!Send(p) PROVE RelayTypes'
    <2>1. PICK r \in PostRecords, s \in Servers :
            /\ relayed' = [relayed EXCEPT ![p] = r]
            /\ \/ /\ r.at \in Servers /\ r.body = relayed[p].new /\ r.todo = relayed[p].new /\ r.new = {}
               \/ r = R!Gone
            /\ \/ UNCHANGED <<refused, lostRequests>>
               \/ R!Fault /\ UNCHANGED refused
               \/ R!Fault /\ refused' = refused \union {[by |-> p, at |-> s, pc |-> "look"]}
            /\ UNCHANGED <<behind, run, known, failures, handed, sent>>
      BY <1>5, SendFactsR
    <2>2. relayed' \in [R!Posts -> PostRecords] /\ PartsOfPost'
      BY <2>1, PostKept, GoneFits DEF Filled
    <2>3. [by |-> p, at |-> s, pc |-> "look"] \in Refusals
      BY DEF Refusals
    <2>4. RelayVarTypes'
      BY <2>1, <2>2, <2>3 DEF RelayTypes, RelayVarTypes, R!Fault, RelaySizes
    <2>5. FailuresCounted'
      <3>1. CASE UNCHANGED <<refused, lostRequests>>
        BY <2>1, <3>1 DEF RelayTypes, FailuresCounted
      <3>2. CASE R!Fault /\ UNCHANGED refused
        <4>1. Cardinality(refused) \in Nat
          BY FS_CardinalityType DEF RelayTypes, FailuresCounted
        <4> QED BY <2>1, <3>2, <4>1 DEF RelayTypes, RelayVarTypes, FailuresCounted, R!Fault
      <3>3. CASE R!Fault /\ refused' = refused \union {[by |-> p, at |-> s, pc |-> "look"]}
        BY <2>1, <3>3, RefusedKept DEF R!Fault
      <3> QED BY <2>1, <3>1, <3>2, <3>3
    <2> QED BY <2>2, <2>4, <2>5 DEF RelayTypes
  <1>6. ASSUME R!LookFailures \/ R!ZeroFailures \/ R!CountFailure PROVE RelayTypes'
    BY <1>6, FailuresKept
  <1>7. ASSUME R!Forget PROVE RelayTypes'
    <2>1. PICK s \in Servers : \E h : known' = [known EXCEPT ![s] = known[s] \ {h}]
      BY <1>7 DEF R!Forget, RelayTypes, RelayVarTypes
    <2>2. known' \in [Servers -> SUBSET Hashes]
      BY <2>1 DEF RelayTypes, RelayVarTypes
    <2> QED BY <1>7, <2>2 DEF R!Forget, RelayTypes, RelayVarTypes, PartsOfPost, FailuresCounted
  <1>8. ASSUME NEW s \in Servers, R!Restart(s) PROVE RelayTypes'
    <2>1. /\ run' \in [Servers -> Nat] /\ known' \in [Servers -> SUBSET Hashes]
          /\ failures' \in [Servers -> Int] /\ refused' \in SUBSET Refusals
      BY <1>8 DEF R!Restart, RelayTypes, RelayVarTypes
    <2>2. \A q \in R!Posts : relayed'[q] = R!Gone \/ relayed'[q] = relayed[q]
      BY <1>8 DEF R!Restart
    <2>3. relayed' \in [R!Posts -> PostRecords]
      BY <1>8, GoneFits DEF R!Restart, RelayTypes, RelayVarTypes
    <2>4. PartsOfPost'
      BY <2>2, GoneFits DEF PartsOfPost, RelayTypes
    <2>5. RelayVarTypes'
      BY <1>8, <2>1, <2>3 DEF R!Restart, RelayTypes, RelayVarTypes, R!Fault, RelaySizes
    <2>6. FailuresCounted'
      <3>1. /\ IsFiniteSet(refused') /\ Cardinality(refused') \in Nat /\ Cardinality(refused) \in Nat
            /\ Cardinality(refused') <= Cardinality(refused)
        <4>1. refused' \in SUBSET refused /\ IsFiniteSet(refused)
          BY <1>8 DEF R!Restart, RelayTypes, FailuresCounted
        <4> QED BY <4>1, FewerRefused
      <3>2. \A t \in Servers : failures'[t] = failures[t] \/ failures'[t] = -1
        BY <1>8 DEF R!Restart, RelayTypes, RelayVarTypes
      <3>3. \A t \in Servers : failures[t] \in Int /\ failures[t] >= -1
                               /\ failures[t] + Cardinality(refused) <= lostRequests
        BY DEF RelayTypes, RelayVarTypes, FailuresCounted
      <3>4. lostRequests \in Nat /\ lostRequests' = lostRequests + 1 /\ Cardinality(refused) <= lostRequests
        BY <1>8 DEF R!Restart, R!Fault, RelayTypes, RelayVarTypes, FailuresCounted
      <3> QED BY <3>1, <3>2, <3>3, <3>4 DEF FailuresCounted
    <2> QED BY <2>4, <2>5, <2>6 DEF RelayTypes
  <1>9. ASSUME UNCHANGED (R!vars) PROVE RelayTypes'
    BY <1>9 DEF R!vars, RelayTypes, RelayVarTypes, PartsOfPost, FailuresCounted
  <1> QED BY <1>1, <1>2, <1>3, <1>4, <1>5, <1>6, <1>7, <1>8, <1>9 DEF R!Next, R!Relaying

\* What one post's step leaves as it was, of what is on its way.
LEMMA WayKept ==
  ASSUME OnItsWay, UNCHANGED <<behind, run, refused>>,
         NEW p \in R!Posts, \A q \in R!Posts \ {p} : relayed'[q] = relayed[q],
         \A s \in Servers : handed[s] \subseteq handed'[s],
         \A s \in Servers : \A h : New(s, h) => New(s, h)' \/ h \in handed'[s],
         \A s \in Servers : \A h : Comes(s, h) => Comes(s, h)',
         \A s \in Servers : \A h : behind[s] \in Servers /\ ToSend(s, h)
             => ToSend(s, h)' \/ Comes(behind[s], h)',
         \A s \in Servers : \A h \in known'[s] : h \in known[s] \/ New(s, h)',
         \A s \in Servers : \A h \in handed'[s] :
            behind[s] \in Servers => h \in handed[s] \/ Comes(behind[s], h)' \/ ToSend(s, h)',
         \A q \in R!Posts : relayed[q].pc \in {"arrived", "look", "set"} => relayed[q].at \in Servers,
         \A q \in R!Posts : relayed[q].pc = "send" => relayed[q].at \in Servers,
         relayed'[p].pc \in {"arrived", "look", "set"} => relayed'[p].at \in Servers,
         \A t \in Servers : relayed'[p].pc \in {"arrived", "look", "set"} /\ relayed'[p].at = t =>
            \A h \in relayed'[p].body : h \in relayed'[p].todo \union relayed'[p].new \/ h \in handed'[t]
                \/ New(t, h)',
         relayed'[p].pc = "send" => relayed'[p].new \subseteq handed'[relayed'[p].at],
         \A s \in Servers : relayed'[p].pc # "gone" /\ relayed'[p].origin = R!Self(s)
             => relayed'[p].body \subseteq handed'[s]
  PROVE  OnItsWay'
  <1>1. NothingFailed'
    BY DEF OnItsWay, NothingFailed
  <1>2. KnownComes'
    BY DEF OnItsWay, KnownComes
  <1>3. DroppedComes'
    <2>1. ASSUME NEW q \in R!Posts, relayed'[q].pc \in {"arrived", "look", "set"}, NEW h \in relayed'[q].body,
                 NEW t \in Servers, t = relayed'[q].at
          PROVE  h \in relayed'[q].todo \union relayed'[q].new \/ h \in handed'[t] \/ New(t, h)'
      <3>1. CASE q = p
        BY <2>1, <3>1
      <3>2. CASE q # p
        <4>1. relayed'[q] = relayed[q] /\ relayed[q].at = t
          BY <2>1, <3>2
        <4>2. h \in relayed[q].todo \union relayed[q].new \/ h \in handed[t] \/ New(t, h)
          BY <2>1, <4>1 DEF OnItsWay, DroppedComes, New
        <4> QED BY <4>1, <4>2
      <3> QED BY <3>1, <3>2
    <2>2. \A q \in R!Posts : relayed'[q].pc \in {"arrived", "look", "set"} => relayed'[q].at \in Servers
      OBVIOUS
    <2> QED BY <2>1, <2>2 DEF DroppedComes, New
  <1>4. SentHandled'
    <2>1. \A s \in Servers : R!Self(s)' = R!Self(s)
      BY DEF R!Self
    <2>2. ASSUME NEW q \in R!Posts
          PROVE  /\ relayed'[q].pc = "send" => relayed'[q].new \subseteq handed'[relayed'[q].at]
                 /\ \A s \in Servers : relayed'[q].pc # "gone" /\ relayed'[q].origin = R!Self(s)
                        => relayed'[q].body \subseteq handed'[s]
      <3>1. CASE q = p
        BY <3>1
      <3>2. CASE q # p
        BY <3>2 DEF OnItsWay, SentHandled
      <3> QED BY <3>1, <3>2
    <2> QED BY <2>1, <2>2 DEF SentHandled
  <1>5. HandledGoesOn'
    <2>1. ASSUME NEW s \in Servers, behind[s] \in Servers, NEW h \in handed'[s]
          PROVE  Comes(behind[s], h)' \/ ToSend(s, h)'
      <3>1. CASE h \in handed[s]
        BY <2>1, <3>1 DEF OnItsWay, HandledGoesOn
      <3>2. CASE h \notin handed[s]
        BY <2>1, <3>2
      <3> QED BY <3>1, <3>2
    <2> QED BY <2>1 DEF HandledGoesOn
  <1> QED BY <1>1, <1>2, <1>3, <1>4, <1>5 DEF OnItsWay

LEMMA FilledAt ==
  ASSUME RelayTypes
  PROVE  /\ \A q \in R!Posts : relayed[q].pc \in {"arrived", "look", "set"} => relayed[q].at \in Servers
         /\ \A q \in R!Posts : relayed[q].pc = "send" => relayed[q].at \in Servers
         /\ \A q \in R!Posts : relayed[q] \in PostRecords
         /\ \A q \in R!Posts : relayed[q].new \subseteq relayed[q].body
                /\ relayed[q].todo \subseteq relayed[q].body
  BY DEF RelayTypes, RelayVarTypes, PartsOfPost

LEMMA WayClient ==
  ASSUME RelaySizes, RelayTypes, OnItsWay, NEW p \in R!Posts, R!Client(p)
  PROVE  OnItsWay'
  <1>1. PICK t \in Servers, B \in SUBSET Hashes :
           /\ relayed[p].pc = "idle"
           /\ relayed' = [relayed EXCEPT ![p] = R!Arrived(t, R!NoOrigin, B, {})]
           /\ R!Arrived(t, R!NoOrigin, B, {}) \in PostRecords
           /\ UNCHANGED <<behind, run, known, failures, handed, refused, lostRequests>>
    BY ClientFacts
  <1>2. /\ relayed'[p].pc = "arrived" /\ relayed'[p].at = t /\ relayed'[p].origin = R!NoOrigin
        /\ relayed'[p].body = B /\ relayed'[p].todo = B
        /\ \A q \in R!Posts \ {p} : relayed'[q] = relayed[q]
    BY <1>1 DEF R!Arrived, RelayTypes, RelayVarTypes
  <1>3. \A s \in Servers : R!Self(s) # R!NoOrigin
    BY DEF R!Self, R!NoOrigin, RelaySizes
  <1>4. \A s \in Servers : \A h : New(s, h) => New(s, h)'
    BY <1>1, <1>2 DEF New
  <1>5. \A s \in Servers : \A h : Comes(s, h) => Comes(s, h)'
    BY <1>1, <1>2 DEF Comes
  <1>6. \A s \in Servers : \A h : ToSend(s, h) => ToSend(s, h)'
    BY <1>1, <1>2 DEF ToSend
  <1>7. \A s \in Servers : \A h \in known'[s] : h \in known[s]
    BY <1>1
  <1>8. \A s \in Servers : \A h \in handed'[s] : h \in handed[s]
    BY <1>1
  <1> QED BY <1>1, <1>2, <1>3, <1>4, <1>5, <1>6, <1>7, <1>8, FilledAt, WayKept

LEMMA WayLook ==
  ASSUME RelayTypes, OnItsWay, NEW p \in R!Posts, R!Look(p)
  PROVE  OnItsWay'
  <1>1. PICK h \in relayed[p].todo, r \in PostRecords, t \in Servers :
           /\ relayed' = [relayed EXCEPT ![p] = r]
           /\ relayed[p].pc \in {"arrived", "look"} /\ relayed[p].at = t
           /\ r.at = t /\ r.origin = relayed[p].origin /\ r.body = relayed[p].body
           /\ r.todo = relayed[p].todo \ {h} /\ r.pc \in {"look", "set"}
           /\ (h \in known[t] /\ r.new = relayed[p].new) \/ r.new = relayed[p].new \union {h}
           /\ UNCHANGED <<behind, run, known, failures, handed, refused, sent, lostRequests>>
    BY LookFacts
  <1>2. relayed'[p] = r /\ \A q \in R!Posts \ {p} : relayed'[q] = relayed[q]
    BY <1>1 DEF RelayTypes, RelayVarTypes
  <1>3. \A s \in Servers : \A g : New(s, g) => New(s, g)'
    BY <1>1, <1>2 DEF New
  <1>4. h \in handed[t] \/ New(t, h)' \/ h \in r.new
    BY <1>1, <1>3 DEF OnItsWay, KnownComes
  <1>5. ASSUME NEW s \in Servers, NEW g, Comes(s, g) PROVE Comes(s, g)'
    <2>1. CASE g = h /\ s = t
      <3>1. New(t, h)' => Comes(t, h)'
        BY DEF New, Comes
      <3> QED BY <1>1, <1>2, <1>4, <2>1, <3>1 DEF Comes
    <2>2. CASE ~ (g = h /\ s = t)
      BY <1>1, <1>2, <1>5, <2>2 DEF Comes
    <2> QED BY <2>1, <2>2
  <1>6. \A s \in Servers : \A g : ToSend(s, g) => ToSend(s, g)'
    BY <1>1, <1>2 DEF ToSend
  <1>7. /\ \A s \in Servers : \A g \in known'[s] : g \in known[s]
        /\ \A s \in Servers : \A g \in handed'[s] : g \in handed[s]
        /\ \A s \in Servers : handed[s] \subseteq handed'[s]
    BY <1>1
  <1>8. ASSUME NEW g \in r.body PROVE g \in r.todo \union r.new \/ g \in handed[t] \/ New(t, g)'
    <2>1. g \in relayed[p].todo \union relayed[p].new \/ g \in handed[t] \/ New(t, g)
      BY <1>1 DEF OnItsWay, DroppedComes, New
    <2> QED BY <1>1, <1>3, <1>4, <2>1
  <1>9. /\ \A s \in Servers : \A g : New(s, g) => New(s, g)' \/ g \in handed'[s]
        /\ \A s \in Servers : \A g : behind[s] \in Servers /\ ToSend(s, g)
               => ToSend(s, g)' \/ Comes(behind[s], g)'
        /\ \A s \in Servers : \A g \in known'[s] : g \in known[s] \/ New(s, g)'
        /\ \A s \in Servers : \A g \in handed'[s] :
              behind[s] \in Servers => g \in handed[s] \/ Comes(behind[s], g)' \/ ToSend(s, g)'
    BY <1>3, <1>6, <1>7
  <1>10. /\ relayed'[p].at = t /\ relayed'[p].pc # "send"
         /\ \A g \in relayed'[p].body : g \in relayed'[p].todo \union relayed'[p].new \/ g \in handed'[t]
                \/ New(t, g)'
    BY <1>1, <1>2, <1>8
  <1>11. ASSUME NEW s \in Servers, relayed'[p].origin = R!Self(s) PROVE relayed'[p].body \subseteq handed'[s]
    <2>1. relayed[p].pc # "gone" /\ relayed[p].origin = R!Self(s)
      BY <1>1, <1>2, <1>11
    <2>2. relayed[p].body \subseteq handed[s]
      BY <2>1 DEF OnItsWay, SentHandled
    <2> QED BY <1>1, <1>2, <2>2
  <1> QED BY <1>1, <1>2, <1>5, <1>7, <1>9, <1>10, <1>11, FilledAt, WayKept

LEMMA WaySet ==
  ASSUME RelayTypes, OnItsWay, NEW p \in R!Posts, R!SetKnown(p)
  PROVE  OnItsWay'
  <1>1. PICK r \in PostRecords, t \in Servers :
           /\ relayed' = [relayed EXCEPT ![p] = r] /\ r.pc = "look"
           /\ relayed[p].pc = "set" /\ relayed[p].at = t
           /\ r.at = t /\ r.origin = relayed[p].origin /\ r.body = relayed[p].body
           /\ r.todo = relayed[p].todo /\ r.new = relayed[p].new
           /\ known' = [known EXCEPT ![t] = known[t] \union relayed[p].new]
           /\ UNCHANGED <<behind, run, failures, handed, refused, sent, lostRequests>>
    BY SetFacts
  <1>2. relayed'[p] = r /\ \A q \in R!Posts \ {p} : relayed'[q] = relayed[q]
    BY <1>1 DEF RelayTypes, RelayVarTypes
  <1>3. /\ \A s \in Servers : \A g : New(s, g) => New(s, g)'
        /\ \A g \in relayed[p].new : New(t, g)'
    BY <1>1, <1>2 DEF New
  <1>4. \A s \in Servers : \A g : Comes(s, g) => Comes(s, g)'
    BY <1>1, <1>2 DEF Comes
  <1>5. \A s \in Servers : \A g : ToSend(s, g) => ToSend(s, g)'
    BY <1>1, <1>2 DEF ToSend
  <1>6. \A s \in Servers : \A g \in known'[s] : g \in known[s] \/ New(s, g)'
    BY <1>1, <1>3 DEF RelayTypes, RelayVarTypes
  <1>7. /\ \A s \in Servers : \A g \in handed'[s] : g \in handed[s]
        /\ \A s \in Servers : handed[s] \subseteq handed'[s]
    BY <1>1
  <1>8. ASSUME NEW g \in r.body PROVE g \in r.todo \union r.new \/ g \in handed[t] \/ New(t, g)'
    <2>1. g \in relayed[p].todo \union relayed[p].new \/ g \in handed[t] \/ New(t, g)
      BY <1>1 DEF OnItsWay, DroppedComes, New
    <2> QED BY <1>1, <1>3, <2>1
  <1>9. /\ \A s \in Servers : \A g : New(s, g) => New(s, g)' \/ g \in handed'[s]
        /\ \A s \in Servers : \A g : behind[s] \in Servers /\ ToSend(s, g)
               => ToSend(s, g)' \/ Comes(behind[s], g)'
        /\ \A s \in Servers : \A g \in handed'[s] :
              behind[s] \in Servers => g \in handed[s] \/ Comes(behind[s], g)' \/ ToSend(s, g)'
    BY <1>3, <1>5, <1>7
  <1>10. /\ relayed'[p].at = t /\ relayed'[p].pc # "send"
         /\ \A g \in relayed'[p].body : g \in relayed'[p].todo \union relayed'[p].new \/ g \in handed'[t]
                \/ New(t, g)'
    BY <1>1, <1>2, <1>8
  <1>11. ASSUME NEW s \in Servers, relayed'[p].origin = R!Self(s) PROVE relayed'[p].body \subseteq handed'[s]
    <2>1. relayed[p].pc # "gone" /\ relayed[p].origin = R!Self(s)
      BY <1>1, <1>2, <1>11
    <2>2. relayed[p].body \subseteq handed[s]
      BY <2>1 DEF OnItsWay, SentHandled
    <2> QED BY <1>1, <1>2, <2>2
  <1> QED BY <1>1, <1>2, <1>4, <1>6, <1>7, <1>9, <1>10, <1>11, FilledAt, WayKept

LEMMA WayHand ==
  ASSUME RelaySizes, RelayTypes, OnItsWay, NEW p \in R!Posts, R!ServeOnly(p) \/ R!Relayed(p)
  PROVE  OnItsWay'
  <1>1. PICK r \in PostRecords, B \in SUBSET relayed[p].body, t \in Servers :
           /\ relayed' = [relayed EXCEPT ![p] = r] /\ relayed[p].at = t
           /\ handed' = [handed EXCEPT ![t] = handed[t] \union B]
           /\ \/ /\ r = R!Gone /\ B = relayed[p].body /\ relayed[p].pc = "arrived"
                 /\ relayed[p].origin = R!Self(t) \/ behind[t] = Nowhere
              \/ /\ r = R!Gone /\ B = relayed[p].body /\ relayed[p].pc = "look"
                 /\ relayed[p].new = {} /\ relayed[p].todo = {}
              \/ /\ r.pc = "send" /\ B = relayed[p].new /\ relayed[p].pc = "look" /\ relayed[p].todo = {}
                 /\ r.at = t /\ r.origin = relayed[p].origin /\ r.body = relayed[p].body
                 /\ r.todo = relayed[p].todo /\ r.new = relayed[p].new
           /\ UNCHANGED <<behind, run, known, failures, refused, sent, lostRequests>>
    BY HandFacts
  <1>2. relayed'[p] = r /\ \A q \in R!Posts \ {p} : relayed'[q] = relayed[q]
    BY <1>1 DEF RelayTypes, RelayVarTypes
  <1>3. /\ \A s \in Servers : handed[s] \subseteq handed'[s]
        /\ \A s \in Servers \ {t} : handed'[s] = handed[s]
        /\ handed'[t] = handed[t] \union B
    BY <1>1 DEF RelayTypes, RelayVarTypes
  <1>4. relayed[p].todo \subseteq relayed[p].body /\ relayed[p].new \subseteq relayed[p].body
        /\ relayed[p].todo \union relayed[p].new \subseteq B
    BY <1>1, FilledAt
  <1>5. \A s \in Servers : \A g : New(s, g) => New(s, g)' \/ g \in handed'[s]
    BY <1>1, <1>2, <1>3, <1>4 DEF New
  <1>6. ASSUME NEW s \in Servers, NEW g, Comes(s, g) PROVE Comes(s, g)'
    <2>1. CASE g \in handed[s]
      BY <1>3, <2>1 DEF Comes
    <2>2. CASE \E q \in R!Posts : /\ relayed[q].at = s /\ relayed[q].pc \in {"arrived", "look", "set"}
                                /\ g \in relayed[q].todo \union relayed[q].new
      <3>1. PICK q \in R!Posts : /\ relayed[q].at = s /\ relayed[q].pc \in {"arrived", "look", "set"}
                               /\ g \in relayed[q].todo \union relayed[q].new
        BY <2>2
      <3>2. CASE q = p
        BY <1>1, <1>3, <1>4, <3>1, <3>2 DEF Comes
      <3>3. CASE q # p
        BY <1>2, <3>1, <3>3 DEF Comes
      <3> QED BY <3>2, <3>3
    <2> QED BY <1>6, <2>1, <2>2 DEF Comes
  <1>7. \A s \in Servers : \A g : ToSend(s, g) => ToSend(s, g)'
    BY <1>1, <1>2, <1>4 DEF ToSend
  <1>8. ASSUME NEW g \in B, g \notin handed[t], behind[t] \in Servers PROVE ToSend(t, g)'
    <2>1. CASE relayed[p].pc = "arrived"
      BY <1>1, <1>8, <2>1, FilledAt DEF RelaySizes, OnItsWay, SentHandled
    <2>2. CASE relayed[p].new = {} /\ relayed[p].todo = {} /\ relayed[p].pc = "look"
      <3>1. New(t, g)
        BY <1>1, <1>8, <2>2 DEF OnItsWay, DroppedComes, New
      <3>2. ToSend(t, g)
        BY <3>1 DEF New, ToSend
      <3> QED BY <1>7, <3>2
    <2>3. CASE B = relayed[p].new /\ r.pc = "send"
      BY <1>1, <1>2, <1>8, <2>3 DEF ToSend, R!Gone
    <2> QED BY <1>1, <2>1, <2>2, <2>3
  <1>9. \A s \in Servers : \A g \in handed'[s] :
            behind[s] \in Servers => g \in handed[s] \/ Comes(behind[s], g)' \/ ToSend(s, g)'
    BY <1>3, <1>8
  <1>10. /\ relayed'[p].pc \notin {"arrived", "look", "set"}
         /\ relayed'[p].pc = "send" => relayed'[p].at = t /\ relayed'[p].new \subseteq handed'[t]
    BY <1>1, <1>2, <1>3 DEF R!Gone
  <1>11. \A s \in Servers : relayed'[p].pc # "gone" /\ relayed'[p].origin = R!Self(s)
             => relayed'[p].body \subseteq handed'[s]
    BY <1>1, <1>2, <1>3 DEF OnItsWay, SentHandled, R!Gone
  <1>12. /\ \A s \in Servers : \A g : behind[s] \in Servers /\ ToSend(s, g)
                => ToSend(s, g)' \/ Comes(behind[s], g)'
         /\ \A s \in Servers : \A g \in known'[s] : g \in known[s] \/ New(s, g)'
    BY <1>1, <1>7
  <1> QED BY <1>1, <1>2, <1>3, <1>5, <1>6, <1>9, <1>10, <1>11, <1>12, FilledAt, WayKept

LEMMA WaySend ==
  ASSUME RelayTypes, OnItsWay, ~ R!Fault, NEW p \in R!Posts, R!Send(p)
  PROVE  OnItsWay'
  <1>1. PICK r \in PostRecords, t \in Servers :
           /\ relayed' = [relayed EXCEPT ![p] = r] /\ relayed[p].at = t /\ relayed[p].pc = "send"
           /\ \/ /\ behind[t] \in Servers /\ r.pc = "arrived" /\ r.at = behind[t]
                 /\ r.origin = (IF relayed[p].origin = R!NoOrigin THEN R!Self(t) ELSE relayed[p].origin)
                 /\ r.body = relayed[p].new /\ r.todo = relayed[p].new /\ r.new = {}
              \/ r = R!Gone /\ behind[t] \notin Servers
           /\ UNCHANGED <<refused, lostRequests>>
           /\ UNCHANGED <<behind, run, known, failures, handed, sent>>
    BY SendFactsR
  <1>2. relayed'[p] = r /\ \A q \in R!Posts \ {p} : relayed'[q] = relayed[q]
    BY <1>1 DEF RelayTypes, RelayVarTypes
  <1>3. \A s \in Servers : \A g : New(s, g) => New(s, g)'
    BY <1>1, <1>2 DEF New
  <1>4. \A s \in Servers : \A g : Comes(s, g) => Comes(s, g)'
    BY <1>1, <1>2 DEF Comes
  <1>5. ASSUME NEW s \in Servers, NEW g, behind[s] \in Servers, ToSend(s, g)
        PROVE  ToSend(s, g)' \/ Comes(behind[s], g)'
    <2>1. PICK q \in R!Posts : relayed[q].at = s /\ relayed[q].pc \in {"look", "set", "send"}
                   /\ g \in relayed[q].new
      BY <1>5 DEF ToSend
    <2>2. CASE q = p
      BY <1>1, <1>2, <1>5, <2>1, <2>2 DEF Comes
    <2>3. CASE q # p
      BY <1>2, <2>1, <2>3 DEF ToSend
    <2> QED BY <2>2, <2>3
  <1>6. /\ \A s \in Servers : \A g \in known'[s] : g \in known[s]
        /\ \A s \in Servers : \A g \in handed'[s] : g \in handed[s]
        /\ \A s \in Servers : handed[s] \subseteq handed'[s]
    BY <1>1
  <1>7. /\ relayed'[p].pc \in {"arrived", "look", "set"} => relayed'[p].at \in Servers
        /\ relayed'[p].pc # "send"
        /\ relayed'[p].pc \in {"arrived", "look", "set"} =>
              \A g \in relayed'[p].body : g \in relayed'[p].todo \union relayed'[p].new
    BY <1>1, <1>2 DEF R!Gone
  <1>8. ASSUME NEW s \in Servers, relayed'[p].pc # "gone", relayed'[p].origin = R!Self(s)
        PROVE  relayed'[p].body \subseteq handed'[s]
    <2>1. relayed'[p].body = relayed[p].new /\ relayed[p].new \subseteq relayed[p].body
      BY <1>1, <1>2, <1>8, FilledAt DEF R!Gone
    <2>2. CASE relayed[p].origin = R!NoOrigin
      <3>1. s = t
        BY <1>1, <1>2, <1>8, <2>2 DEF R!Self, R!Gone
      <3> QED BY <1>1, <2>1, <3>1 DEF OnItsWay, SentHandled
    <2>3. CASE relayed[p].origin # R!NoOrigin
      <3>1. relayed[p].origin = R!Self(s)
        BY <1>1, <1>2, <1>8, <2>3 DEF R!Gone
      <3> QED BY <1>1, <2>1, <3>1 DEF OnItsWay, SentHandled
    <2> QED BY <2>2, <2>3
  <1>9. /\ \A s \in Servers : \A g : New(s, g) => New(s, g)' \/ g \in handed'[s]
        /\ \A s \in Servers : \A g : behind[s] \in Servers /\ ToSend(s, g)
               => ToSend(s, g)' \/ Comes(behind[s], g)'
        /\ \A s \in Servers : \A g \in known'[s] : g \in known[s] \/ New(s, g)'
        /\ \A s \in Servers : \A g \in handed'[s] :
              behind[s] \in Servers => g \in handed[s] \/ Comes(behind[s], g)' \/ ToSend(s, g)'
    BY <1>3, <1>5, <1>6
  <1> QED BY <1>1, <1>2, <1>4, <1>6, <1>7, <1>8, <1>9, FilledAt, WayKept

\* The other steps forget what was known; without refused requests no failures are counted.
LEMMA WayOthers ==
  ASSUME RelayTypes, OnItsWay, R!LookFailures \/ R!ZeroFailures \/ R!CountFailure \/ R!Forget
             \/ UNCHANGED (R!vars)
  PROVE  OnItsWay'
  <1>1. refused = {}
    BY DEF OnItsWay, NothingFailed
  <1>2. UNCHANGED <<behind, run, handed, relayed, refused>> /\ \A s \in Servers : known'[s] \subseteq known[s]
    BY <1>1 DEF R!LookFailures, R!ZeroFailures, R!CountFailure, R!Forget, R!vars, RelayTypes, RelayVarTypes
  <1>3. /\ \A s, h : New(s, h)' <=> New(s, h)
        /\ \A s, h : Comes(s, h)' <=> Comes(s, h)
        /\ \A s, h : ToSend(s, h)' <=> ToSend(s, h)
    BY <1>2 DEF New, Comes, ToSend
  <1>4. NothingFailed' /\ KnownComes'
    BY <1>2, <1>3 DEF OnItsWay, NothingFailed, KnownComes
  <1>5. DroppedComes' /\ SentHandled' /\ HandledGoesOn'
    BY <1>2 DEF OnItsWay, DroppedComes, SentHandled, HandledGoesOn, New, Comes, ToSend, R!Self
  <1> QED BY <1>4, <1>5 DEF OnItsWay

LEMMA RelayInvKept == ASSUME RelaySizes, RelayInv, [R!Next]_(R!vars) PROVE RelayInv'
  <1>1. RelayTypes /\ RelayTypes'
    BY RelayTypesKept DEF RelayInv
  <1>2. ASSUME lostRequests' = 0 PROVE OnItsWay'
    <2>1. lostRequests \in Nat
      BY <1>1 DEF RelayTypes, RelayVarTypes
    <2>2. ~ R!Fault
      BY <1>2, <2>1 DEF R!Fault
    <2>3. lostRequests' = lostRequests \/ R!Fault
      BY DEF R!Next, R!Relaying, R!Client, R!ServeOnly, R!Look, R!SetKnown, R!Relayed, R!Send, R!LookFailures,
           R!ZeroFailures,
             R!CountFailure, R!Forget, R!Restart, R!vars
    <2>4. OnItsWay
      BY <1>2, <2>2, <2>3 DEF RelayInv
    <2>5. \A s \in Servers : ~ R!Restart(s)
      BY <2>2 DEF R!Restart
    <2> QED BY <1>1, <2>2, <2>4, <2>5, WayClient, WayLook, WaySet, WayHand, WaySend, WayOthers DEF R!Next,
                R!Relaying
  <1> QED BY <1>1, <1>2 DEF RelayInv

LEMMA RelayInvInit == ASSUME RelaySizes, R!Init PROVE RelayInv
  <1>1. [R!Gone EXCEPT !.pc = "idle"] \in PostRecords
    BY DEF R!Gone, PostRecords
  <1>2. \A p \in R!Posts : /\ relayed[p].pc = "idle" /\ relayed[p].body = {} /\ relayed[p].new = {}
                                  /\ relayed[p].todo = {}
                         /\ relayed[p] \in PostRecords
    BY <1>1 DEF R!Init, R!Gone
  <1>3. RelayVarTypes
    <2>1. relayed \in [R!Posts -> PostRecords]
      BY <1>1 DEF R!Init
    <2> QED BY <2>1 DEF R!Init, RelayVarTypes, RelaySizes
  <1>4. PartsOfPost
    BY <1>2 DEF PartsOfPost
  <1>5. FailuresCounted
    BY FS_EmptySet DEF R!Init, FailuresCounted
  <1>6. OnItsWay
    BY <1>2 DEF R!Init, OnItsWay, NothingFailed, KnownComes, DroppedComes, SentHandled, HandledGoesOn
  <1> QED BY <1>3, <1>4, <1>5, <1>6 DEF RelayInv, RelayTypes

LEMMA RelayInvariance == ASSUME RelaySizes PROVE R!Spec => []RelayInv
  BY RelayInvInit, RelayInvKept, PTL DEF R!Spec

\* Servers know and handle hashes that clients send, a server filters no more than it was
\* posted, and no failure is counted that did not occur, whatever is lost or restarted.
THEOREM RelayTyped == ASSUME RelaySizes PROVE R!Spec => []R!TypeOK
  <1>1. RelayInv => R!TypeOK
    <2> SUFFICES ASSUME RelayInv PROVE R!TypeOK
      OBVIOUS
    <2>1. \A s \in Servers : known[s] \subseteq Hashes /\ handed[s] \subseteq Hashes
      BY DEF RelayInv, RelayTypes, RelayVarTypes
    <2>2. ASSUME NEW s \in Servers PROVE failures[s] \in -1 .. MaxLoad
      <3>1. Cardinality(refused) \in Nat
        BY FS_CardinalityType DEF RelayInv, RelayTypes, FailuresCounted
      <3> QED BY <3>1 DEF RelayInv, RelayTypes, RelayVarTypes, FailuresCounted, RelaySizes
    <2> QED BY <2>1, <2>2 DEF RelayInv, RelayTypes, PartsOfPost, R!TypeOK
  <1> QED BY <1>1, RelayInvariance, PTL

\* As long as no request is lost or refused and no server is restarted, what a server has
\* handled, the one behind it has handled too when all posts have ended: along any routes.
THEOREM RelayedWhole == ASSUME RelaySizes PROVE R!Spec => []AllHanded
  <1>1. RelayInv => AllHanded
    BY DEF RelayInv, OnItsWay, HandledGoesOn, Comes, ToSend, AllHanded
  <1> QED BY <1>1, RelayInvariance, PTL

----------------------------------------------------------------------------
(***************************************************************************)
(* Migrations: types, the schema, and what users have set.  As long as     *)
(* every mark was stored and found and badges_enabled does not stay, a     *)
(* migration that sets a field for all users has its mark or has dropped   *)
(* what it looks for before users can set it, whatever else fails.         *)
(***************************************************************************)
\* What an old database may have, and the marks it may have.
OldParts == M!Removes(Listed) \union {"no name column"}
Names    == {Listed[i].name : i \in 1 .. M!Last}

\* The migration under way has a next statement; what serves has none.
MigrationTypes ==
    /\ dialect \in Dialects /\ tables \in BOOLEAN
    /\ old \subseteq OldParts /\ chosen \subseteq M!Fields
    /\ done \subseteq Names
    /\ at \in 0 .. M!Last + 1 /\ stmt \in Nat /\ (~ M!Migrating => stmt = 0)
    /\ (at = SchemaAt => stmt = 0)
    /\ lost \in BOOLEAN /\ unmarked \in BOOLEAN /\ migrationFaults \in Nat

\* There is a schema once its migration is through, and what earlier ones left missing is there.
SchemaThere == at > SchemaAt => tables /\ missing = {}

\* SQLite does not drop badges_enabled.
BadgesStay == dialect = "sqlite" /\ "badges_enabled" \in old

\* A migration that sets a field for all users will not do so again.
Settles(i) ==
    IF Listed[i].marks THEN Listed[i].name \in done ELSE "badges_enabled" \notin old

\* A migration that sets a field and has no mark has yet to drop badges_enabled.
DropAhead(i) ==
    "badges_enabled" \in old =>
        \E k \in DOMAIN Listed[i].stmts :
            /\ k >= stmt /\ M!DropsBadges(Listed[i].stmts[k])
            /\ Dialects \ {"sqlite"} \subseteq Listed[i].stmts[k].on

\* The migrations that set a field for all users, which they do before users can.
Setters == {i \in 1 .. M!Last : M!SetsFields(i)}

OnceOnly ==
    /\ ~ lost
    /\ \A i \in Setters : i < at \/ chosen # {} => Settles(i)
    /\ \A i \in Setters : i = at => /\ stmt \in DOMAIN Listed[i].stmts => chosen = {}
                                    /\ ~ Listed[i].marks => DropAhead(i)

MigrationInv ==
    MigrationTypes /\ SchemaThere /\ (~ unmarked /\ ~ BadgesStay => OnceOnly)

\* The server serves with a schema in which nothing is missing.
ServesWithSchema == at = M!Last + 1 => tables /\ missing = {}

\* No start sets a field again that users have set, but where badges_enabled stays or a
\* mark was not stored or not found.
ChoicesStay == lost => "badges_enabled" \in old \/ unmarked

LEMMA ListFacts ==
  ASSUME M!ListFits
  PROVE  /\ M!Last \in Nat /\ DOMAIN Listed = 1 .. M!Last /\ SchemaAt \in 4 .. M!Last
         /\ \A i \in 1 .. M!Last : /\ Listed[i] \in M!Migration
                                 /\ Len(Listed[i].stmts) \in Nat
                                 /\ DOMAIN Listed[i].stmts = 1 .. Len(Listed[i].stmts)
                                 /\ \A k \in DOMAIN Listed[i].stmts : Listed[i].stmts[k] \in M!Statement
  <1>1. Listed \in Seq(M!Migration) /\ SchemaAt \in 4 .. M!Last
    BY DEF M!ListFits
  <1>2. M!Last \in Nat /\ DOMAIN Listed = 1 .. M!Last /\ \A i \in 1 .. M!Last : Listed[i] \in M!Migration
    <2> HIDE DEF M!Migration
    <2> QED BY <1>1, LenProperties, ElementOfSeq DEF M!Last
  <1>3. ASSUME NEW i \in 1 .. M!Last
        PROVE  /\ Len(Listed[i].stmts) \in Nat
               /\ DOMAIN Listed[i].stmts = 1 .. Len(Listed[i].stmts)
               /\ \A k \in DOMAIN Listed[i].stmts : Listed[i].stmts[k] \in M!Statement
    <2>1. Listed[i].stmts \in Seq(M!Statement)
      BY <1>2 DEF M!Migration
    <2> HIDE DEF M!Statement
    <2> QED BY <2>1, LenProperties, ElementOfSeq
  <1> QED BY <1>1, <1>2, <1>3

\* A statement removes what is there to be removed.
LEMMA Removed ==
  ASSUME M!ListFits, NEW i \in 1 .. M!Last, NEW k \in DOMAIN Listed[i].stmts
  PROVE  Listed[i].stmts[k].drops \subseteq M!Removes(Listed)
  BY ListFacts DEF M!Removes

LEMMA MigrationTypesKept ==
  ASSUME M!ListFits, MigrationTypes, [M!Next]_(M!vars) PROVE MigrationTypes'
  <1> USE DEF MigrationTypes
  <1>0. M!Last \in Nat /\ SchemaAt \in 4 .. M!Last
    BY ListFacts
  <1>1. CASE M!Start
    BY <1>0, <1>1 DEF M!Start, M!Migrating
  <1>2. CASE M!Conditions
    <2>1. Len(M!Current.stmts) \in Nat
      BY <1>2, ListFacts DEF M!Conditions, M!Migrating, M!Current
    <2>2. /\ UNCHANGED <<dialect, tables, old, done, chosen, lost>> /\ at \in 1 .. M!Last /\ at # SchemaAt
          /\ unmarked' \in {unmarked, TRUE}
          /\ \/ at' = at + 1 /\ stmt' = 0
             \/ at' = at /\ stmt' \in {1, Len(M!Current.stmts) + 1}
      BY <1>2 DEF M!Conditions, M!Migrating, M!Advance
    <2>3. migrationFaults' \in Nat
      <3>1. migrationFaults' = migrationFaults \/ M!Fault
        BY <1>2 DEF M!Conditions
      <3> QED BY <3>1 DEF M!Fault
    <2>4. /\ dialect' \in Dialects /\ tables' \in BOOLEAN /\ old' \subseteq OldParts
          /\ chosen' \subseteq M!Fields /\ done' \subseteq Names'
          /\ lost' \in BOOLEAN /\ unmarked' \in BOOLEAN
      BY <2>2 DEF Names
    <2>5. /\ at' \in 0 .. M!Last + 1 /\ stmt' \in Nat /\ (~ M!Migrating' => stmt' = 0)
          /\ (at' = SchemaAt => stmt' = 0)
      BY <1>0, <2>1, <2>2 DEF M!Migrating
    <2> QED BY <2>3, <2>4, <2>5
  <1>3. CASE M!Execute
    <2> DEFINE s == M!Current.stmts[stmt]
    <2>1. /\ UNCHANGED <<dialect, tables, done, unmarked>> /\ stmt \in DOMAIN M!Current.stmts /\ M!Migrating
          /\ old' = old \/ old' = old \ s.drops
          /\ chosen' \subseteq chosen
          /\ lost' \in BOOLEAN /\ migrationFaults' \in Nat
          /\ (stmt' = stmt + 1 /\ at' = at) \/ (stmt' = 0 /\ at' = 0)
      <3>1. /\ UNCHANGED <<dialect, tables, done, unmarked>> /\ stmt \in DOMAIN M!Current.stmts /\ M!Migrating
            /\ old' = old \/ old' = old \ s.drops
            /\ chosen' \subseteq chosen
        BY <1>3 DEF M!Execute
      <3>2. lost' \in BOOLEAN
        BY <1>3 DEF M!Execute
      <3>3. migrationFaults' \in Nat
        BY <1>3 DEF M!Execute, M!Fault
      <3>4. (stmt' = stmt + 1 /\ at' = at) \/ (stmt' = 0 /\ at' = 0)
        BY <1>3 DEF M!Execute
      <3> QED BY <3>1, <3>2, <3>3, <3>4
    <2>2. DOMAIN M!Current.stmts = 1 .. Len(M!Current.stmts) /\ Len(M!Current.stmts) \in Nat
      BY <2>1, ListFacts DEF M!Migrating, M!Current
    <2>3. stmt # 0 /\ at # SchemaAt
      BY <2>1, <2>2
    <2> QED BY <1>0, <2>1, <2>3 DEF M!Migrating
  <1>4. CASE M!Mark
    <2>1. done' = done \/ done' = done \union {Listed[at].name}
      BY <1>4 DEF M!Mark, M!Current
    <2>2. done' \subseteq Names
      BY <1>4, <2>1 DEF M!Mark, M!Migrating, Names
    <2>3. /\ at \in 1 .. M!Last /\ at # SchemaAt /\ at' = at + 1 /\ stmt' = 0
          /\ UNCHANGED <<dialect, tables, old, chosen, lost>>
      BY <1>4 DEF M!Mark, M!Migrating, M!Advance
    <2>4. unmarked' \in BOOLEAN
      <3>1. unmarked' = unmarked \/ unmarked' = TRUE
        BY <1>4 DEF M!Mark
      <3> QED BY <3>1
    <2>5. migrationFaults' \in Nat
      BY <1>4 DEF M!Mark, M!Fault
    <2> QED BY <1>0, <2>2, <2>3, <2>4, <2>5 DEF M!Migrating, Names
  <1>5. CASE M!AutoMigrate
    <2>1. /\ at = SchemaAt /\ UNCHANGED <<dialect, done, chosen, lost, unmarked>>
          /\ tables' \in BOOLEAN /\ old' \subseteq old /\ migrationFaults' \in Nat
          /\ stmt' = 0 /\ at' \in {0, at + 1}
      <3>1. at = SchemaAt /\ UNCHANGED <<dialect, done, chosen, lost, unmarked>>
        BY <1>5 DEF M!AutoMigrate
      <3>2. tables' = TRUE \/ tables' = tables
        BY <1>5 DEF M!AutoMigrate
      <3>3. old' \subseteq old
        BY <1>5 DEF M!AutoMigrate
      <3>4. migrationFaults' = migrationFaults \/ M!Fault
        BY <1>5 DEF M!AutoMigrate
      <3>5. stmt' = 0 /\ at' \in {0, at + 1}
        BY <1>5 DEF M!AutoMigrate, M!Advance
      <3>6. migrationFaults' \in Nat
        BY <3>4 DEF M!Fault
      <3> QED BY <3>1, <3>2, <3>3, <3>5, <3>6
    <2> QED BY <1>0, <2>1
  <1>6. CASE M!Crash
    BY <1>0, <1>6 DEF M!Crash, M!Migrating, M!Fault
  <1>7. CASE M!Choose
    BY <1>0, <1>7 DEF M!Choose, M!Migrating
  <1>8. CASE M!Stop
    BY <1>0, <1>8 DEF M!Stop, M!Migrating
  <1>9. CASE UNCHANGED (M!vars)
    BY <1>9 DEF M!vars, M!Migrating
  <1> QED BY <1>1, <1>2, <1>3, <1>4, <1>5, <1>6, <1>7, <1>8, <1>9 DEF M!Next, M!Run

LEMMA SchemaKept ==
  ASSUME M!ListFits, MigrationTypes, SchemaThere, [M!Next]_(M!vars) PROVE SchemaThere'
  <1> USE DEF SchemaThere
  <1>0. M!Last \in Nat /\ SchemaAt \in 4 .. M!Last /\ at \in 0 .. M!Last + 1
    BY ListFacts DEF MigrationTypes
  <1>1. CASE M!Start \/ M!Crash \/ M!Stop
    BY <1>0, <1>1 DEF M!Start, M!Crash, M!Stop
  <1>2. CASE M!Conditions \/ M!Mark
    <2>1. at # SchemaAt /\ at' \in {at, at + 1} /\ tables' = tables /\ missing' = missing
      BY <1>2 DEF M!Conditions, M!Mark, M!Advance
    <2> QED BY <1>0, <2>1
  <1>3. CASE M!Execute
    <2>1. at \in 1 .. M!Last /\ stmt \in DOMAIN Listed[at].stmts
      BY <1>3 DEF M!Execute, M!Migrating, M!Current
    <2>2. at > SchemaAt => Listed[at].stmts[stmt].frees = {}
      BY <2>1 DEF M!ListFits
    <2>3. at' \in {0, at} /\ tables' = tables
      BY <1>3 DEF M!Execute
    <2>4. missing' \in {missing, missing \union Listed[at].stmts[stmt].frees}
      BY <1>3 DEF M!Execute, M!Current
    <2> QED BY <1>0, <2>1, <2>2, <2>3, <2>4
  <1>4. CASE M!AutoMigrate
    <2>1. at = SchemaAt /\ (at' = 0 \/ (tables' /\ missing' = {}))
      BY <1>4 DEF M!AutoMigrate, M!Advance
    <2> QED BY <1>0, <2>1
  <1>5. CASE M!Choose \/ UNCHANGED (M!vars)
    BY <1>5 DEF M!Choose, M!vars
  <1> QED BY <1>1, <1>2, <1>3, <1>4, <1>5 DEF M!Next, M!Run

\* What an invariant step has to show.
LEMMA OnceBy ==
  ASSUME M!ListFits, MigrationTypes, OnceOnly, lost' => lost,
         \A i \in Setters : Settles(i) => Settles(i)',
         \A i \in Setters : i < at' => i < at \/ Settles(i)',
         chosen' \subseteq chosen \/ \A i \in Setters : Settles(i)',
         \/ stmt' = 0
         \/ \A i \in Setters : i = at' => /\ stmt' \in DOMAIN Listed[i].stmts => chosen' = {}
                                          /\ ~ Listed[i].marks => DropAhead(i)'
  PROVE  OnceOnly'
  <1>1. ~ lost'
    BY DEF OnceOnly
  <1>2. ASSUME NEW i \in Setters, i < at' \/ chosen' # {} PROVE Settles(i)'
    BY <1>2 DEF OnceOnly
  <1>3. ASSUME stmt' = 0, NEW i \in Setters
        PROVE  stmt' \notin DOMAIN Listed[i].stmts /\ (~ Listed[i].marks => DropAhead(i)')
    <2>1. i \in 1 .. M!Last /\ M!SetsFields(i)
      BY DEF Setters
    <2>2. DOMAIN Listed[i].stmts = 1 .. Len(Listed[i].stmts) /\ Len(Listed[i].stmts) \in Nat
      BY <2>1, ListFacts
    <2>3. ~ Listed[i].marks => \E k \in DOMAIN Listed[i].stmts : /\ M!DropsBadges(Listed[i].stmts[k])
                                                         /\ Dialects \ {"sqlite"} \subseteq Listed[i].stmts[k].on
      BY <2>1 DEF M!ListFits
    <2>4. \A k \in DOMAIN Listed[i].stmts : k >= stmt'
      BY <1>3, <2>2
    <2> QED BY <1>3, <2>2, <2>3, <2>4 DEF DropAhead
  <1>4. Setters' = Setters
    BY DEF Setters, M!SetsFields
  <1> QED BY <1>1, <1>2, <1>3, <1>4 DEF OnceOnly

\* What sets a field will not do so again when it did: marks and drops stay.
LEMMA OnceKept ==
  ASSUME M!ListFits, MigrationTypes, OnceOnly, ~ BadgesStay, ~ unmarked', [M!Next]_(M!vars)
  PROVE  OnceOnly'
  <1>0. M!Last \in Nat /\ SchemaAt \in 4 .. M!Last /\ at \in 0 .. M!Last + 1 /\ migrationFaults \in Nat
            /\ dialect \in Dialects
    BY ListFacts DEF MigrationTypes
  <1>2. ASSUME NEW i \in Setters
        PROVE  /\ i \in 1 .. M!Last /\ i # SchemaAt /\ Listed[i].skips = {} /\ ~ Listed[i].kv
               /\ Listed[i].marks \in BOOLEAN
               /\ ~ Listed[i].marks => Listed[i].when = "badges_enabled"
               /\ DOMAIN Listed[i].stmts = 1 .. Len(Listed[i].stmts) /\ Len(Listed[i].stmts) \in Nat
    <2>1. i \in 1 .. M!Last /\ M!SetsFields(i)
      BY DEF Setters
    <2> QED BY <2>1, ListFacts DEF M!ListFits, M!Migration
  <1>3. CASE M!Start \/ M!Crash \/ M!Stop
    <2>1. at' < 2 /\ stmt' = 0 /\ UNCHANGED <<old, done, chosen, lost>>
      BY <1>3 DEF M!Start, M!Crash, M!Stop
    <2>2. \A i \in Setters : Settles(i)' <=> Settles(i)
      BY <2>1 DEF Settles
    <2>3. \A i \in Setters : ~ (i < at')
      BY <1>2, <1>3 DEF M!Start, M!Crash, M!Stop
    <2> QED BY <2>1, <2>2, <2>3, OnceBy
  <1>4. CASE M!Conditions
    <2>1. /\ at \in 1 .. M!Last /\ at # SchemaAt /\ stmt = 0 /\ UNCHANGED <<old, done, chosen, lost>>
          /\ \/ /\ at' = at + 1 /\ stmt' = 0
                /\ \/ dialect \in Listed[at].skips \/ Listed[at].kv
                   \/ Listed[at].marks /\ Listed[at].name \in done
             \/ /\ at' = at /\ ~ (Listed[at].marks /\ Listed[at].name \in done)
                /\ \/ stmt' = 1 /\ (Listed[at].when = "" \/ Listed[at].when \in old)
                   \/ stmt' = Len(Listed[at].stmts) + 1 /\ Listed[at].when \notin old
      BY <1>4 DEF M!Conditions, M!Migrating, M!Advance, M!Current
    <2>2. \A i \in Setters : Settles(i)' <=> Settles(i)
      BY <2>1 DEF Settles
    <2>3. CASE at' = at + 1
      <3>1. ASSUME NEW i \in Setters, i = at PROVE Settles(i)
        <4>1. Listed[i].marks /\ Listed[i].name \in done
          <5>1. at' # at
            BY <1>0, <2>3
          <5>2. dialect \in Listed[i].skips \/ Listed[i].kv \/ (Listed[i].marks /\ Listed[i].name \in done)
            BY <2>1, <3>1, <5>1
          <5> QED BY <1>2, <5>2
        <4> QED BY <4>1 DEF Settles
      <3>2. \A i \in Setters : i < at' => i < at \/ i = at
        BY <1>0, <1>2, <2>3
      <3>3. stmt' = 0
        <4>1. at' # at
          BY <1>0, <2>3
        <4> QED BY <2>1, <4>1
      <3> QED BY <2>1, <2>2, <3>1, <3>2, <3>3, OnceBy
    <2>4. CASE at' = at
      <3>1. ASSUME NEW i \in Setters, i = at
            PROVE  /\ stmt' \in DOMAIN Listed[i].stmts => chosen' = {}
                   /\ ~ Listed[i].marks => DropAhead(i)'
        <4>0. /\ ~ (Listed[i].marks /\ Listed[i].name \in done)
              /\ \/ stmt' = 1 /\ (Listed[i].when = "" \/ Listed[i].when \in old)
                 \/ stmt' = Len(Listed[i].stmts) + 1 /\ Listed[i].when \notin old
          <5>1. at' # at + 1
            BY <1>0, <2>4
          <5> QED BY <2>1, <3>1, <5>1
        <4>1. ASSUME Settles(i) PROVE stmt' \notin DOMAIN Listed[i].stmts
          <5>1. Listed[i].when = "badges_enabled" /\ "badges_enabled" \notin old
            BY <1>2, <4>0, <4>1 DEF Settles
          <5>2. stmt' = Len(Listed[i].stmts) + 1
            BY <4>0, <5>1
          <5> QED BY <1>2, <5>2
        <4>2. ~ Settles(i) => chosen' = {}
          BY <2>1 DEF OnceOnly
        <4>3. ASSUME ~ Listed[i].marks PROVE DropAhead(i)'
          <5>1. Listed[i].when = "badges_enabled" /\ old' = old
            BY <1>2, <2>1, <4>3
          <5>2. CASE "badges_enabled" \in old
            <6>1. stmt' = 1
              BY <4>0, <5>1, <5>2
            <6>2. \A k \in DOMAIN Listed[i].stmts : k >= stmt'
              BY <1>2, <6>1
            <6>3. M!SetsFields(i) /\ i \in 1 .. M!Last
              BY DEF Setters
            <6> QED BY <4>3, <6>2, <6>3 DEF M!ListFits, DropAhead
          <5> QED BY <5>1, <5>2 DEF DropAhead
        <4> QED BY <4>1, <4>2, <4>3
      <3> QED BY <2>1, <2>2, <2>4, <3>1, OnceBy
    <2> QED BY <2>1, <2>3, <2>4
  <1>5. CASE M!Execute
    <2>1. /\ at \in 1 .. M!Last /\ stmt \in DOMAIN Listed[at].stmts /\ done' = done
          /\ old' = old \/ old' = old \ Listed[at].stmts[stmt].drops
          /\ chosen' \subseteq chosen
          /\ lost' = lost \/ lost' = (lost \/ Listed[at].stmts[stmt].sets \intersect chosen # {})
          /\ \/ stmt' = 0 /\ at' = 0
             \/ /\ stmt' = stmt + 1 /\ at' = at
                /\ dialect \in Listed[at].stmts[stmt].on /\ ~ Listed[at].stmts[stmt].soft =>
                      old' = old \ Listed[at].stmts[stmt].drops
      BY <1>5 DEF M!Execute, M!Migrating, M!Current
    <2>2. \A i \in Setters : Settles(i) => Settles(i)'
      BY <2>1 DEF Settles
    <2>3. lost' => lost
      <3>1. CASE at \in Setters
        <4>1. chosen = {}
          BY <2>1, <3>1 DEF OnceOnly
        <4> QED BY <2>1, <4>1
      <3>2. CASE at \notin Setters
        <4>1. Listed[at].stmts[stmt].sets = {}
          BY <2>1, <3>2 DEF Setters, M!SetsFields
        <4> QED BY <2>1, <4>1
      <3> QED BY <3>1, <3>2
    <2>4. \A i \in Setters : i < at' => i < at
      BY <1>0, <1>2, <2>1
    <2>5. CASE stmt' = 0
      BY <2>1, <2>2, <2>3, <2>4, <2>5, OnceBy
    <2>6. ASSUME NEW i \in Setters, i = at', stmt' # 0
          PROVE  /\ stmt' \in DOMAIN Listed[i].stmts => chosen' = {}
                 /\ ~ Listed[i].marks => DropAhead(i)'
      <3>1. /\ i = at /\ stmt \in DOMAIN Listed[i].stmts /\ stmt' = stmt + 1
            /\ dialect \in Listed[i].stmts[stmt].on /\ ~ Listed[i].stmts[stmt].soft =>
                  old' = old \ Listed[i].stmts[stmt].drops
        BY <2>1, <2>6
      <3>2. chosen' = {}
        BY <2>1, <3>1 DEF OnceOnly
      <3>3. ASSUME ~ Listed[i].marks, "badges_enabled" \in old'
            PROVE  \E k \in DOMAIN Listed[i].stmts : /\ k >= stmt' /\ M!DropsBadges(Listed[i].stmts[k])
                                                  /\ Dialects \ {"sqlite"} \subseteq Listed[i].stmts[k].on
        <4>1. "badges_enabled" \in old /\ dialect # "sqlite"
          BY <2>1, <3>3 DEF BadgesStay
        <4>2. PICK k \in DOMAIN Listed[i].stmts : /\ k >= stmt /\ M!DropsBadges(Listed[i].stmts[k])
                                               /\ Dialects \ {"sqlite"} \subseteq Listed[i].stmts[k].on
          BY <3>1, <3>3, <4>1 DEF OnceOnly, DropAhead
        <4>3. k # stmt
          <5>1. dialect \in Listed[i].stmts[k].on
            BY <1>0, <4>1, <4>2
          <5>2. ~ Listed[i].stmts[k].soft
            BY <1>2, <4>2 DEF M!ListFits
          <5>3. k = stmt => "badges_enabled" \notin old'
            BY <3>1, <4>2, <5>1, <5>2 DEF M!DropsBadges
          <5> QED BY <3>3, <5>3
        <4>4. k >= stmt'
          BY <1>2, <3>1, <4>2, <4>3
        <4> QED BY <4>2, <4>4
      <3> QED BY <3>2, <3>3 DEF DropAhead
    <2> QED BY <2>1, <2>2, <2>3, <2>4, <2>5, <2>6, OnceBy
  <1>6. CASE M!Mark
    <2>1. /\ at \in 1 .. M!Last /\ at # SchemaAt /\ stmt = Len(Listed[at].stmts) + 1 /\ at' = at + 1
                 /\ stmt' = 0
          /\ done' = (IF Listed[at].marks THEN done \union {Listed[at].name} ELSE done)
          /\ UNCHANGED <<old, chosen, lost>>
      BY <1>6 DEF M!Mark, M!Migrating, M!Advance, M!Current
    <2>2. \A i \in Setters : Settles(i) => Settles(i)'
      BY <2>1 DEF Settles
    <2>3. ASSUME NEW i \in Setters, i = at PROVE Settles(i)'
      <3>1. CASE Listed[i].marks
        BY <2>1, <2>3, <3>1 DEF Settles
      <3>2. CASE ~ Listed[i].marks
        <4>1. \A k \in DOMAIN Listed[i].stmts : ~ (k >= stmt)
          BY <1>2, <2>1, <2>3
        <4>2. "badges_enabled" \notin old
          BY <2>3, <3>2, <4>1 DEF OnceOnly, DropAhead
        <4> QED BY <2>1, <3>2, <4>2 DEF Settles
      <3> QED BY <3>1, <3>2
    <2>4. \A i \in Setters : i < at' => i < at \/ i = at
      BY <1>0, <1>2, <2>1
    <2> QED BY <2>1, <2>2, <2>3, <2>4, OnceBy
  <1>7. CASE M!AutoMigrate
    <2>1. at = SchemaAt /\ at' \in {0, at + 1} /\ stmt' = 0 /\ old' \subseteq old /\ UNCHANGED <<done, chosen, lost>>
      BY <1>7 DEF M!AutoMigrate, M!Advance
    <2>2. \A i \in Setters : Settles(i) => Settles(i)'
      BY <2>1 DEF Settles
    <2>3. \A i \in Setters : i < at' => i < at
      BY <1>0, <1>2, <2>1
    <2> QED BY <2>1, <2>2, <2>3, OnceBy
  <1>8. CASE M!Choose
    <2>1. at = M!Last + 1 /\ stmt' = stmt /\ UNCHANGED <<old, done, at, lost>>
      BY <1>8 DEF M!Choose
    <2>2. \A i \in Setters : (Settles(i)' <=> Settles(i)) /\ i < at /\ i # at'
      BY <1>0, <1>2, <2>1 DEF Settles
    <2>3. \A i \in Setters : Settles(i)
      BY <2>2 DEF OnceOnly
    <2> QED BY <2>1, <2>2, <2>3, OnceBy
  <1>9. CASE UNCHANGED (M!vars)
    <2>1. UNCHANGED <<old, done, chosen, lost, at, stmt>>
      BY <1>9 DEF M!vars
    <2>2. \A i \in Setters : (Settles(i)' <=> Settles(i)) /\ (DropAhead(i)' <=> DropAhead(i))
      BY <2>1 DEF Settles, DropAhead
    <2>3. \A i \in Setters : i = at' => /\ stmt' \in DOMAIN Listed[i].stmts => chosen' = {}
                                        /\ ~ Listed[i].marks => DropAhead(i)'
      BY <2>1, <2>2 DEF OnceOnly
    <2> QED BY <2>1, <2>2, <2>3, OnceBy
  <1> QED BY <1>3, <1>4, <1>5, <1>6, <1>7, <1>8, <1>9 DEF M!Next, M!Run

LEMMA MigrationInvKept == ASSUME M!ListFits, MigrationInv, [M!Next]_(M!vars) PROVE MigrationInv'
  <1>1. MigrationTypes' /\ SchemaThere'
    BY MigrationTypesKept, SchemaKept DEF MigrationInv
  <1>2. unmarked' \in {unmarked, TRUE}
    BY DEF M!Next, M!Run, M!Start, M!Conditions, M!Execute, M!Mark, M!AutoMigrate, M!Crash, M!Choose, M!Stop,
         M!vars
  <1>3. BadgesStay => BadgesStay'
    <2>1. dialect' = dialect
      BY DEF M!Next, M!Run, M!Start, M!Conditions, M!Execute, M!Mark, M!AutoMigrate, M!Crash, M!Choose, M!Stop,
           M!vars
    <2>2. CASE M!Execute
      <3>1. /\ at \in 1 .. M!Last /\ stmt \in DOMAIN Listed[at].stmts
            /\ old' = old
                   \/ (dialect \in Listed[at].stmts[stmt].on /\ old' = old \ Listed[at].stmts[stmt].drops)
        BY <2>2 DEF M!Execute, M!Migrating, M!Current
      <3>2. M!DropsBadges(Listed[at].stmts[stmt]) => "sqlite" \notin Listed[at].stmts[stmt].on
        BY <3>1 DEF M!ListFits
      <3> QED BY <2>1, <3>1, <3>2 DEF BadgesStay, M!DropsBadges
    <2>3. CASE ~ M!Execute
      <3>1. old' = old \/ old' = old \ {"no name column"}
        BY <2>3 DEF M!Next, M!Run, M!Start, M!Conditions, M!Mark, M!AutoMigrate, M!Crash, M!Choose, M!Stop,
             M!vars
      <3> QED BY <2>1, <3>1 DEF BadgesStay
    <2> QED BY <2>2, <2>3
  <1>4. ASSUME ~ unmarked', ~ BadgesStay' PROVE OnceOnly'
    <2>1. ~ unmarked
      BY <1>2, <1>4
    <2> QED BY <1>3, <1>4, <2>1, OnceKept DEF MigrationInv
  <1> QED BY <1>1, <1>4 DEF MigrationInv

\* A version that left an old database had migrations that are listed.
LEMMA OldAtFirst ==
  ASSUME M!ListFits, M!Init PROVE old \subseteq OldParts /\ done \subseteq Names
  <1> DEFINE S == {Listed[i] : i \in 1 .. M!Last}
  <1>0. M!Last \in Nat /\ SchemaAt \in 4 .. M!Last /\ M!Last \in Int /\ SchemaAt \in Int
    BY ListFacts
  <1>1. \A i \in 1 .. M!Last : Listed[i] \in S
    OBVIOUS
  <1>2. M!Pre \in Seq(S) /\ Len(M!Pre) = SchemaAt - 1
    <2>1. \A i \in 1 .. SchemaAt - 1 : Listed[i] \in S
      BY <1>0, <1>1
    <2> HIDE DEF S
    <2> QED BY <1>0, <2>1, SubSeqProperties DEF M!Pre
  <1>3. M!Post \in Seq(S) /\ Len(M!Post) = M!Last - SchemaAt
    <2>1. \A i \in SchemaAt + 1 .. M!Last : Listed[i] \in S
      BY <1>0, <1>1
    <2>2. Len(M!Post) = IF SchemaAt + 1 <= M!Last THEN M!Last - (SchemaAt + 1) + 1 ELSE 0
      <3> HIDE DEF S
      <3> QED BY <1>0, <2>1, SubSeqProperties DEF M!Post
    <2>3. M!Post \in Seq(S)
      <3> HIDE DEF S
      <3> QED BY <1>0, <2>1, SubSeqProperties DEF M!Post
    <2> QED BY <1>0, <2>2, <2>3
  <1>4. ASSUME NEW s \in Seq(S), NEW m \in Nat, NEW n \in Nat, m >= 1, n <= Len(s)
        PROVE  SubSeq(s, m, n) \in Seq(S)
    <2> HIDE DEF S
    <2>1. Len(s) \in Nat /\ \A i \in 1 .. Len(s) : s[i] \in S
      BY LenProperties, ElementOfSeq
    <2>2. \A i \in m .. n : s[i] \in S
      BY <1>4, <2>1
    <2> QED BY <2>2, SubSeqProperties
  <1>5. ASSUME NEW s \in Seq(S)
        PROVE  M!Removes(s) \subseteq M!Removes(Listed) /\ \A i \in DOMAIN s : s[i].name \in Names
    <2>1. \A i \in DOMAIN s : \E j \in 1 .. M!Last : s[i] = Listed[j]
      <3>1. \A i \in DOMAIN s : s[i] \in S
        <4> HIDE DEF S
        <4> QED BY LenProperties, ElementOfSeq
      <3> QED BY <3>1
    <2>2. \A i \in DOMAIN s : s[i].name \in Names
      BY <2>1 DEF Names
    <2>3. ASSUME NEW x \in M!Removes(s) PROVE x \in M!Removes(Listed)
      <3>1. PICK i \in DOMAIN s : \E k \in DOMAIN s[i].stmts : x \in s[i].stmts[k].drops
        BY DEF M!Removes
      <3>2. PICK j \in 1 .. M!Last : s[i] = Listed[j]
        BY <2>1
      <3>3. j \in DOMAIN Listed
        BY ListFacts
      <3> QED BY <3>1, <3>2, <3>3 DEF M!Removes
    <2> QED BY <2>2, <2>3
  <1>6. CASE old = {} /\ done = {}
    BY <1>6
  <1>7. CASE ~ (old = {} /\ done = {})
    <2>1. PICK a \in Ages :
            LET p     == IF a = 0 THEN 0 ELSE IF a < 12 THEN 3 ELSE Len(M!Pre)
                seen  == SubSeq(M!Pre, 1, p) \o SubSeq(M!Post, 1, a)
                later == SubSeq(M!Pre, p + 1, Len(M!Pre)) \o SubSeq(M!Post, a + 1, Len(M!Post))
            IN  /\ done \subseteq {seen[i].name : i \in DOMAIN seen}
                /\ old \subseteq M!Removes(later) \union {"badges_enabled"} \union {"no name column"}
      BY <1>7 DEF M!Init
    <2> DEFINE p     == IF a = 0 THEN 0 ELSE IF a < 12 THEN 3 ELSE Len(M!Pre)
               seen  == SubSeq(M!Pre, 1, p) \o SubSeq(M!Post, 1, a)
               later == SubSeq(M!Pre, p + 1, Len(M!Pre)) \o SubSeq(M!Post, a + 1, Len(M!Post))
    <2>2. a \in 0 .. M!Last - SchemaAt
      BY DEF M!ListFits
    <2>3. p \in 0 .. Len(M!Pre)
      BY <1>0, <1>2, <2>2
    <2>4. seen \in Seq(S) /\ later \in Seq(S)
      <3> HIDE DEF S, p
      <3>1. SubSeq(M!Pre, 1, p) \in Seq(S) /\ SubSeq(M!Pre, p + 1, Len(M!Pre)) \in Seq(S)
        BY <1>0, <1>2, <1>4, <2>3
      <3>2. SubSeq(M!Post, 1, a) \in Seq(S) /\ SubSeq(M!Post, a + 1, Len(M!Post)) \in Seq(S)
        BY <1>0, <1>3, <1>4, <2>2
      <3> QED BY <3>1, <3>2, ConcatProperties
    <2>5. /\ done \subseteq {seen[i].name : i \in DOMAIN seen}
          /\ old \subseteq M!Removes(later) \union {"badges_enabled"} \union {"no name column"}
      BY <2>1
    <2> HIDE DEF seen, later, p, S
    <2>6. M!Removes(later) \subseteq M!Removes(Listed) /\ \A i \in DOMAIN seen : seen[i].name \in Names
      BY <1>5, <2>4
    <2>7. "badges_enabled" \in M!Removes(Listed)
      BY DEF M!ListFits
    <2> QED BY <2>5, <2>6, <2>7 DEF OldParts
  <1> QED BY <1>6, <1>7

LEMMA MigrationInvInit == ASSUME M!ListFits, M!Init PROVE MigrationInv
  <1>0. M!Last \in Nat /\ SchemaAt \in 4 .. M!Last
    BY ListFacts
  <1>1. /\ dialect \in Dialects /\ tables \in BOOLEAN /\ at = 0 /\ stmt = 0 /\ chosen = {} /\ lost = FALSE
        /\ unmarked = FALSE /\ migrationFaults = 0
    BY DEF M!Init
  <1>2. MigrationTypes
    <2>1. at \in 0 .. M!Last + 1 /\ stmt \in Nat /\ migrationFaults \in Nat
      BY <1>0, <1>1
    <2>2. chosen \subseteq M!Fields /\ lost \in BOOLEAN /\ unmarked \in BOOLEAN
      BY <1>1
    <2> QED BY <1>1, <2>1, <2>2, OldAtFirst DEF MigrationTypes
  <1>3. SchemaThere
    BY <1>0, <1>1 DEF SchemaThere
  <1>4. \A i \in Setters : i \in 1 .. M!Last
    BY DEF Setters
  <1>5. OnceOnly
    <2>1. \A i \in Setters : ~ (i < at) /\ i # at
      BY <1>0, <1>1, <1>4
    <2> QED BY <1>1, <2>1 DEF OnceOnly
  <1> QED BY <1>2, <1>3, <1>5 DEF MigrationInv

LEMMA MigrationInvariance == ASSUME M!ListFits PROVE M!Spec => []MigrationInv
  BY MigrationInvInit, MigrationInvKept, PTL DEF M!Spec

\* What is left of old versions is what there was to remove, marks are of migrations, and no
\* statement is due while none runs, whatever fails and wherever a start is cut short.
THEOREM MigrationsTyped == ASSUME M!ListFits PROVE M!Spec => []M!TypeOK
  <1>1. MigrationInv => M!TypeOK
    BY DEF MigrationInv, MigrationTypes, M!TypeOK, OldParts, Names
  <1> QED BY <1>1, MigrationInvariance, PTL

\* Wherever starts failed or were cut short, and whatever version the database is of: when
\* the server serves there is a schema, and nothing that a migration dropped to have it
\* created anew is missing.
THEOREM SchemaServed == ASSUME M!ListFits PROVE M!Spec => []ServesWithSchema
  <1>1. MigrationInv => ServesWithSchema
    BY ListFacts DEF MigrationInv, SchemaThere, ServesWithSchema
  <1> QED BY <1>1, MigrationInvariance, PTL

\* However often the server is started: what users have set since a version served no start
\* sets again, but where badges_enabled stays (SQLite) or a mark could not be stored or looked
\* up, whatever else fails and wherever starts are cut short.
THEOREM ChoicesKept == ASSUME M!ListFits PROVE M!Spec => []ChoicesStay
  <1>1. MigrationInv => ChoicesStay
    BY DEF MigrationInv, MigrationTypes, OnceOnly, BadgesStay, ChoicesStay
  <1> QED BY <1>1, MigrationInvariance, PTL
=============================================================================
