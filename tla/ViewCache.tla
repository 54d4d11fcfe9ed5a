----------------------------- MODULE ViewCache ------------------------------
(***************************************************************************)
(* What the server keeps in memory of a user's settings and summaries, and *)
(* how changes get there: the cache of aliased summaries (services/        *)
(* summary.go), the lists of labels and language mappings (services/       *)
(* project_label.go, language_mapping.go), the map of aliases (services/   *)
(* alias.go), and the handlers of routes/settings.go and the aggregation   *)
(* that change the tables.                                                 *)
(*                                                                         *)
(* One user.  Each access to a table or a cache is a step.  The content of *)
(* a table is the set of its rows, of summaries only its version.          *)
(***************************************************************************)
EXTENDS Integers, FiniteSets

CONSTANTS
    Readers,     \* requests and jobs that want summaries, or the language mappings
    Rows,        \* rows that the tables of aliases, labels and mappings may have
    Nothing,     \* there is no entry (none of the values)
    MaxChanges,  \* bound: changes
    MaxFaults    \* bound: failing queries

Lists == {"labels", "languages"}    \* kept alike: a list per user, for 24 hours

VARIABLES
    overlap,    \* may readers overlap with changes, and queries fail? (chosen at the start)
    table,      \* the tables: aliases, labels, languages
    version,    \* of the summaries' table
    aliasMap,   \* userAliases of the user
    cache,      \* the lists' caches
    summary,    \* a summary in the cache: [aliases, labels, version], if it is there
    reloads,    \* goroutines MayInitializeUser: before their query, or with its result
    events,     \* label events the summary service has yet to receive
    reader,     \* the readers
    writer,     \* the handler that changes something
    changes, faults

vars == <<overlap, table, version, aliasMap, cache, summary, reloads, events, reader, writer,
          changes, faults>>

Resting == [pc |-> "idle", list |-> Nothing, aliases |-> Nothing, labels |-> Nothing, version |-> 0]
Ready   == [pc |-> "idle", list |-> "labels", ids |-> {}]

Init ==
    /\ overlap \in BOOLEAN
    /\ table = [t \in Lists \union {"aliases"} |-> {}]
    /\ version = 0
    /\ aliasMap = Nothing
    /\ cache = [l \in Lists |-> Nothing]
    /\ summary = Nothing
    /\ reloads = {} /\ events = 0
    /\ reader = [r \in Readers |-> Resting]
    /\ writer = Ready
    /\ changes = 0 /\ faults = 0

At(r, pc)    == reader[r].pc = pc
To(r, pc)    == reader' = [reader EXCEPT ![r].pc = pc]
Fault        == overlap /\ faults < MaxFaults /\ faults' = faults + 1
MayRead      == overlap \/ writer.pc = "idle"
MayWrite     == overlap \/ \A r \in Readers : At(r, "idle")

----------------------------------------------------------------------------
\* Aliased

\* no summary in the cache, or the request asks for a new one: the map of aliases is
\* loaded first, even if it is there
\* mutant: only if it is not there
InitializeUserOnce(r) ==
    /\ At(r, "idle") /\ MayRead
    /\ reader' = [reader EXCEPT ![r].pc = IF aliasMap = Nothing THEN "store" ELSE "retrieve",
                                ![r].aliases = table.aliases]
    /\ UNCHANGED <<overlap, table, version, aliasMap, cache, summary, reloads, events, writer, changes, faults>>

InitializeUser(r) ==
    /\ At(r, "idle") /\ MayRead
    /\ reader' = [reader EXCEPT ![r].pc = "store", ![r].aliases = table.aliases]
    /\ UNCHANGED <<overlap, table, version, aliasMap, cache, summary, reloads, events, writer, changes, faults>>

StoreAliases(r) ==
    /\ At(r, "store")
    /\ aliasMap' = reader[r].aliases
    /\ To(r, "retrieve")
    /\ UNCHANGED <<overlap, table, version, cache, summary, reloads, events, writer, changes, faults>>

\* Retrieve, or a failing query, which ends the request
RetrieveRows(r) ==
    /\ At(r, "retrieve")
    /\ \/ reader' = [reader EXCEPT ![r].pc = "resolve", ![r].version = version] /\ faults' = faults
       \/ Fault /\ reader' = [reader EXCEPT ![r] = Resting]
    /\ UNCHANGED <<overlap, table, version, aliasMap, cache, summary, reloads, events, writer, changes>>

WithResolvedAliases(r) ==
    /\ At(r, "resolve")
    /\ reader' = [reader EXCEPT ![r].pc = "list", ![r].list = "labels", ![r].aliases = aliasMap]
    /\ UNCHANGED <<overlap, table, version, aliasMap, cache, summary, reloads, events, writer, changes, faults>>

\* a heartbeat of the user is augmented with his language mappings
Augment(r) ==
    /\ At(r, "idle") /\ MayRead
    /\ reader' = [reader EXCEPT ![r].pc = "list", ![r].list = "languages"]
    /\ UNCHANGED <<overlap, table, version, aliasMap, cache, summary, reloads, events, writer, changes, faults>>

\* GetByUser: from the cache, or by a query whose result is then cached; a summary
\* does without labels when the query fails
GetByUser(r) ==
    LET l == reader[r].list
        use(found) == [reader EXCEPT ![r] =
            IF l = "labels" THEN [@ EXCEPT !.pc = "put", !.labels = found] ELSE Resting]
    IN /\ At(r, "list")
       /\ \/ cache[l] # Nothing /\ reader' = use(cache[l]) /\ faults' = faults
          \/ /\ cache[l] = Nothing
             /\ reader' = [reader EXCEPT ![r].pc = "fill", ![r].labels = table[l]]
             /\ faults' = faults
          \/ cache[l] = Nothing /\ Fault /\ reader' = use({})
       /\ UNCHANGED <<overlap, table, version, aliasMap, cache, summary, reloads, events, writer, changes>>

FillList(r) ==
    /\ At(r, "fill")
    /\ cache' = [cache EXCEPT ![reader[r].list] = reader[r].labels]
    /\ reader' = [reader EXCEPT ![r] = IF @.list = "labels" THEN [@ EXCEPT !.pc = "put"] ELSE Resting]
    /\ UNCHANGED <<overlap, table, version, aliasMap, summary, reloads, events, writer, changes, faults>>

PutSummary(r) ==
    /\ At(r, "put")
    /\ summary' = [aliases |-> reader[r].aliases, labels |-> reader[r].labels,
                   version |-> reader[r].version]
    /\ reader' = [reader EXCEPT ![r] = Resting]
    /\ UNCHANGED <<overlap, table, version, aliasMap, cache, reloads, events, writer, changes, faults>>

----------------------------------------------------------------------------
\* Changes.  A handler whose query fails changes nothing and answers an error.

Change ==
    /\ writer.pc = "idle" /\ MayWrite /\ changes < MaxChanges
    /\ changes' = changes + 1

Others == <<overlap, version, aliasMap, summary, reloads, reader, faults>>

\* actionAddLabel, actionDeleteLabel (of a label the list has), the same for languages:
\* table, then cache, then (labels only) event
ChangeList ==
    /\ Change
    /\ \E l \in Lists, x \in Rows :
          /\ \/ x \notin table[l] /\ table' = [table EXCEPT ![l] = @ \union {x}]
             \/ x \in table[l] /\ table' = [table EXCEPT ![l] = @ \ {x}]
          /\ writer' = [Ready EXCEPT !.pc = "forget", !.list = l]
    /\ UNCHANGED <<overlap, version, aliasMap, cache, summary, reloads, events, reader, faults>>

ForgetList ==
    /\ writer.pc = "forget"
    /\ cache' = [cache EXCEPT ![writer.list] = Nothing]
    /\ writer' = IF writer.list = "labels" THEN [writer EXCEPT !.pc = "notify"] ELSE Ready
    /\ UNCHANGED <<table, events, changes>> /\ UNCHANGED Others

NotifyUpdate ==
    /\ writer.pc = "notify"
    /\ events' = events + 1
    /\ writer' = Ready
    /\ UNCHANGED <<table, cache, changes>> /\ UNCHANGED Others

\* the subscription of the summary service
InvalidateOnEvent ==
    /\ events > 0 /\ events' = events - 1
    /\ summary' = Nothing
    /\ UNCHANGED <<overlap, table, version, aliasMap, cache, reloads, reader, writer, changes, faults>>

\* actionAddAlias and Create: table, then the map if it is there, then a reload
AddAlias ==
    /\ Change
    /\ \E a \in Rows \ table.aliases :
          /\ table' = [table EXCEPT !.aliases = @ \union {a}]
          /\ writer' = [Ready EXCEPT !.pc = "append", !.ids = {a}]
    /\ UNCHANGED <<cache, events>> /\ UNCHANGED Others

\* actionDeleteAlias: the ids are the map's, which is loaded if it is not there
FindAliases ==
    /\ Change
    /\ LET known == IF aliasMap = Nothing THEN table.aliases ELSE aliasMap
       IN /\ aliasMap' = known
          /\ \E a \in Rows : writer' = [Ready EXCEPT !.pc = "delete", !.ids = {a} \intersect known]
    /\ UNCHANGED <<overlap, table, version, cache, summary, reloads, events, reader, faults>>

DeleteMulti ==
    /\ writer.pc = "delete"
    /\ table' = [table EXCEPT !.aliases = @ \ writer.ids]
    /\ writer' = [writer EXCEPT !.pc = "remove"]
    /\ UNCHANGED <<cache, events, changes>> /\ UNCHANGED Others

UpdateCache ==
    /\ writer.pc \in {"append", "remove"}
    /\ aliasMap' = IF aliasMap = Nothing THEN Nothing
                   ELSE IF writer.pc = "append" THEN aliasMap \union writer.ids
                   ELSE aliasMap \ writer.ids
    /\ reloads' = reloads \union {[n |-> changes, got |-> Nothing]}
    /\ writer' = Ready
    /\ UNCHANGED <<overlap, table, version, cache, summary, events, reader, changes, faults>>

\* the goroutine MayInitializeUser: its query, then the map
ReloadQuery ==
    /\ \E g \in reloads : g.got = Nothing
          /\ reloads' = (reloads \ {g}) \union {[g EXCEPT !.got = table.aliases]}
    /\ UNCHANGED <<overlap, table, version, aliasMap, cache, summary, events, reader, writer, changes, faults>>

ReloadStore ==
    /\ \E g \in reloads : g.got # Nothing /\ aliasMap' = g.got /\ reloads' = reloads \ {g}
    /\ UNCHANGED <<overlap, table, version, cache, summary, events, reader, writer, changes, faults>>

\* Insert, DeleteByUser and DeleteByUserBefore of the summary service: the cache is
\* emptied before the table changes
\* mutant: it is not emptied
KeepUserCache ==
    /\ Change
    /\ writer' = [Ready EXCEPT !.pc = "rows"]
    /\ UNCHANGED <<overlap, table, version, aliasMap, cache, reloads, events, reader, faults, summary>>

InvalidateUserCache ==
    /\ Change
    /\ summary' = Nothing
    /\ writer' = [Ready EXCEPT !.pc = "rows"]
    /\ UNCHANGED <<overlap, table, version, aliasMap, cache, reloads, events, reader, faults>>

ChangeRows ==
    /\ writer.pc = "rows"
    /\ version' = version + 1
    /\ writer' = Ready
    /\ UNCHANGED <<overlap, table, aliasMap, cache, summary, reloads, events, reader, changes, faults>>

----------------------------------------------------------------------------
\* entries of go-cache end after 24 hours; the map of aliases has no such end
ExpireSummary ==
    /\ summary # Nothing /\ summary' = Nothing
    /\ UNCHANGED <<overlap, table, version, aliasMap, cache, reloads, events, reader, writer, changes, faults>>

ExpireList(l) ==
    /\ cache[l] # Nothing /\ cache' = [cache EXCEPT ![l] = Nothing]
    /\ UNCHANGED <<overlap, table, version, aliasMap, summary, reloads, events, reader, writer, changes, faults>>

ReadOn(r) ==
    \/ StoreAliases(r) \/ RetrieveRows(r) \/ WithResolvedAliases(r)
    \/ GetByUser(r) \/ FillList(r) \/ PutSummary(r)

Write  == ForgetList \/ NotifyUpdate \/ DeleteMulti \/ UpdateCache \/ ChangeRows
Serve  == ReloadQuery \/ ReloadStore \/ InvalidateOnEvent
Begin  == ChangeList \/ AddAlias \/ FindAliases \/ InvalidateUserCache

Next ==
    \/ \E r \in Readers : InitializeUser(r) \/ Augment(r) \/ ReadOn(r)
    \/ Write \/ Serve \/ Begin \/ ExpireSummary \/ \E l \in Lists : ExpireList(l)

Spec == Init /\ [][Next]_vars

\* What runs goes on, entries expire, and summaries keep being asked for: the hourly
\* job that counts the total time asks for every user's (services/misc.go).
FairSpec ==
    /\ Spec
    /\ WF_vars(Write) /\ WF_vars(Serve) /\ WF_vars(ExpireSummary)
    /\ \A l \in Lists : WF_vars(ExpireList(l))
    /\ \A r \in Readers : WF_vars(ReadOn(r)) /\ SF_vars(InitializeUser(r))

----------------------------------------------------------------------------
\* Properties

Contents == SUBSET Rows

TypeOK ==
    /\ \A t \in DOMAIN table : table[t] \in Contents
    /\ aliasMap \in Contents \union {Nothing}
    /\ \A l \in Lists : cache[l] \in Contents \union {Nothing}
    /\ events \in 0 .. changes /\ version \in 0 .. changes
    /\ \A g \in reloads : g.n \in 1 .. changes

Quiet == writer.pc = "idle" /\ events = 0 /\ \A r \in Readers : At(r, "idle")

\* As long as no reader overlaps with a change and no query fails, the caches never outlive
\* a change: a cached summary has the labels and the rows of the tables, and the cached
\* lists are the tables'.
CachedIsCurrent ==
    (~ overlap /\ Quiet) =>
        /\ summary # Nothing => summary.labels = table.labels /\ summary.version = version
        /\ \A l \in Lists : cache[l] \in {Nothing, table[l]}

Current ==
    /\ aliasMap = table.aliases
    /\ \A l \in Lists : cache[l] \in {Nothing, table[l]}
    /\ summary \in {Nothing, [aliases |-> table.aliases, labels |-> table.labels, version |-> version]}

\* However readers, changes and reloads overtook each other, when there are no more
\* changes (nor failing queries) everything in memory becomes what the tables say, the
\* map of aliases too, which never expires and which a reload that was overtaken may
\* have set back.
ViewsCatchUp == <>[]Current
============================================================================
