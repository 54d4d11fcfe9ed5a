------------------------------- MODULE Ingest -------------------------------
(***************************************************************************)
(* Heartbeats on their way into the database and what is kept in memory    *)
(* about them: routes/api/heartbeat.go, services/heartbeat.go with its     *)
(* caches of the count, of the set of projects and of the projects' stats, *)
(* and repositories/heartbeat.go.                                          *)
(*                                                                         *)
(* One user.  A heartbeat is known by its hash, of what it says only the   *)
(* project matters here; the other entity sets are kept as that of         *)
(* projects, the count of all users' heartbeats as the user's.  Everything *)
(* the code starts in a goroutine is a step of its own.                    *)
(***************************************************************************)
EXTENDS Integers, FiniteSets

CONSTANTS
    MaxPosts,   \* bound: requests with heartbeats, numbered as they arrive
    Beats,      \* hashes
    Project(_), \* a heartbeat's project, "" if it has none
    Counted,    \* hashes of heartbeats with a language and older than today
    MaxReads, MaxTroubles   \* bounds: reads that miss; deletions and failing inserts

VARIABLES
    overlap,    \* may reads overlap with posts and deletions? (chosen at the start)
    table,      \* hashes of the rows
    post,       \* the requests
    updates,    \* goroutines updateEntityUserCache: the projects
    notices,    \* goroutines notifyBatch and events they published: [by, hash]
    count,      \* cached count, -1 if there is none
    entities,   \* cached set of projects
    unique,     \* cached "unique_projects", of which the stats are invalidated
    stats,      \* cached project stats until today, of all projects: those they are about
    reader,     \* a reader of the count, the projects or the stats
    populating, \* goroutines populateUniqueUserProjects: "look" or "set", with the projects found
    flushing,   \* goroutines that empty the cache
    reads, deletes, faults

vars == <<overlap, table, post, updates, notices, count, entities, unique, stats, reader,
          populating, flushing, reads, deletes, faults>>

NoSet     == {"no set"}              \* there is no entry (no project has this name)
Resting   == [pc |-> "idle", of |-> "count", n |-> -1, found |-> {}]
Projects(hashes) == {Project(h) : h \in hashes}
Named(S)  == S \ {""}

\* What the query of the stats finds: it takes no heartbeat of today, nor one without a
\* language.  (A page of the list has an entry of its own, dropped with all others.)
InStats(hashes) == Named(Projects(hashes \intersect Counted))

\* The projects with none but counted heartbeats.
WhollyCounted(hashes) == InStats(hashes) \ Projects(hashes \ Counted)

Posts == 1 .. MaxPosts

Init ==
    /\ overlap \in BOOLEAN
    /\ table = {}
    /\ post = [p \in Posts |-> [pc |-> "idle", hashes |-> {}]]
    /\ updates = {} /\ notices = {}
    /\ count = -1
    /\ entities = NoSet /\ unique = NoSet /\ stats = NoSet
    /\ reader = Resting
    /\ populating = NoSet /\ flushing = 0
    /\ reads = 0 /\ deletes = 0 /\ faults = 0

Idle(p)  == post[p].pc = "idle"
ReadsEnd == reader.pc = "idle" /\ populating = NoSet
PostsEnd == (\A p \in Posts : post[p].pc # "insert") /\ updates = {} /\ notices = {} /\ flushing = 0

----------------------------------------------------------------------------
\* Posts

\* a request is refused with 400 as a whole if one heartbeat is not valid or not timely;
\* else the sets are updated, in goroutines, before anything is inserted
Post(p) ==
    /\ Idle(p) /\ (p > 1 => ~ Idle(p - 1)) /\ (overlap \/ (ReadsEnd /\ flushing = 0))
    /\ \E hashes \in (SUBSET Beats) \ {{}} :
          /\ post' = [post EXCEPT ![p] = [pc |-> "insert", hashes |-> hashes]]
          /\ updates' = updates \union Projects(hashes)
    /\ UNCHANGED <<overlap, table, notices, count, entities, unique, stats, reader, populating,
                   flushing, reads, deletes, faults>>

\* rows with a hash that is there are ignored, but everybody is told of all of them
InsertBatch(p) ==
    /\ post[p].pc = "insert"
    /\ \/ /\ table' = table \union post[p].hashes
          /\ notices' = notices \union {[by |-> p, hash |-> h] : h \in post[p].hashes}
          /\ post' = [post EXCEPT ![p] = [pc |-> "done", hashes |-> {}]]
          /\ faults' = faults
       \/ /\ faults + deletes < MaxTroubles /\ faults' = faults + 1
          /\ post' = [post EXCEPT ![p] = [pc |-> "done", hashes |-> {}]]
          /\ UNCHANGED <<table, notices>>
    /\ UNCHANGED <<overlap, updates, count, entities, unique, stats, reader, populating, flushing,
                   reads, deletes>>

\* mutant: a set that is there stays as it is
UpdateEntityNever(name) ==
    /\ name \in updates /\ updates' = updates \ {name}
    /\ UNCHANGED <<entities, overlap, table, post, notices, count, unique, stats, reader, populating,
                   flushing, reads, deletes, faults>>

\* updateEntityUserCache: a set that is there gets the name, also an empty one
UpdateEntity(name) ==
    /\ name \in updates /\ updates' = updates \ {name}
    /\ entities' = IF entities = NoSet THEN NoSet ELSE entities \union {name}
    /\ UNCHANGED <<overlap, table, post, notices, count, unique, stats, reader, populating, flushing,
                   reads, deletes, faults>>

\* the subscription: the count goes up by one; the stats are dropped for a new project
OnHeartbeat ==
    /\ \E e \in notices :
          LET new == unique # NoSet /\ Project(e.hash) \notin unique
          IN /\ notices' = notices \ {e}
             /\ count' = IF count = -1 THEN -1 ELSE count + 1
             /\ stats' = IF new THEN NoSet ELSE stats
             /\ populating' = IF new /\ stats # NoSet /\ populating = NoSet THEN {} ELSE populating
    /\ UNCHANGED <<overlap, table, post, updates, entities, unique, reader, flushing, reads, deletes, faults>>

----------------------------------------------------------------------------
\* Reads that miss the cache

Miss(what) ==
    CASE what = "count"    -> count = -1
      [] what = "entities" -> entities = NoSet
      [] OTHER             -> stats = NoSet

\* the query of Count, GetEntitySetByUser or GetUserProjectStats
ReadQuery ==
    /\ reader.pc = "idle" /\ (overlap \/ PostsEnd) /\ reads < MaxReads
    /\ \E what \in {"count", "entities", "stats"} :
          /\ Miss(what)
          /\ reader' = [pc |-> "put", of |-> what, n |-> Cardinality(table),
                        found |-> IF what = "stats" THEN InStats(table) ELSE Named(Projects(table))]
    /\ reads' = reads + 1
    /\ UNCHANGED <<overlap, table, post, updates, notices, count, entities, unique, stats, populating,
                   flushing, deletes, faults>>

\* the result goes into the cache; after the stats the unique projects are wanted
ReadPut ==
    /\ reader.pc = "put"
    /\ count'    = IF reader.of = "count" THEN reader.n ELSE count
    /\ entities' = IF reader.of = "entities" THEN reader.found ELSE entities
    /\ stats'    = IF reader.of = "stats" THEN reader.found ELSE stats
    /\ populating' = IF reader.of = "stats" /\ populating = NoSet THEN {} ELSE populating
    /\ reader' = Resting
    /\ UNCHANGED <<overlap, table, post, updates, notices, unique, flushing, reads, deletes, faults>>

\* populateUniqueUserProjects: if they are not there, they become the set of projects,
\* which is looked up in the cache or by a query that fills it
Populate ==
    /\ populating # NoSet
    /\ LET projects == IF entities # NoSet THEN entities ELSE Named(Projects(table))
       IN IF unique = NoSet
          THEN unique' = projects /\ entities' = projects
          ELSE UNCHANGED <<unique, entities>>
    /\ populating' = NoSet
    /\ UNCHANGED <<overlap, table, post, updates, notices, count, stats, reader, flushing, reads,
                   deletes, faults>>

----------------------------------------------------------------------------
\* Deletions, of all heartbeats or of those before a date: the cache is emptied in a
\* goroutine, before or after the rows are gone

Delete ==
    /\ faults + deletes < MaxTroubles /\ (overlap \/ (ReadsEnd /\ PostsEnd))
    /\ deletes' = deletes + 1 /\ flushing' = flushing + 1
    /\ \E gone \in SUBSET table : table' = table \ gone
    /\ UNCHANGED <<overlap, post, updates, notices, count, entities, unique, stats, reader, populating,
                   reads, faults>>

Flush ==
    /\ flushing > 0 /\ flushing' = flushing - 1
    /\ count' = -1 /\ entities' = NoSet /\ unique' = NoSet /\ stats' = NoSet
    /\ UNCHANGED <<overlap, table, post, updates, notices, reader, populating, reads, deletes, faults>>

\* The count ends after count_cache_ttl_min, however often it was incremented; the stats
\* after 12 hours; the sets never.
\* mutant: the count never ends either
CountExpiresNever == FALSE /\ UNCHANGED vars

CountExpires ==
    /\ count # -1 /\ count' = -1
    /\ UNCHANGED <<overlap, table, post, updates, notices, entities, unique, stats, reader, populating,
                   flushing, reads, deletes, faults>>

StatsExpire ==
    /\ stats # NoSet /\ stats' = NoSet
    /\ UNCHANGED <<overlap, table, post, updates, notices, count, entities, unique, reader, populating,
                   flushing, reads, deletes, faults>>

Server ==
    \/ \E p \in Posts : InsertBatch(p)
    \/ \E name \in Projects(Beats) : UpdateEntity(name)
    \/ OnHeartbeat \/ ReadPut \/ Populate \/ Flush

Next ==
    \/ \E p \in Posts : Post(p)
    \/ ReadQuery \/ Delete \/ Server \/ CountExpires \/ StatsExpire

Spec == Init /\ [][Next]_vars

\* goroutines run, entries with an end expire
FairSpec == Spec /\ WF_vars(Server) /\ WF_vars(CountExpires) /\ WF_vars(StatsExpire)

----------------------------------------------------------------------------
\* Properties

Sets == (SUBSET Projects(Beats)) \union {NoSet}

TypeOK ==
    /\ table \subseteq Beats
    /\ count \in -1 .. Cardinality(Beats) * (1 + Cardinality(Posts))
    /\ entities \in Sets /\ unique \in Sets /\ stats \in Sets /\ populating \in {NoSet, {}}
    /\ updates \subseteq Projects(Beats) /\ flushing \in 0 .. MaxTroubles

\* As long as reads do not overlap with posts and deletions, once the goroutines are done,
\* the set of projects, which never expires, has every project of the table; and the stats
\* have every project of which they count all heartbeats.  (A project that was first seen in
\* a heartbeat they do not count is not new when one comes that they would count, and after
\* a failed insertion its projects are seen, too.)
ProjectsComplete ==
    (~ overlap /\ PostsEnd /\ ReadsEnd) =>
        /\ entities = NoSet \/ Named(Projects(table)) \subseteq entities
        /\ faults = 0 => stats = NoSet \/ WhollyCounted(table) \subseteq stats

\* Whatever overtook what, and though duplicates are counted: when posts and deletions
\* cease the cached count becomes the table's.
CountCatchesUp == <>[](count \in {-1, Cardinality(table)})
============================================================================
