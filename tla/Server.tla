------------------------------- MODULE Server -------------------------------
(***************************************************************************)
(* The parts of the server that hand heartbeats and settings around: Jobs, *)
(* Retrieval, ViewCache, Ingest, Relay, Import and Migrations.  Where one  *)
(* calls another it is said in their modules; no state is shared, so each  *)
(* behaviour is one part's, chosen at the start, and the other parts rest  *)
(* in an initial state.                                                    *)
(***************************************************************************)
EXTENDS Jobs

CONSTANTS
    Times, Day, Timeout, Kinds, MaxBeats, Settings,          \* of Retrieval
    Readers, Rows, Nothing, MaxChanges,                      \* of ViewCache
    MaxPosts, Heartbeats, Project(_), Counted, MaxReads, MaxTroubles,  \* of Ingest (MaxPosts of Relay, too)
    Servers, Outside, Routes, Nowhere, Hashes, MaxLoad, MaxFailures,   \* of Relay
    LastBeat, DayLength, BatchSize, MaxImports,              \* of Import
    Listed, SchemaAt, Dialects, Ages, MaxStarts,             \* of Migrations
    MaxFaults                                                \* of several

VARIABLES
    part,
    beats, setting, rows,
    viewOverlap, table, version, aliasMap, cache, summary, reloads, events, reader, writer, changes,
    viewFaults,
    overlap, heartbeats, request, updates, notices, count, entities, unique, stats, fetch,
    populating, flushing, reads, deletes, faults,
    behind, run, known, failures, handed, post, refused, sent, lostRequests,
    lastImport, lastSuccess, imported, imp, puts, ticking, completed, queue, job, importFaults,
    dialect, tables, old, missing, done, at, stmt, chosen, lost, unmarked, starts, migrationFaults

retrievalVars == <<beats, setting, rows>>
viewVars      == <<viewOverlap, table, version, aliasMap, cache, summary, reloads, events, reader, writer,
                   changes, viewFaults>>
ingestVars    == <<overlap, heartbeats, request, updates, notices, count, entities, unique, stats, fetch,
                   populating, flushing, reads, deletes, faults>>
relayVars     == <<behind, run, known, failures, handed, post, refused, sent, lostRequests>>
importVars    == <<lastImport, lastSuccess, imported, imp, puts, ticking, completed, queue, job,
                   importFaults>>
migrationVars == <<dialect, tables, old, missing, done, at, stmt, chosen, lost, unmarked, starts, migrationFaults>>
allVars == <<part, retrievalVars, viewVars, ingestVars, relayVars, importVars, vars, migrationVars>>

T == INSTANCE Retrieval
V == INSTANCE ViewCache WITH overlap <- viewOverlap, faults <- viewFaults
I == INSTANCE Ingest WITH Beats <- Heartbeats, table <- heartbeats, post <- request, reader <- fetch
R == INSTANCE Relay WITH faults <- lostRequests
P == INSTANCE Import WITH table <- imported, faults <- importFaults
M == INSTANCE Migrations WITH All <- Listed, First <- SchemaAt, faults <- migrationFaults

AllInit ==
    /\ part \in {"retrieval", "views", "ingest", "relay", "import", "jobs", "migrations"}
    /\ V!Init /\ (part # "views" => ~ viewOverlap)
    /\ I!Init /\ (part # "ingest" => ~ overlap)
    /\ R!Init /\ P!Init /\ Init
    /\ M!Init /\ (part = "migrations" \/ (dialect = "mysql" /\ ~ tables))
    /\ IF part = "retrieval" THEN T!Init
       ELSE beats = [t \in {} |-> 0] /\ setting = [aliases |-> <<>>, labels |-> {}, exclude |-> TRUE] /\ rows = {}

----------------------------------------------------------------------------
Retrieving == part = "retrieval" /\ UNCHANGED <<part, viewVars, ingestVars, relayVars, importVars, vars,
                                                migrationVars>>
Viewing    == part = "views" /\ UNCHANGED <<part, retrievalVars, ingestVars, relayVars, importVars, vars,
                                            migrationVars>>
Ingesting  == part = "ingest" /\ UNCHANGED <<part, retrievalVars, viewVars, relayVars, importVars, vars,
                                             migrationVars>>
Relaying   == part = "relay" /\ UNCHANGED <<part, retrievalVars, viewVars, ingestVars, importVars, vars,
                                            migrationVars>>
Importing  == part = "import" /\ UNCHANGED <<part, retrievalVars, viewVars, ingestVars, relayVars, vars,
                                             migrationVars>>
Serving    == part = "jobs" /\ UNCHANGED <<part, retrievalVars, viewVars, ingestVars, relayVars, importVars,
                                           migrationVars>>
Migrating  == part = "migrations" /\ UNCHANGED <<part, retrievalVars, viewVars, ingestVars, relayVars,
                                                 importVars, vars>>

AllNext ==
    \/ Retrieving /\ T!Next
    \/ Viewing /\ V!Next
    \/ Ingesting /\ I!Next
    \/ Relaying /\ R!Next
    \/ Importing /\ P!Next
    \/ Serving /\ Next
    \/ Migrating /\ M!Next

AllSpec == AllInit /\ [][AllNext]_allVars

----------------------------------------------------------------------------
\* The properties of the parts, which state them in their modules.

\* Every variable of the part stays within its type.
AllTypesOK ==
    CASE part = "retrieval"  -> T!TypeOK
      [] part = "views"      -> V!TypeOK
      [] part = "ingest"     -> I!TypeOK
      [] part = "relay"      -> R!TypeOK
      [] part = "import"     -> P!TypeOK
      [] part = "jobs"       -> TypeOK
      [] part = "migrations" -> M!TypeOK

\* Retrieving with rows is near to summarizing all heartbeats (Retrieval).
NearRecompute == part = "retrieval" => T!RetrieveNearRecompute

\* Asking for a project gives the time it has among all (Retrieval).
FilterGivesItem == part = "retrieval" => T!ProjectFilterGivesItem

\* Without overlaps the caches never outlive a change (ViewCache).
CachedIsCurrent == V!CachedIsCurrent

\* Everything in memory becomes what the tables say (ViewCache).
ViewsCatchUp == <>[](part = "views" => V!Current)

\* The cached projects are never short of the table's (Ingest).
ProjectsComplete == I!ProjectsComplete

\* The cached count becomes the table's (Ingest).
CountCatchesUp == I!CountCatchesUp

\* Relaying ends, and what one server handles the one behind it does (Relay).
RelayEnds == R!RelayEnds

\* An import ends with all of WakaTime's heartbeats in the table (Import).
ImportComplete == P!ImportComplete

\* The server comes to serve with its schema, whatever the starts before (Migrations).
MigrationsSettle == <>[](part = "migrations" => M!Settled)
============================================================================
