----------------------------- MODULE Migrations -----------------------------
(***************************************************************************)
(* What happens to the database when the server starts: the migrations of  *)
(* migrations/ that run before and after the schema migration, each in     *)
(* several statements, after any of which the start may fail or be cut     *)
(* short; and the users' choices while it runs.                            *)
(*                                                                         *)
(* An old database is described by what a migration is there to remove;    *)
(* its data by the fields that a migration writes for all users.           *)
(***************************************************************************)
EXTENDS Naturals, Sequences, FiniteSets

CONSTANTS
    All, First,  \* the migrations, and which of them is the schema migration (MigrationList)
    Dialects,    \* some of "sqlite", "mysql", "postgres", "mssql"
    Ages,        \* how many of the post migrations an old database has seen
    MaxStarts,   \* bound: starts, not counting those that follow a fault
    MaxFaults    \* bound: statements that fail, and crashes

VARIABLES
    dialect,
    tables,      \* is there a schema?
    old,         \* what there is of old versions
    missing,     \* constraints and indexes that the schema migration will create
    done,        \* migrations with a mark in key_string_values
    at,          \* the migration under way; 0 if the server is down, Last + 1 if it serves
    stmt,        \* its next statement, 0 before its conditions are looked at
    chosen,      \* fields that users have set since they were migrated
    lost,        \* did a start overwrite such a field?
    unmarked,    \* was a mark not stored, or one that is there not found?
    starts, faults

vars == <<dialect, tables, old, missing, done, at, stmt, chosen, lost, unmarked, starts, faults>>

Last == Len(All)
Fields == {"sharing", "has_data", "created_at", "renewal"}

Removes(ms) == UNION {UNION {ms[i].stmts[k].drops : k \in DOMAIN ms[i].stmts} : i \in DOMAIN ms}
Pre  == SubSeq(All, 1, First - 1)
Post == SubSeq(All, First + 1, Last)

\* What the code of the migrations sees to: after the schema migration nothing is left
\* missing; badges_enabled stays on SQLite; and what sets a field for all users asks for a
\* mark, or for badges_enabled, which it drops.
Text      == SUBSET STRING
Statement == [on : Text, drops : Text, frees : Text, sets : Text, soft : BOOLEAN]
Migration == [name : STRING, marks : BOOLEAN, kv : BOOLEAN, skips : Text, when : STRING,
              stmts : Seq(Statement)]
SetsFields(i)   == \E k \in DOMAIN All[i].stmts : All[i].stmts[k].sets # {}
DropsBadges(s)  == "badges_enabled" \in s.drops
ListFits ==
    /\ All \in Seq(Migration) /\ First \in 4 .. Last /\ Ages \subseteq 0 .. Last - First
    /\ "badges_enabled" \in Removes(All)
    /\ \A i \in 1 .. Last : \A k \in DOMAIN All[i].stmts :
          /\ i > First => All[i].stmts[k].frees = {}
          /\ DropsBadges(All[i].stmts[k]) => "sqlite" \notin All[i].stmts[k].on /\ ~ All[i].stmts[k].soft
    /\ \A i \in 1 .. Last : SetsFields(i) =>
          /\ i # First /\ All[i].skips = {} /\ ~ All[i].kv
          /\ ~ All[i].marks =>
                /\ All[i].when = "badges_enabled"
                /\ \E k \in DOMAIN All[i].stmts :
                      DropsBadges(All[i].stmts[k]) /\ Dialects \ {"sqlite"} \subseteq All[i].stmts[k].on

\* what only MySQL had
OfMySQL == {"times in seconds", "summary ids of another type"}

\* An empty database, or one that a version left that had the first a post migrations,
\* and the pre migrations that are as old.  SQL Server is supported only since the last
\* of these.  (An old database is given all that the later ones remove, which is more than
\* any one version had.)
Init ==
    /\ dialect \in Dialects
    /\ \/ tables = FALSE /\ old = {} /\ done = {}
       \/ /\ tables = TRUE
          /\ \E a \in Ages :
                LET p     == IF a = 0 THEN 0 ELSE IF a < 12 THEN 3 ELSE Len(Pre)
                    seen  == SubSeq(Pre, 1, p) \o SubSeq(Post, 1, a)
                    later == SubSeq(Pre, p + 1, Len(Pre)) \o SubSeq(Post, a + 1, Len(Post))
                    stay  == {f \in {"badges_enabled"} : dialect = "sqlite"}
                IN /\ dialect = "mssql" => a > 12
                   /\ done = {seen[i].name : i \in {j \in DOMAIN seen :
                                 seen[j].marks /\ dialect \notin seen[j].skips}}
                   /\ old = (Removes(later) \ {f \in OfMySQL : dialect # "mysql"}) \union stay
                               \union {"no name column"}
    /\ missing = {} /\ at = 0 /\ stmt = 0
    /\ chosen = {} /\ lost = FALSE /\ unmarked = FALSE
    /\ starts = 0 /\ faults = 0

----------------------------------------------------------------------------

Fault == faults < MaxFaults /\ faults' = faults + 1
Current == All[at]
Migrating == at \in 1 .. Last

Start ==
    /\ at = 0 /\ at' = 1 /\ stmt' = 0
    /\ starts' = starts + 1
    /\ UNCHANGED <<dialect, tables, old, missing, done, chosen, lost, unmarked, faults>>

Advance == at' = at + 1 /\ stmt' = 0

\* the conditions of a migration; a mark in the table, if there is one, ends it
\* mutant: it is not looked for
ConditionsUnmarked ==
    LET skipped == dialect \in Current.skips \/ (Current.kv /\ ~ tables)
    IN /\ Migrating /\ at # First /\ stmt = 0
       /\ \/ skipped /\ Advance
          \/ /\ ~ skipped
             /\ stmt' = IF Current.when = "" \/ Current.when \in old THEN 1 ELSE Len(Current.stmts) + 1
             /\ at' = at
       /\ UNCHANGED <<dialect, tables, old, missing, done, chosen, lost, unmarked, starts, faults>>

\* (hasRun takes a look-up that fails for no mark)
Conditions ==
    LET marked == Current.marks /\ Current.name \in done
        skipped == dialect \in Current.skips \/ (Current.kv /\ ~ tables)
    IN /\ Migrating /\ at # First /\ stmt = 0
       /\ \/ (skipped \/ marked) /\ Advance /\ UNCHANGED <<faults, unmarked>>
          \/ /\ ~ skipped
             /\ IF marked THEN Fault /\ unmarked' = TRUE ELSE UNCHANGED <<faults, unmarked>>
             /\ stmt' = IF Current.when = "" \/ Current.when \in old THEN 1 ELSE Len(Current.stmts) + 1
             /\ at' = at
       /\ UNCHANGED <<dialect, tables, old, missing, done, chosen, lost, starts>>

\* one statement; if it fails, and is not soft, the server ends
Execute ==
    LET s == Current.stmts[stmt]
    IN /\ Migrating /\ stmt \in DOMAIN Current.stmts
       /\ \/ /\ old' = IF dialect \in s.on THEN old \ s.drops ELSE old
             /\ missing' = IF dialect \in s.on THEN missing \union s.frees ELSE missing
             /\ chosen' = chosen \ s.sets
             /\ lost' = (lost \/ s.sets \intersect chosen # {})
             /\ stmt' = stmt + 1
             /\ UNCHANGED <<at, faults>>
          \/ /\ Fault /\ dialect \in s.on
             /\ IF s.soft THEN stmt' = stmt + 1 /\ at' = at ELSE stmt' = 0 /\ at' = 0
             /\ UNCHANGED <<old, missing, chosen, lost>>
       /\ UNCHANGED <<dialect, tables, done, unmarked, starts>>

\* setHasRun, whose failure is only logged
Mark ==
    /\ Migrating /\ at # First /\ stmt = Len(Current.stmts) + 1
    /\ \/ /\ done' = (IF Current.marks THEN done \union {Current.name} ELSE done)
          /\ UNCHANGED <<faults, unmarked>>
       \/ Current.marks /\ Fault /\ done' = done /\ unmarked' = TRUE
    /\ Advance
    /\ UNCHANGED <<dialect, tables, old, missing, chosen, lost, starts>>

\* RunSchemaMigrations: tables, columns, constraints and indexes that are not there, model by
\* model (gorm's; it removes nothing); what fails or is cut short has done some of it.  (No
\* failure is ignored: automigrate_fail_silently is off by default.)
AutoMigrate ==
    /\ at = First
    /\ \/ /\ tables' = TRUE /\ missing' = {} /\ old' = old \ {"no name column"}
          /\ Advance
          /\ faults' = faults
       \/ /\ Fault /\ at' = 0 /\ stmt' = 0
          /\ tables' \in {tables, TRUE} /\ missing' \in SUBSET missing
          /\ old' \in {old, old \ {"no name column"}}
    /\ UNCHANGED <<dialect, done, chosen, lost, unmarked, starts>>

Crash ==
    /\ Migrating /\ Fault /\ at' = 0 /\ stmt' = 0
    /\ UNCHANGED <<dialect, tables, old, missing, done, chosen, lost, unmarked, starts>>

\* while the server serves, until it is stopped
Choose ==
    /\ at = Last + 1 /\ \E f \in Fields : f \notin chosen /\ chosen' = chosen \union {f}
    /\ UNCHANGED <<dialect, tables, old, missing, done, at, stmt, lost, unmarked, starts, faults>>

Stop ==
    /\ at = Last + 1 /\ starts < MaxStarts + faults
    /\ at' = 0 /\ stmt' = 0
    /\ UNCHANGED <<dialect, tables, old, missing, done, chosen, lost, unmarked, starts, faults>>

Run == Start \/ Conditions \/ Execute \/ Mark \/ AutoMigrate

Next == Run \/ Crash \/ Choose \/ Stop

Spec == Init /\ [][Next]_vars

\* a server that is down is started again, and goes on
FairSpec == Spec /\ WF_vars(Run)

----------------------------------------------------------------------------
\* Properties

TypeOK ==
    /\ old \subseteq Removes(All) \union {"no name column"} /\ chosen \subseteq Fields
    /\ done \subseteq {All[i].name : i \in 1 .. Last}
    /\ at \in 0 .. Last + 1 /\ (~ Migrating => stmt = 0)

\* What stays on a dialect: SQLite keeps what it cannot alter, no dialect ever gets
\* names for its old users (the column is there when 20240925 looks for it).
Stays ==
    {"users without name"} \union
    CASE dialect = "sqlite" -> {"constraints without cascade", "alias constraint without cascade",
                                "badges_enabled", "small ids"}
      [] OTHER              -> {"idx_user_project"}

\* what a failure or a crash may leave for good: an index whose table has its new name,
\* and what a soft statement did not remove
Leftover == {"idx_customrule_user", "idx_user_project", "diagnostics with user_id", "rank", "gorp_migrations",
             "last branches to be found", "small ids"}

Settled ==
    /\ at = Last + 1 /\ tables /\ missing = {}
    /\ old \subseteq Stays \union (IF faults = 0 THEN {} ELSE Leftover)
    /\ lost => "badges_enabled" \in old \/ unmarked

\* Wherever starts failed, whatever version the database comes from: in the end the server
\* serves, with a schema in which nothing is missing and of the old versions only what is
\* said to stay; and no start overwrites what users have set since a version served,
\* except (on SQLite, for badges_enabled) where a mark could not be stored or looked up.
MigrationsSettle == <>[]Settled
==============================================================================
