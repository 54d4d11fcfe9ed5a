---------------------------- MODULE MigrationList ----------------------------
(***************************************************************************)
(* The migrations of migrations/, one file each, as far as module          *)
(* Migrations, which runs them, tells them apart.  A database is described *)
(* by what of old versions there is to remove.                             *)
(*                                                                         *)
(* marks: is it marked as run; kv: does it first look whether there is a   *)
(* table for marks; skips: dialects on which it returns at once; when:     *)
(* what it looks for.  A statement has the dialects it is for, what it     *)
(* removes, what it leaves missing, and the field that it sets for all     *)
(* users; a soft one is only logged, or not even that, when it fails.      *)
(***************************************************************************)
EXTENDS Naturals, Sequences

Every == {"sqlite", "mysql", "postgres", "mssql"}
Statement == [on |-> Every, drops |-> {}, frees |-> {}, sets |-> {}, soft |-> FALSE]
Drop(what)         == [Statement EXCEPT !.drops = {what}]
DropOn(on, what)   == [Drop(what) EXCEPT !.on = on]
SoftDrop(what)     == [Drop(what) EXCEPT !.soft = TRUE]
Renew(what, fresh) == [Drop(what) EXCEPT !.frees = {fresh}]
Free(fresh)        == [Statement EXCEPT !.frees = {fresh}]
Set(field)         == [Statement EXCEPT !.sets = {field}]

Always(name, stmts)     == [name |-> name, marks |-> FALSE, kv |-> FALSE, skips |-> {}, when |-> "", stmts |-> stmts]
Once(name, stmts)       == [Always(name, stmts) EXCEPT !.marks = TRUE]
If(what, migration)     == [migration EXCEPT !.when = what]
Skipping(on, migration) == [migration EXCEPT !.skips = on]
WithTable(migration)    == [migration EXCEPT !.kv = TRUE]

\* before the schema migration
RenameLanguageMappings ==
    If("custom_rules", Always("20201103", <<Drop("custom_rules"), Drop("idx_customrule_user")>>))
CascadeConstraints ==
    Skipping({"sqlite"}, WithTable(Once("20201106",
        <<Renew("constraints without cascade", "constraints")>>)))
CascadeForAlias ==
    Skipping({"sqlite"}, WithTable(Once("20210202",
        <<Renew("alias constraint without cascade", "constraints")>>)))
DropUserProjectIdx ==
    WithTable(Once("20220403", <<[SoftDrop("idx_user_project") EXCEPT !.on = {"sqlite"}]>>))
DropEntityIdx == If("idx_entity", Always("20220930", <<Drop("idx_entity")>>))
FixSummaryIdTypes ==
    Skipping(Every \ {"mysql"}, If("summary ids of another type", Always("20221002",
        <<Free("constraints"), Drop("summary ids of another type")>>)))
FixTimeUserIdx ==
    Skipping({"mssql"}, If("idx_time_user of one column", Always("20221028",
        <<Renew("idx_time_user of one column", "idx_time_user")>>)))

\* after it
AddSharingFlags ==
    If("badges_enabled", Always("20210206",
        <<Set("sharing"), DropOn(Every \ {"sqlite"}, "badges_enabled")>>))
AddHasData     == Once("20210213", <<Set("has_data")>>)
AddCreatedDate == Once("20210221", <<Set("created_at")>>)
AddImprint     == Once("20210411-add", <<Drop("no imprint")>>)
DropMigrations == Always("20210411-drop", <<SoftDrop("gorp_migrations")>>)
RemoveLabels   == Once("20210806", <<Drop("items of labels")>>)
IdToBigint     ==        \* MySQL commits by itself, a commit that fails is not looked at
    Once("20211215", <<DropOn({"mysql"}, "small ids"), [Statement EXCEPT !.on = {"postgres"}],
                       [SoftDrop("small ids") EXCEPT !.on = {"postgres"}]>>)
TotalHeartbeats == Once("20212212", <<Statement, SoftDrop("uncounted heartbeats")>>)
AlignHeartbeats == Once("20220317", <<Statement, Drop("uncounted heartbeats")>>)
TimestampPrecision == Once("20220318", <<DropOn({"mysql"}, "times in seconds")>>)
DropDiagnosticsUser ==
    If("diagnostics with user_id", Once("202203191", <<SoftDrop("diagnostics with user_id")>>))
DropRank       == If("rank", Once("20221016", <<SoftDrop("rank")>>))
AddAstro       == Once("20230219-astro", <<Drop("astro files without language")>>)
AddRenewal     == Once("20230219-subscription", <<Set("renewal")>>)
FillLastBranch == Once("20231023", <<Statement, SoftDrop("last branches to be found")>>)
AddName        == If("no name column", Once("20240925", <<Drop("users without name")>>))

\* in the order of their names
Pre ==
    <<RenameLanguageMappings, CascadeConstraints, CascadeForAlias, DropUserProjectIdx,
      DropEntityIdx, FixSummaryIdTypes, FixTimeUserIdx>>
Post ==
    <<AddSharingFlags, AddHasData, AddCreatedDate, AddImprint, DropMigrations, RemoveLabels,
      IdToBigint, TotalHeartbeats, AlignHeartbeats, TimestampPrecision, DropDiagnosticsUser,
      DropRank, AddAstro, AddRenewal, FillLastBranch, AddName>>

Schema == Always("schema", <<>>)     \* see AutoMigrate in Migrations

All   == Pre \o <<Schema>> \o Post
First == Len(Pre) + 1                \* the schema migration
============================================================================
