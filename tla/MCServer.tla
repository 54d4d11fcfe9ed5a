------------------------------ MODULE MCServer ------------------------------
(***************************************************************************)
(* Server for TLC: the values of its constants, and the fairness of the    *)
(* parts.                                                                  *)
(***************************************************************************)
EXTENDS Server, RetrievalValues, TLC

CONSTANTS r1, a, b, c

\* One project, and one of its two heartbeats does not count for the stats.
ProjectOf(h) == "p"
IntoCycle    == {(a :> b) @@ (b :> c) @@ (c :> b)}
L == INSTANCE MigrationList
AllListed       == L!All
SchemaMigration == L!First

\* The list of migrations is as Migrations says of it.
ASSUME ListAssumption == M!ListFits

\* The parts' fairness, one or two conditions of each part at a time: as a behaviour is one
\* part's, a disjunction of steps of different parts is as fair as each of them.
Going ==
    \/ Viewing /\ V!Write
    \/ Ingesting /\ I!Server
    \/ Relaying /\ R!Relaying(1)
    \/ Importing /\ P!Worker
    \/ Migrating /\ M!Run
Answering ==
    \/ Viewing /\ V!Serve
    \/ Ingesting /\ I!CountExpires
    \/ Relaying /\ R!Relaying(2)
    \/ Importing /\ P!Tick
Expiring ==
    \/ Viewing /\ V!ExpireSummary
    \/ Ingesting /\ I!StatsExpire
    \/ Importing /\ P!Complete
Putting ==
    \/ Viewing /\ V!ExpireList("labels")
    \/ Importing /\ P!PutLastImport
Receiving1 ==
    \/ Viewing /\ V!ExpireList("languages")
    \/ Importing /\ P!Goroutine(1)
Receiving2 ==
    \/ Viewing /\ V!ReadOn(r1)
    \/ Importing /\ P!Goroutine(2)

AllFairSpec ==
    /\ AllSpec
    /\ WF_allVars(Going) /\ WF_allVars(Answering) /\ WF_allVars(Expiring)
    /\ WF_allVars(Putting) /\ WF_allVars(Receiving1) /\ WF_allVars(Receiving2)
    /\ SF_allVars(Viewing /\ V!InitializeUser(r1))
============================================================================
