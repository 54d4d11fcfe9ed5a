------------------------------- MODULE Import -------------------------------
(***************************************************************************)
(* Imports of a user's heartbeats from WakaTime: actionImportWakatime of   *)
(* routes/settings.go and its goroutine, and the two importers of          *)
(* services/imports, which run on the imports queue with its one worker    *)
(* and pass heartbeats through an unbuffered channel.                      *)
(*                                                                         *)
(* WakaTime's heartbeats are numbered in the order of their times;         *)
(* DayOfBeat gives the day of each.                                        *)
(***************************************************************************)
EXTENDS Integers, FiniteSets, Sequences

CONSTANTS
    LastBeat,    \* WakaTime has heartbeats 1 .. LastBeat
    DayLength,   \* heartbeats in a day
    BatchSize,   \* import_batch_size
    MaxImports,  \* bound: requests for an import
    MaxFaults    \* bound: failing requests to WakaTime, failing insertions, polls that take
                 \* until the next

VARIABLES
    lastImport, lastSuccess,   \* key-values: is there one that still counts?
    table,       \* heartbeats imported
    imp,         \* the imports
    puts,        \* handlers that have yet to store last_import
    ticking,     \* imports whose poll ticker runs
    completed,   \* is the export complete?
    queue,       \* the imports queue: jobs [by, what]
    job,         \* what its worker does: "idle", "process", "poll", "days", "stream", "stuck"
    faults

vars == <<lastImport, lastSuccess, table, imp, puts, ticking, completed, queue, job, faults>>

Beats    == 1 .. LastBeat
DayOfBeat(b) == (b - 1) \div DayLength
Imports  == 1 .. MaxImports
Unasked  == [pc |-> "idle", legacy |-> FALSE, from |-> 0, open |-> TRUE, batch |-> {},
             days |-> {}, fetched |-> {}, rest |-> {}]
Free     == [what |-> "idle", by |-> 0]
First(S) == CHOOSE b \in S : \A c \in S : b <= c
Latest   == IF table = {} THEN 0 ELSE CHOOSE b \in table : \A c \in table : b >= c
Fault    == faults < MaxFaults /\ faults' = faults + 1

Init ==
    /\ lastImport = FALSE /\ lastSuccess = FALSE
    /\ table = {}
    /\ imp = [i \in Imports |-> Unasked]
    /\ puts = {} /\ ticking = {} /\ completed = FALSE
    /\ queue = <<>> /\ job = Free
    /\ faults = 0

At(i, pc) == imp[i].pc = pc

----------------------------------------------------------------------------
\* The handler and its goroutine

\* both key-values are looked at; the goroutine starts before last_import is stored
Request(i) ==
    /\ At(i, "idle") /\ (i > 1 => ~ At(i - 1, "idle"))
    /\ \E legacy \in BOOLEAN :
          imp' = [imp EXCEPT ![i].pc = IF lastImport \/ lastSuccess THEN "refused" ELSE "begin",
                             ![i].legacy = legacy]
    /\ puts' = IF lastImport \/ lastSuccess THEN puts ELSE puts \union {i}
    /\ UNCHANGED <<lastImport, lastSuccess, table, ticking, completed, queue, job, faults>>

PutLastImport ==
    /\ puts # {} /\ lastImport' = TRUE
    /\ \E i \in puts : puts' = puts \ {i}
    /\ UNCHANGED <<lastSuccess, table, imp, ticking, completed, queue, job, faults>>

\* ImportAll, or Import from the latest imported heartbeat on: a job for the queue, or
\* an export asked for and polled for; asking may fail
Begin(i) ==
    /\ At(i, "begin")
    /\ \/ /\ imp[i].legacy
          /\ queue' = Append(queue, [what |-> "process", by |-> i])
          /\ imp' = [imp EXCEPT ![i].pc = "mark", ![i].from = Latest]
          /\ UNCHANGED <<ticking, faults>>
       \/ /\ ~ imp[i].legacy
          /\ ticking' = ticking \union {i}
          /\ imp' = [imp EXCEPT ![i].pc = "mark", ![i].from = Latest]
          /\ UNCHANGED <<queue, faults>>
       \/ /\ ~ imp[i].legacy /\ Fault
          /\ imp' = [imp EXCEPT ![i].pc = "failed"]
          /\ UNCHANGED <<queue, ticking>>
    /\ UNCHANGED <<lastImport, lastSuccess, table, puts, completed, job>>

\* a success, before anything has come
MarkSuccess(i) ==
    /\ At(i, "mark")
    /\ lastSuccess' = TRUE
    /\ imp' = [imp EXCEPT ![i].pc = "receive"]
    /\ UNCHANGED <<lastImport, table, puts, ticking, completed, queue, job, faults>>

\* InsertBatch of a full batch, or of what is left when the channel is closed; what is
\* there is ignored; an error is logged
\* mutant: what is left is not inserted
InsertFull(i) ==
    LET full == Cardinality(imp[i].batch) = BatchSize
    IN /\ At(i, "receive") /\ (full \/ ~ imp[i].open)
       /\ \/ table' = (IF full THEN table \union imp[i].batch ELSE table) /\ faults' = faults
          \/ Fault /\ table' = table
       /\ imp' = [imp EXCEPT ![i].batch = {}, ![i].pc = IF full THEN "receive" ELSE "done"]
       /\ UNCHANGED <<lastImport, lastSuccess, puts, ticking, completed, queue, job>>

Insert(i) ==
    LET full == Cardinality(imp[i].batch) = BatchSize
    IN /\ At(i, "receive") /\ (full \/ ~ imp[i].open)
       /\ \/ table' = table \union imp[i].batch /\ faults' = faults
          \/ Fault /\ table' = table
       /\ imp' = [imp EXCEPT ![i].batch = {}, ![i].pc = IF full THEN "receive" ELSE "done"]
       /\ UNCHANGED <<lastImport, lastSuccess, puts, ticking, completed, queue, job>>

\* after import_backoff_min, and after import_max_rate (bound: as long as there is a request
\* to come, which alone looks at them)
KeysExpire ==
    /\ \E i \in Imports : At(i, "idle")
    /\ \/ lastImport /\ lastImport' = FALSE /\ lastSuccess' = lastSuccess
       \/ lastSuccess /\ lastSuccess' = FALSE /\ lastImport' = lastImport
    /\ UNCHANGED <<table, imp, puts, ticking, completed, queue, job, faults>>

----------------------------------------------------------------------------
\* The queue

TakeJob ==
    /\ job = Free /\ queue # <<>>
    /\ queue' = Tail(queue)
    /\ job' = Head(queue)
    /\ UNCHANGED <<lastImport, lastSuccess, table, imp, puts, ticking, completed, faults>>

\* the ticker of an export, every ten seconds; it goes on when a poll is still waiting or
\* takes as long, which counts as a fault here
Tick ==
    /\ \E i \in ticking :
          LET poll == [what |-> "poll", by |-> i]
          IN /\ queue' = Append(queue, poll)
             /\ IF job = poll \/ \E k \in DOMAIN queue : queue[k] = poll THEN Fault ELSE UNCHANGED faults
    /\ UNCHANGED <<lastImport, lastSuccess, table, imp, puts, ticking, completed, job>>

----------------------------------------------------------------------------
\* WakatimeHeartbeatsImporter

\* the range of dates, user agents and machine names; if that fails nobody closes the
\* channel
StartDays ==
    LET i == job.by
        wanted == {b \in Beats : b >= imp[i].from}
    IN /\ job.what = "process"
       /\ \/ /\ imp' = [imp EXCEPT ![i].days = {DayOfBeat(b) : b \in wanted}]
             /\ job' = [job EXCEPT !.what = "days"]
             /\ UNCHANGED faults
          \/ Fault /\ job' = Free /\ UNCHANGED imp
       /\ UNCHANGED <<lastImport, lastSuccess, table, puts, ticking, completed, queue>>

\* a worker of the pool fetches a day; a day that fails has no heartbeats
FetchDay ==
    LET i == job.by
    IN /\ job.what = "days"
       /\ \E d \in imp[i].days \ imp[i].fetched :
             \/ /\ imp' = [imp EXCEPT ![i].fetched = @ \union {d},
                       ![i].rest = @ \union {b \in Beats : DayOfBeat(b) = d /\ b >= imp[i].from}]
                /\ faults' = faults
             \/ Fault /\ imp' = [imp EXCEPT ![i].fetched = @ \union {d}]
       /\ UNCHANGED <<lastImport, lastSuccess, table, puts, ticking, completed, queue, job>>

\* the channel has no buffer: whoever sends waits until the goroutine receives, which it
\* does not while it inserts
\* mutant: it receives when the batch is full, too
CanReceiveMore(i) == At(i, "receive") /\ imp[i].open

CanReceive(i) == At(i, "receive") /\ imp[i].open /\ Cardinality(imp[i].batch) < BatchSize

SendOfDay ==
    LET i == job.by
    IN /\ job.what = "days" /\ CanReceive(i)
       /\ \E d \in imp[i].fetched \intersect imp[i].days :
             LET mine == {b \in imp[i].rest : DayOfBeat(b) = d}
             IN /\ mine # {}
                /\ imp' = [imp EXCEPT ![i].rest = @ \ {First(mine)},
                                      ![i].batch = @ \union {First(mine)}]
       /\ UNCHANGED <<lastImport, lastSuccess, table, puts, ticking, completed, queue, job, faults>>

\* a day that is done counts down; the last one closes the channel
DayDone ==
    LET i == job.by
    IN /\ job.what = "days"
       /\ \E d \in imp[i].fetched \intersect imp[i].days :
             /\ \A b \in imp[i].rest : DayOfBeat(b) # d
             /\ imp' = [imp EXCEPT ![i].days = @ \ {d}, ![i].open = imp[i].days # {d}]
             /\ job' = IF imp[i].days = {d} THEN Free ELSE job
       /\ UNCHANGED <<lastImport, lastSuccess, table, puts, ticking, completed, queue, faults>>

----------------------------------------------------------------------------
\* WakatimeDumpImporter

\* A poll that fails closes the channel, one that finds the export completed streams it,
\* or closes the channel at once if the download fails.  Another poll that was queued
\* before the ticker stopped stops it again and sends on or closes what is closed, which ends
\* the process; here the worker is stuck for good.  It takes a fault to come to that.
Poll ==
    LET i == job.by
        stop == ticking' = ticking \ {i}
    IN /\ job.what = "poll"
       /\ \/ /\ ~ completed
             /\ job' = Free /\ UNCHANGED <<imp, ticking, faults>>
          \/ /\ completed /\ imp[i].open /\ stop
             /\ imp' = [imp EXCEPT ![i].rest = {b \in Beats : b >= imp[i].from}]
             /\ job' = [job EXCEPT !.what = "stream"] /\ UNCHANGED faults
          \/ /\ Fault /\ imp[i].open /\ stop
             /\ imp' = [imp EXCEPT ![i].open = FALSE]
             /\ job' = Free
          \/ /\ ~ imp[i].open
             /\ \/ completed /\ UNCHANGED faults
                \/ Fault
             /\ job' = [job EXCEPT !.what = "stuck"] /\ UNCHANGED <<imp, ticking>>
       /\ UNCHANGED <<lastImport, lastSuccess, table, puts, completed, queue>>

Stream ==
    LET i == job.by
    IN /\ job.what = "stream"
       /\ \/ /\ imp[i].rest # {} /\ CanReceive(i)
             /\ imp' = [imp EXCEPT ![i].rest = @ \ {First(@)}, ![i].batch = @ \union {First(imp[i].rest)}]
             /\ job' = job
          \/ /\ imp[i].rest = {}
             /\ imp' = [imp EXCEPT ![i].open = FALSE]
             /\ job' = Free
       /\ UNCHANGED <<lastImport, lastSuccess, table, puts, ticking, completed, queue, faults>>

\* WakaTime has the export ready (external)
Complete ==
    /\ ~ completed /\ ticking # {} /\ completed' = TRUE
    /\ UNCHANGED <<lastImport, lastSuccess, table, imp, puts, ticking, queue, job, faults>>

----------------------------------------------------------------------------
Worker == TakeJob \/ StartDays \/ FetchDay \/ SendOfDay \/ DayDone \/ Poll \/ Stream
Goroutine(i) == Begin(i) \/ MarkSuccess(i) \/ Insert(i)

Next ==
    \/ \E i \in Imports : Request(i) \/ Goroutine(i)
    \/ PutLastImport \/ KeysExpire \/ Tick \/ Complete \/ Worker

Spec == Init /\ [][Next]_vars

FairSpec ==
    /\ Spec
    /\ WF_vars(Worker) /\ WF_vars(Tick) /\ WF_vars(Complete) /\ WF_vars(PutLastImport)
    /\ \A i \in Imports : WF_vars(Goroutine(i))

----------------------------------------------------------------------------
\* Properties

TypeOK ==
    /\ table \subseteq Beats
    /\ \A i \in Imports : imp[i].batch \subseteq Beats /\ Cardinality(imp[i].batch) <= BatchSize
    /\ \A i \in Imports : imp[i].fetched \subseteq {DayOfBeat(b) : b \in Beats}
    /\ job.what \in {"idle", "process", "poll", "days", "stream", "stuck"}

\* If nothing fails and polls are quick, an import that was admitted ends, whichever
\* importer it uses and also when two were admitted at once, and then the table has all
\* of WakaTime's heartbeats.
ImportComplete ==
    <>[](faults = 0 =>
            /\ \A i \in Imports : imp[i].pc \in {"idle", "refused", "done"}
            /\ (\E i \in Imports : At(i, "done")) => table = Beats)
============================================================================
