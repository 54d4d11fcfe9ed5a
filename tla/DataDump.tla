----------------------------- MODULE DataDump ------------------------------
(***************************************************************************)
(* Data exports ("data dumps"): services/data_dump.go, the data_dumps      *)
(* table of repositories/data_dump.go, the housekeeping job that marks     *)
(* stuck exports and removes expired ones, and the deletion of a user's    *)
(* exports when the user clears their data, deletes the account or runs    *)
(* out of the retention period.                                            *)
(*                                                                         *)
(* An export is a row, a job and an object in the object storage.  The job *)
(* holds its own copy of the row and writes the whole copy with each Save, *)
(* and so does the housekeeping job with the copies it has read.  gorm's   *)
(* Save inserts a row that is not there.                                   *)
(***************************************************************************)
EXTENDS Integers, Sequences, FiniteSets

CONSTANTS
    Users,        \* users that ask for exports
    Clearers,     \* those of them that may delete their exports
    Dumps,        \* ids of exports (uuids: each is used once)
    Reqs,         \* HTTP requests that may be served at the same time
    NoRow,        \* no such row
    Workers,      \* number of workers of the processing queue
    StuckAfter,   \* dataDumpStuckThreshold, in ticks
    ExpireAfter,  \* the 24 hours an export is kept, in ticks
    Prompt,       \* does every job end before its export expires?
    LastPost,     \* bound: rows are inserted up to this time
    MaxClock,     \* bound: the end of time
    MaxFaults,    \* bound: failing calls of the database and the storage
    MaxCrashes,   \* bound: crashes of the server process
    MaxClears     \* bound: deletions of a user's exports

ASSUME ConstantsAssumption ==
    /\ Clearers \subseteq Users
    /\ Workers \in Nat \ {0}
    /\ StuckAfter \in Nat /\ ExpireAfter \in Nat
    /\ Prompt \in BOOLEAN
    /\ LastPost \in Nat /\ MaxClock \in Nat
    /\ MaxFaults \in Nat /\ MaxCrashes \in Nat /\ MaxClears \in Nat

\* a row of data_dumps; the download URL, type and progress are left out
Row == [user : Users, status : {"pending", "processing", "uploading", "completed"},
        processing : BOOLEAN, stuck : BOOLEAN, failed : BOOLEAN, created : Nat]

ASSUME NoRowAssumption == NoRow \notin Row

VARIABLES
    clock,
    rows,      \* data_dumps table
    objects,   \* object storage: the ids of the exports that have a file
    req,       \* per request: where Create is, and for which user
    queue,     \* jobs waiting in the processing queue
    stage,     \* where the job of an export is
    mem,       \* the job's copy of the row
    hk,        \* the housekeeping job
    clearer,   \* per user: where DeleteByUser is
    faults, crashes, clears

server == <<req, queue, stage, mem, hk, clearer>>
used   == <<faults, crashes, clears>>
vars   == <<clock, rows, objects, server, used>>

Running == {"started", "uploading", "uploaded", "failing"}
Stage   == {"unused", "queued", "ended"} \union Running

Stored     == {d \in Dumps : rows[d] # NoRow}
OfUser(u)  == {d \in Stored : rows[d].user = u}
Active     == {d \in Dumps : stage[d] \in Running \union {"queued"}}
InProgress(r) == r.processing /\ ~ r.stuck /\ ~ r.failed
Expired(r)    == r.created + ExpireAfter < clock
Overdue(r)    == r.processing /\ r.created + StuckAfter < clock /\ ~ r.stuck

NoRows      == [d \in Dumps |-> NoRow]
IdleHk      == [pc |-> "idle", todo |-> {}, current |-> {}, copy |-> NoRows]
IdleClearer == [pc |-> "idle", todo |-> {}]

Init ==
    /\ clock = 0
    /\ rows = NoRows
    /\ objects = {}
    /\ req = [r \in Reqs |-> {}]
    /\ queue = <<>>
    /\ stage = [d \in Dumps |-> "unused"]
    /\ mem = NoRows
    /\ hk = IdleHk
    /\ clearer = [u \in Users |-> IdleClearer]
    /\ faults = 0 /\ crashes = 0 /\ clears = 0

Fault == faults < MaxFaults /\ faults' = faults + 1

\* Update: writes every column, and inserts a row that is gone
Save(d, r) ==
    \/ rows' = [rows EXCEPT ![d] = r] /\ UNCHANGED faults
    \/ Fault /\ UNCHANGED rows

Tick ==
    /\ clock < MaxClock
    /\ Prompt => \A d \in Active : mem[d].created + ExpireAfter > clock
    /\ clock' = clock + 1
    /\ UNCHANGED <<rows, objects, server, used>>

----------------------------------------------------------------------------
(***************************************************************************)
(* Create: the user's exports are read, then a new row is inserted and its *)
(* job dispatched (a Dispatch that waits for room is a longer queue).      *)
(* A request that is refused changes nothing.                              *)
(***************************************************************************)
CheckExisting(r, u) ==
    /\ req[r] = {}
    /\ clock <= LastPost
    /\ \A d \in OfUser(u) : ~ InProgress(rows[d])
    /\ req' = [req EXCEPT ![r] = {u}]
    /\ UNCHANGED <<clock, rows, objects, queue, stage, mem, hk, clearer, used>>

InsertDump(r, d) ==
    \E u \in req[r] :
        /\ clock <= LastPost
        /\ stage[d] = "unused"
        /\ req' = [req EXCEPT ![r] = {}]
        /\ \/ LET new == [user |-> u, status |-> "pending", processing |-> TRUE,
                          stuck |-> FALSE, failed |-> FALSE, created |-> clock]
              IN /\ rows' = [rows EXCEPT ![d] = new]
                 /\ mem' = [mem EXCEPT ![d] = new]
                 /\ stage' = [stage EXCEPT ![d] = "queued"]
                 /\ queue' = Append(queue, d)
                 /\ UNCHANGED faults
           \/ Fault /\ UNCHANGED <<rows, mem, stage, queue>>
        /\ UNCHANGED <<clock, objects, hk, clearer, crashes, clears>>

----------------------------------------------------------------------------
(***************************************************************************)
(* process, with uploadHeartbeatsDump and uploadDailyDump, which differ in *)
(* what they upload only.  The result of the Saves on the way is ignored.  *)
(***************************************************************************)
Change(d, r, next) ==
    /\ mem' = [mem EXCEPT ![d] = r]
    /\ stage' = [stage EXCEPT ![d] = next]
    /\ Save(d, r)
    /\ UNCHANGED <<clock, objects, req, hk, clearer, crashes, clears>>

Begin(d) ==
    /\ queue # <<>> /\ d = Head(queue)
    /\ Cardinality({e \in Dumps : stage[e] \in Running}) < Workers
    /\ queue' = Tail(queue)
    /\ Change(d, [mem[d] EXCEPT !.status = "processing"], "started")

StartUpload(d) ==
    /\ stage[d] = "started"
    /\ Change(d, [mem[d] EXCEPT !.status = "uploading"], "uploading")
    /\ UNCHANGED queue

\* the data cannot be read, or there is no object storage
CannotUpload(d) ==
    /\ stage[d] = "started"
    /\ Fault
    /\ stage' = [stage EXCEPT ![d] = "failing"]
    /\ UNCHANGED <<clock, rows, objects, req, queue, mem, hk, clearer, crashes, clears>>

\* mutant: the error of the upload is not looked at
UploadUnchecked(d) ==
    /\ stage[d] = "uploading"
    /\ stage' = [stage EXCEPT ![d] = "uploaded"]
    /\ \/ objects' = objects \union {d} /\ UNCHANGED faults
       \/ Fault /\ UNCHANGED objects
    /\ UNCHANGED <<clock, rows, req, queue, mem, hk, clearer, crashes, clears>>

\* the upload succeeds, or it fails whether or not the file has been stored
Upload(d) ==
    /\ stage[d] = "uploading"
    /\ \/ /\ objects' = objects \union {d}
          /\ stage' = [stage EXCEPT ![d] = "uploaded"]
          /\ UNCHANGED faults
       \/ /\ Fault
          /\ objects' \in {objects, objects \union {d}}
          /\ stage' = [stage EXCEPT ![d] = "failing"]
    /\ UNCHANGED <<clock, rows, req, queue, mem, hk, clearer, crashes, clears>>

Finish(d) ==
    /\ stage[d] = "uploaded"
    /\ Change(d, [mem[d] EXCEPT !.status = "completed", !.processing = FALSE], "ended")
    /\ UNCHANGED queue

\* mutant: a status no client knows
FailUnknownStatus(d) ==
    /\ stage[d] = "failing"
    /\ Change(d, [mem[d] EXCEPT !.status = "failed", !.processing = FALSE,
                                !.failed = TRUE], "ended")
    /\ UNCHANGED queue

Fail(d) ==
    /\ stage[d] = "failing"
    /\ Change(d, [mem[d] EXCEPT !.status = "completed", !.processing = FALSE,
                                !.failed = TRUE], "ended")
    /\ UNCHANGED queue

----------------------------------------------------------------------------
(***************************************************************************)
(* The housekeeping job: MarkStuckDumps, then CleanupExpired.              *)
(***************************************************************************)
hkRest == <<clock, req, queue, stage, mem, clearer, crashes, clears>>

ReadForMarking(found) ==
    /\ hk.pc = "idle"
    /\ hk' = [pc |-> "mark", todo |-> found, current |-> {},
              copy |-> [d \in Dumps |-> IF d \in found THEN rows[d] ELSE NoRow]]
    /\ UNCHANGED <<hkRest, rows, objects, faults>>

\* mutant: only exports a worker has begun are looked for
FindStuckBegun == ReadForMarking({d \in Stored : Overdue(rows[d]) /\ rows[d].status # "pending"})

FindStuck == ReadForMarking({d \in Stored : Overdue(rows[d])})

\* the copy read before is saved; an error ends MarkStuckDumps
MarkStuck(d) ==
    /\ hk.pc = "mark" /\ d \in hk.todo
    /\ \/ /\ rows' = [rows EXCEPT ![d] = [hk.copy[d] EXCEPT !.stuck = TRUE]]
          /\ hk' = [hk EXCEPT !.todo = @ \ {d}, !.copy[d] = NoRow]
          /\ UNCHANGED faults
       \/ /\ Fault
          /\ hk' = [hk EXCEPT !.todo = {}, !.copy = NoRows]
          /\ UNCHANGED rows
    /\ UNCHANGED <<hkRest, objects>>

ReadForCleanup(found) ==
    /\ hk.pc = "mark" /\ hk.todo = {}
    /\ hk' = [IdleHk EXCEPT !.pc = "clean", !.todo = found]
    /\ UNCHANGED <<hkRest, rows, objects, faults>>

\* mutant: only exports that are not being processed expire
FindExpiredEnded == ReadForCleanup({d \in Stored : Expired(rows[d]) /\ ~ rows[d].processing})

FindExpired == ReadForCleanup({d \in Stored : Expired(rows[d])})

\* mutant: the row goes although the file could not be deleted
DeleteExpiredObjectOnward(d) ==
    /\ hk.pc = "clean" /\ d \in hk.todo
    /\ hk' = [hk EXCEPT !.pc = "row", !.todo = @ \ {d}, !.current = {d}]
    /\ \/ objects' = objects \ {d} /\ UNCHANGED faults
       \/ Fault /\ UNCHANGED objects
    /\ UNCHANGED <<hkRest, rows>>

\* the file first; an export whose file cannot be deleted is left for later
DeleteExpiredObject(d) ==
    /\ hk.pc = "clean" /\ d \in hk.todo
    /\ \/ /\ objects' = objects \ {d}
          /\ hk' = [hk EXCEPT !.pc = "row", !.todo = @ \ {d}, !.current = {d}]
          /\ UNCHANGED faults
       \/ /\ Fault
          /\ hk' = [hk EXCEPT !.todo = @ \ {d}]
          /\ UNCHANGED objects
    /\ UNCHANGED <<hkRest, rows>>

DeleteExpiredRow(d) ==
    /\ hk.pc = "row" /\ d \in hk.current
    /\ hk' = [hk EXCEPT !.pc = "clean", !.current = {}]
    /\ Save(d, NoRow)
    /\ UNCHANGED <<hkRest, objects>>

HousekeepingEnds ==
    /\ hk.pc = "clean" /\ hk.todo = {}
    /\ hk' = IdleHk
    /\ UNCHANGED <<hkRest, rows, objects, faults>>

----------------------------------------------------------------------------
(***************************************************************************)
(* DeleteByUser: the user's exports are read, their files deleted one by   *)
(* one, then all rows the user has at that time.                           *)
(***************************************************************************)
clearRest == <<clock, req, queue, stage, mem, hk, crashes>>

StartClear(u) ==
    /\ u \in Clearers
    /\ clearer[u].pc = "idle"
    /\ clears < MaxClears
    /\ clears' = clears + 1
    /\ clearer' = [clearer EXCEPT ![u] = [pc |-> "objects", todo |-> OfUser(u)]]
    /\ UNCHANGED <<clearRest, rows, objects, faults>>

ClearObject(u, d) ==
    /\ clearer[u].pc = "objects" /\ d \in clearer[u].todo
    /\ \/ /\ objects' = objects \ {d}
          /\ clearer' = [clearer EXCEPT ![u].todo = @ \ {d}]
          /\ UNCHANGED faults
       \/ /\ Fault
          /\ clearer' = [clearer EXCEPT ![u] = IdleClearer]
          /\ UNCHANGED objects
    /\ UNCHANGED <<clearRest, rows, clears>>

ClearRows(u) ==
    /\ clearer[u] = [pc |-> "objects", todo |-> {}]
    /\ clearer' = [clearer EXCEPT ![u] = IdleClearer]
    /\ \/ /\ rows' = [d \in Dumps |-> IF d \in OfUser(u) THEN NoRow ELSE rows[d]]
          /\ UNCHANGED faults
       \/ Fault /\ UNCHANGED rows
    /\ UNCHANGED <<clearRest, objects, clears>>

----------------------------------------------------------------------------
\* The process dies: jobs, requests and everything else in memory are lost, and
\* nothing picks the jobs up again.
Crash ==
    /\ crashes < MaxCrashes
    /\ crashes' = crashes + 1
    /\ req' = [r \in Reqs |-> {}]
    /\ queue' = <<>>
    /\ stage' = [d \in Dumps |-> IF stage[d] = "unused" THEN "unused" ELSE "ended"]
    /\ mem' = NoRows
    /\ hk' = IdleHk
    /\ clearer' = [u \in Users |-> IdleClearer]
    /\ UNCHANGED <<clock, rows, objects, faults, clears>>

JobStep(d) == Begin(d) \/ StartUpload(d) \/ CannotUpload(d) \/ Upload(d)
              \/ Finish(d) \/ Fail(d)

HousekeepingStep ==
    \/ FindStuck \/ FindExpired \/ HousekeepingEnds
    \/ \E d \in Dumps : MarkStuck(d) \/ DeleteExpiredObject(d) \/ DeleteExpiredRow(d)

ClearStep(u) == ClearRows(u) \/ (\E d \in Dumps : ClearObject(u, d))

Next ==
    \/ Tick \/ Crash \/ HousekeepingStep
    \/ \E r \in Reqs : \/ \E u \in Users : CheckExisting(r, u)
                        \/ \E d \in Dumps : InsertDump(r, d)
    \/ \E d \in Dumps : JobStep(d)
    \/ \E u \in Users : StartClear(u) \/ ClearStep(u)

Spec == Init /\ [][Next]_vars

\* Time passes, workers work, and the housekeeping job is scheduled for ever.
FairSpec ==
    /\ Spec
    /\ WF_vars(Tick) /\ WF_vars(HousekeepingStep)
    /\ \A d \in Dumps : WF_vars(JobStep(d))
    /\ \A u \in Users : WF_vars(ClearStep(u))

----------------------------------------------------------------------------
(***************************************************************************)
(* Properties.                                                             *)
(***************************************************************************)
MaybeRow   == Row \union {NoRow}
HkState    == [pc : {"idle", "mark", "clean", "row"}, todo : SUBSET Dumps,
               current : SUBSET Dumps, copy : [Dumps -> MaybeRow]]
ClearState == [pc : {"idle", "objects"}, todo : SUBSET Dumps]

\* Every variable stays within its type (the columns of data_dumps, the jobs).
TypeOK ==
    /\ clock \in Nat
    /\ rows \in [Dumps -> MaybeRow]
    /\ objects \subseteq Dumps
    /\ req \in [Reqs -> SUBSET Users]
    /\ queue \in Seq(Dumps)
    /\ stage \in [Dumps -> Stage]
    /\ mem \in [Dumps -> MaybeRow]
    /\ hk \in HkState
    /\ clearer \in [Users -> ClearState]
    /\ faults \in Nat /\ crashes \in Nat /\ clears \in Nat

\* Create refuses an export with "a data export is already in progress, please
\* wait for it to complete": a user never has two exports in progress.
OneInProgress ==
    \A u \in Users : \A d, e \in OfUser(u) :
        InProgress(rows[d]) /\ InProgress(rows[e]) => d = e

\* Files are found through rows only: a stored file has its row, or a job that
\* will write it, so that the file can be deleted when the export expires.
NoOrphanFile == objects \subseteq Stored \union Active

\* An export that is reported as completed, has not failed and has not expired
\* can be downloaded: the file is there.
CompletedHasFile ==
    \A d \in Stored :
        rows[d].status = "completed" /\ ~ rows[d].failed /\ ~ Expired(rows[d]) =>
            d \in objects

\* An export does not block its user for ever, whatever fails or crashes: it
\* ends, fails, is marked as stuck or is removed.
ExportSettles ==
    \A d \in Dumps :
        (rows[d] # NoRow /\ InProgress(rows[d])) ~>
            ~ (rows[d] # NoRow /\ InProgress(rows[d]))

\* Every export is removed, row and file, after it has expired.
ExportRemoved == \A d \in Dumps : rows[d] # NoRow ~> (rows[d] = NoRow /\ d \notin objects)
============================================================================
