---------------------------- MODULE Aggregation ----------------------------
(***************************************************************************)
(* The daily aggregation of heartbeats into persisted summaries:           *)
(* services/aggregation.go, the parts of services/summary.go and           *)
(* services/duration.go a job executes, and the "regenerate summaries"     *)
(* action of routes/settings.go.                                           *)
(*                                                                         *)
(* A run is one call of AggregateSummaries: the cron job of the default    *)
(* queue (which names no user and so means all of them), or the goroutine  *)
(* of a settings request (which names one user).  A run reads the database *)
(* in separate queries, cuts the days that are still missing into one job  *)
(* per day and pushes the jobs, through an unbuffered channel and a        *)
(* forwarding goroutine, into the bounded queue of the worker pool.  The   *)
(* workers turn a job into a summary and insert it.                        *)
(*                                                                         *)
(* Time is counted in slots; DayLen slots make a day and slot 0 of a day   *)
(* is its first second (the code subtracts one second from a time before   *)
(* it rounds to the next day).  A heartbeat is its time: projects,         *)
(* languages and durations belong to another module.                       *)
(***************************************************************************)
EXTENDS Integers, Sequences, FiniteSets

CONSTANTS
    Users,       \* ids of the users that exist at the start
    Deletable,   \* those of them whose account may be deleted
    Regens,      \* settings requests that may ask for a regeneration
    Cron,        \* the run of the scheduled job
    Workers,     \* workers of the processing queue
    NoUser,      \* the nil user of a job whose user is gone
    DayLen,      \* slots per day
    Timeout,     \* a gap of this many slots starts a new duration
    MaxDay,      \* bound: the last day of the horizon
    MaxBeats,    \* bound: heartbeats per user
    MaxClicks,   \* bound: regenerations asked for
    MaxFaults,   \* bound: failing database calls
    MaxCrashes,  \* bound: crashes of the server process
    QueueCap,    \* capacity of the processing queue (4096 in the code)
    Backlog      \* may the cron job fire while yesterday's jobs are queued?

ASSUME ConstantsAssumption ==
    /\ Deletable \subseteq Users
    /\ Cron \notin Regens
    /\ NoUser \notin Users
    /\ DayLen \in Nat \ {0}
    /\ Timeout \in Nat \ {0}
    /\ MaxDay \in Nat
    /\ MaxBeats \in Nat /\ MaxClicks \in Nat
    /\ MaxFaults \in Nat /\ MaxCrashes \in Nat
    /\ QueueCap \in Nat \ {0}
    /\ Backlog \in BOOLEAN

VARIABLES
    today,       \* index of the current day
    users,       \* users table: the ids that exist
    beats,       \* heartbeats table: user -> times
    sums,        \* summaries table (rows that are equal count as one)
    inProgress,  \* AggregationService.inProgress
    latch,       \* SettingsHandler.aggregationLocks
    run,         \* the calls of AggregateSummaries
    queue,       \* the processing queue
    work,        \* per worker: the summary it has computed, not yet inserted
    cronDay,     \* the last day the cron job fired
    clearing,    \* users whose heartbeats a "clear data" has yet to delete
    clicks, faults, crashes   \* how much of each bound is used up

db   == <<users, beats, sums>>
mem  == <<inProgress, latch, run, queue, work, clearing>>
used == <<clicks, faults, crashes>>
vars == <<today, db, mem, cronDay, used>>

Runs == Regens \union {Cron}
Time == Nat
Job  == [user : Users \union {NoUser}, day : Nat]

Day(t)      == t \div DayLen
StartOf(d)  == d * DayLen
Window(d)   == {t \in Time : StartOf(d) <= t /\ t < StartOf(d + 1)}

(***************************************************************************)
(* Summarize: what a job makes of the heartbeats of its window.  Without   *)
(* heartbeats the summary spans the whole window; otherwise it spans from  *)
(* the first heartbeat to the START of the last duration.  `covers' is the *)
(* set of heartbeats whose activity the summary's items hold.              *)
(***************************************************************************)
Earliest(B)  == {b \in B : \A c \in B : b <= c}
Latest(B)    == {b \in B : \A c \in B : c <= b}
Starts(B)    == {b \in B : \A c \in B : c < b => b - c >= Timeout}

Summary == [user : Users, from : Time, to : Time, covers : SUBSET Time]

Summarize(u, d, B) ==
    IF B = {}
    THEN {[user |-> u, from |-> StartOf(d), to |-> StartOf(d + 1), covers |-> {}]}
    ELSE {[user |-> u, from |-> f, to |-> s, covers |-> B] :
             f \in Earliest(B), s \in Latest(Starts(B))}

(***************************************************************************)
(* generateUserJobs: from the day after `start' (one second is taken off   *)
(* first, so that a summary ending at midnight continues with that day) up *)
(* to and including yesterday, one job per day.                            *)
(***************************************************************************)
\* mutants: the second is not taken off; the next day is not moved to
NextDayOfMidnight(start) == Day(start) + 1
NextDayUnmoved(start)    == Day(start - 1)

NextDay(start) == Day(start - 1) + 1

\* mutants: up to and including today; a single day instead of all missing ones
UserJobsToday(u, start, now) ==
    [i \in 1..(IF NextDay(start) <= now THEN now + 1 - NextDay(start) ELSE 0) |->
        [user |-> u, day |-> NextDay(start) + i - 1]]
UserJobsOne(u, start, now) ==
    [i \in 1..(IF NextDay(start) < now THEN 1 ELSE 0) |->
        [user |-> u, day |-> NextDay(start)]]

UserJobs(u, start, now) ==
    [i \in 1..(IF NextDay(start) < now THEN now - NextDay(start) ELSE 0) |->
        [user |-> u, day |-> NextDay(start) + i - 1]]

\* a time that may be invalid is a set of at most one time
NoTimes == [u \in Users |-> {}]
IdleRun == [pc |-> "idle", target |-> {}, last |-> NoTimes, first |-> NoTimes,
            known |-> {}, todo |-> {}, pipe |-> <<>>]

Init ==
    /\ today = 0
    /\ users = Users
    /\ beats = [u \in Users |-> {}]
    /\ sums = {}
    /\ inProgress = {}
    /\ latch = [u \in Users |-> FALSE]
    /\ run = [r \in Runs |-> IdleRun]
    /\ queue = <<>>
    /\ work = [w \in Workers |-> {}]
    /\ clearing = {}
    /\ cronDay = 0
    /\ clicks = 0 /\ faults = 0 /\ crashes = 0

At(r, pc) == run[r].pc = pc
RowsOf(u) == {s \in sums : s.user = u}

(***************************************************************************)
(* The environment: midnight passes, a client posts a heartbeat (of today, *)
(* or a late one of a former day), an account is deleted (its rows go with *)
(* it, by the ON DELETE CASCADE of the tables).                            *)
(***************************************************************************)
Midnight ==
    /\ today < MaxDay
    /\ today' = today + 1
    /\ UNCHANGED <<db, mem, cronDay, used>>

PostHeartbeat(u) ==
    /\ u \in users
    /\ Cardinality(beats[u]) < MaxBeats
    /\ \E d \in 0..today : \E t \in StartOf(d)..(StartOf(d + 1) - 1) :
          /\ t \notin beats[u]
          /\ beats' = [beats EXCEPT ![u] = @ \union {t}]
    /\ UNCHANGED <<today, users, sums, mem, cronDay, used>>

DeleteUser(u) ==
    /\ u \in Deletable \intersect users
    /\ users' = users \ {u}
    /\ beats' = [beats EXCEPT ![u] = {}]
    /\ sums' = {r \in sums : r.user # u}
    /\ UNCHANGED <<today, mem, cronDay, used>>

----------------------------------------------------------------------------
(***************************************************************************)
(* AggregateSummaries.                                                     *)
(***************************************************************************)
Drained == queue = <<>> /\ (\A w \in Workers : work[w] = {})

CronFires ==
    /\ At(Cron, "idle") /\ run[Cron].pipe = <<>>
    /\ cronDay < today
    /\ Backlog \/ Drained
    /\ cronDay' = today
    /\ run' = [run EXCEPT ![Cron].pc = "lock", ![Cron].target = {}]
    /\ UNCHANGED <<today, db, inProgress, latch, queue, work, clearing, used>>

\* mutant: lockUsers does not look at who is in progress
LockUnchecked(r) ==
    /\ At(r, "lock")
    /\ inProgress' = inProgress \union run[r].target
    /\ run' = [run EXCEPT ![r].pc = "readLast"]
    /\ UNCHANGED <<today, db, latch, queue, work, clearing, cronDay, used>>

\* lockUsers succeeds: no requested user is in progress
Lock(r) ==
    /\ At(r, "lock")
    /\ run[r].target \intersect inProgress = {}
    /\ inProgress' = inProgress \union run[r].target
    /\ run' = [run EXCEPT ![r].pc = "readLast"]
    /\ UNCHANGED <<today, db, latch, queue, work, clearing, cronDay, used>>

\* lockUsers fails: the call returns before the deferred unlock is set up
LockRefused(r) ==
    /\ At(r, "lock")
    /\ run[r].target \intersect inProgress # {}
    /\ run' = [run EXCEPT ![r].pc = "unlatch"]
    /\ UNCHANGED <<today, db, inProgress, latch, queue, work, clearing, cronDay, used>>

\* GetLatestByUser; the repository drops a database error and returns no row
ReadLast(r) ==
    /\ At(r, "readLast")
    /\ \/ /\ run' = [run EXCEPT ![r].pc = "readFirst",
                                ![r].last = [u \in Users |-> Latest({s.to : s \in RowsOf(u)})],
                                ![r].todo = users]
          /\ UNCHANGED faults
       \/ /\ faults < MaxFaults
          /\ faults' = faults + 1
          /\ run' = [run EXCEPT ![r].pc = "readFirst", ![r].todo = {}]
    /\ UNCHANGED <<today, db, inProgress, latch, queue, work, clearing, cronDay, clicks, crashes>>

\* GetFirstByUsers; a database error again looks like an empty result
ReadFirst(r) ==
    /\ At(r, "readFirst")
    /\ \/ /\ run' = [run EXCEPT ![r].pc = "readUsers",
                                ![r].first = [u \in Users |-> Earliest(beats[u])]]
          /\ UNCHANGED faults
       \/ /\ faults < MaxFaults
          /\ faults' = faults + 1
          /\ run' = [run EXCEPT ![r].pc = "readUsers", ![r].first = NoTimes]
    /\ UNCHANGED <<today, db, inProgress, latch, queue, work, clearing, cronDay, clicks, crashes>>

\* GetManyMapped or GetAllMapped; here an error ends the call
ReadUsers(r) ==
    /\ At(r, "readUsers")
    /\ \/ /\ run' = [run EXCEPT ![r].pc = "emit",
                                ![r].known = users,
                                ![r].todo = IF run[r].target = {} THEN @
                                            ELSE @ \intersect run[r].target]
          /\ UNCHANGED faults
       \/ /\ faults < MaxFaults
          /\ faults' = faults + 1
          /\ run' = [run EXCEPT ![r].pc = "emit", ![r].todo = {}]
    /\ UNCHANGED <<today, db, inProgress, latch, queue, work, clearing, cronDay, clicks, crashes>>

\* The loop over lastUserSummaryTimes.  The channel is unbuffered, so the next
\* user's turn comes once the forwarding goroutine has taken the last job.
EmitUser(r, u) ==
    LET ref   == run[r]
        start == IF ref.last[u] # {} THEN ref.last[u] ELSE ref.first[u]
        who   == IF u \in ref.known THEN u ELSE NoUser
    IN
    /\ At(r, "emit")
    /\ u \in ref.todo
    /\ Len(ref.pipe) <= 1
    /\ \/ /\ start = {}
          /\ run' = [run EXCEPT ![r].todo = @ \ {u}]
       \/ \E t \in start :
             run' = [run EXCEPT ![r].todo = @ \ {u},
                                ![r].pipe = @ \o UserJobs(who, t, today)]
    /\ UNCHANGED <<today, db, inProgress, latch, queue, work, clearing, cronDay, used>>

\* The forwarding goroutine dispatches; Dispatch blocks while the queue is full
Forward(r) ==
    /\ run[r].pipe # <<>>
    /\ Len(queue) < QueueCap
    /\ queue' = Append(queue, Head(run[r].pipe))
    /\ run' = [run EXCEPT ![r].pipe = Tail(@)]
    /\ UNCHANGED <<today, db, inProgress, latch, work, clearing, cronDay, used>>

\* mutant: the request's goroutine ends without giving the latch back
ReturnLatched(r) ==
    /\ At(r, "emit")
    /\ run[r].todo = {}
    /\ Len(run[r].pipe) <= 1
    /\ inProgress' = inProgress \ run[r].target
    /\ run' = [run EXCEPT ![r] = [IdleRun EXCEPT !.pipe = run[r].pipe]]
    /\ UNCHANGED <<today, db, latch, queue, work, clearing, cronDay, used>>

\* The call returns: every job has been taken from the channel, and the users
\* are unlocked although their jobs are still queued
Return(r) ==
    /\ At(r, "emit")
    /\ run[r].todo = {}
    /\ Len(run[r].pipe) <= 1
    /\ inProgress' = inProgress \ run[r].target
    /\ run' = [run EXCEPT ![r] = [IdleRun EXCEPT
                                    !.pc = IF r = Cron THEN "idle" ELSE "unlatch",
                                    !.target = run[r].target,
                                    !.pipe = run[r].pipe]]
    /\ UNCHANGED <<today, db, latch, queue, work, clearing, cronDay, used>>

----------------------------------------------------------------------------
(***************************************************************************)
(* The settings page: actionRegenerateSummaries and its goroutine.         *)
(***************************************************************************)
\* the request: answered with 409 while the user's latch is set
ClickRegenerate(r, u) ==
    /\ At(r, "idle") /\ run[r].pipe = <<>>
    /\ u \in users
    /\ clicks < MaxClicks
    /\ ~ latch[u]
    /\ clicks' = clicks + 1
    /\ run' = [run EXCEPT ![r].pc = "latch", ![r].target = {u}]
    /\ UNCHANGED <<today, db, inProgress, latch, queue, work, clearing, cronDay, faults, crashes>>

SetLatch(r, closed, next) ==
    /\ latch' = [u \in Users |-> IF u \in run[r].target THEN closed ELSE latch[u]]
    /\ run' = [run EXCEPT ![r] = next]
    /\ UNCHANGED <<today, db, inProgress, queue, work, clearing, cronDay, used>>

Latch(r)   == At(r, "latch") /\ SetLatch(r, TRUE, [run[r] EXCEPT !.pc = "clear"])
Unlatch(r) == At(r, "unlatch")
              /\ SetLatch(r, FALSE, [IdleRun EXCEPT !.pipe = run[r].pipe])

\* regenerateSummaries drops the user's summaries before it asks for the lock
ClearSummaries(r) ==
    /\ At(r, "clear")
    /\ \/ /\ sums' = {s \in sums : s.user \notin run[r].target}
          /\ run' = [run EXCEPT ![r].pc = "lock"]
          /\ UNCHANGED faults
       \/ /\ faults < MaxFaults
          /\ faults' = faults + 1
          /\ run' = [run EXCEPT ![r].pc = "unlatch"]
          /\ UNCHANGED sums
    /\ UNCHANGED <<today, users, beats, inProgress, latch, queue, work,
                   clearing, cronDay, clicks, crashes>>

\* actionClearData: the summaries go first, the heartbeats in a later query
ClearData(u) ==
    /\ u \in users \ clearing
    /\ clicks < MaxClicks
    /\ clicks' = clicks + 1
    /\ clearing' = clearing \union {u}
    /\ \/ /\ sums' = sums \ RowsOf(u)
          /\ UNCHANGED faults
       \/ /\ faults < MaxFaults          \* the error is only logged
          /\ faults' = faults + 1
          /\ UNCHANGED sums
    /\ UNCHANGED <<today, users, beats, inProgress, latch, run, queue,
                   work, cronDay, crashes>>

ClearHeartbeats(u) ==
    /\ u \in clearing
    /\ clearing' = clearing \ {u}
    /\ \/ /\ beats' = [beats EXCEPT ![u] = {}]
          /\ UNCHANGED faults
       \/ /\ faults < MaxFaults
          /\ faults' = faults + 1
          /\ UNCHANGED beats
    /\ UNCHANGED <<today, users, sums, inProgress, latch, run, queue,
                   work, cronDay, clicks, crashes>>

----------------------------------------------------------------------------
(***************************************************************************)
(* The workers: AggregationService.process.                                *)
(***************************************************************************)
\* the job is taken and its window read; nothing sees the two apart
Process(w) ==
    LET job == Head(queue) IN
    /\ work[w] = {} /\ queue # <<>>
    /\ job.user # NoUser
    /\ queue' = Tail(queue)
    /\ \/ /\ \E s \in Summarize(job.user, job.day,
                                beats[job.user] \intersect Window(job.day)) :
                work' = [work EXCEPT ![w] = {s}]
          /\ UNCHANGED faults
       \/ /\ faults < MaxFaults            \* the heartbeats cannot be read
          /\ faults' = faults + 1
          /\ UNCHANGED work
    /\ UNCHANGED <<today, db, inProgress, latch, run, clearing, cronDay, clicks, crashes>>

\* Insert; the foreign key refuses the row of a user that is gone
InsertSummary(w) ==
    \E s \in work[w] :
        /\ work' = [work EXCEPT ![w] = {}]
        /\ \/ /\ s.user \in users
              /\ sums' = sums \union {s}
              /\ UNCHANGED faults
           \/ /\ s.user \in users /\ faults < MaxFaults
              /\ faults' = faults + 1
              /\ UNCHANGED sums
           \/ /\ s.user \notin users
              /\ UNCHANGED <<sums, faults>>
        /\ UNCHANGED <<today, users, beats, inProgress, latch, run, queue,
                       clearing, cronDay, clicks, crashes>>

\* the process dies and starts again: everything in memory is gone
Restart ==
    /\ inProgress' = {}
    /\ latch' = [u \in Users |-> FALSE]
    /\ run' = [r \in Runs |-> IdleRun]
    /\ queue' = <<>>
    /\ work' = [w \in Workers |-> {}]
    /\ clearing' = {}

Crash ==
    /\ crashes < MaxCrashes
    /\ today < MaxDay               \* bound: the last day is free of crashes
    /\ crashes' = crashes + 1
    /\ Restart
    /\ UNCHANGED <<today, db, cronDay, clicks, faults>>

\* the nil user of a job is dereferenced in a worker goroutine
Panic(w) ==
    /\ work[w] = {} /\ queue # <<>>
    /\ Head(queue).user = NoUser
    /\ Restart
    /\ UNCHANGED <<today, db, cronDay, used>>

----------------------------------------------------------------------------
RunStep(r) ==
    \/ Lock(r) \/ LockRefused(r)
    \/ ReadLast(r) \/ ReadFirst(r) \/ ReadUsers(r)
    \/ (\E u \in Users : EmitUser(r, u))
    \/ Forward(r) \/ Return(r)
    \/ Latch(r) \/ Unlatch(r) \/ ClearSummaries(r)

WorkStep(w) == Process(w) \/ InsertSummary(w) \/ Panic(w)

Next ==
    \/ Midnight
    \/ CronFires
    \/ Crash
    \/ \E u \in Users :
          \/ PostHeartbeat(u) \/ DeleteUser(u)
          \/ ClearData(u) \/ ClearHeartbeats(u)
          \/ \E r \in Regens : ClickRegenerate(r, u)
    \/ \E r \in Runs : RunStep(r)
    \/ \E w \in Workers : WorkStep(w)

Spec == Init /\ [][Next]_vars

\* Time passes, the cron library fires its jobs, and the Go scheduler starves
\* no goroutine.
FairSpec ==
    /\ Spec
    /\ WF_vars(Midnight) /\ WF_vars(CronFires)
    /\ \A r \in Runs : WF_vars(RunStep(r))
    /\ \A w \in Workers : WF_vars(WorkStep(w))
    /\ \A u \in Users : WF_vars(ClearHeartbeats(u))

----------------------------------------------------------------------------
(***************************************************************************)
(* Properties.                                                             *)
(***************************************************************************)
PC       == {"idle", "latch", "clear", "lock", "readLast", "readFirst",
             "readUsers", "emit", "unlatch"}
RunState == [pc : PC, target : SUBSET Users, last : [Users -> SUBSET Time],
             first : [Users -> SUBSET Time], known : SUBSET Users,
             todo : SUBSET Users, pipe : Seq(Job)]

\* Every variable stays within its type (the types of the tables and of the
\* service's fields).
TypeOK ==
    /\ today \in Nat
    /\ users \subseteq Users
    /\ beats \in [Users -> SUBSET Time]
    /\ sums \subseteq Summary
    /\ inProgress \subseteq Users
    /\ latch \in [Users -> BOOLEAN]
    /\ run \in [Runs -> RunState]
    /\ queue \in Seq(Job)
    /\ work \in [Workers -> SUBSET Summary]
    /\ clearing \subseteq Users
    /\ cronDay \in Nat
    /\ clicks \in Nat /\ faults \in Nat /\ crashes \in Nat

WithinFinishedDay(s) ==
    \E d \in 0..(today - 1) :
        /\ StartOf(d) <= s.from /\ s.from <= s.to /\ s.to <= StartOf(d + 1)
        /\ s.covers \subseteq Window(d)

\* A persisted summary, and one about to be, lies within one day that is over
\* (generateUserJobs stops at the end of yesterday and cuts at midnight).
\* Summaries of different days therefore never overlap, and the current day,
\* to which heartbeats are still added, is never frozen.
OneFinishedDayPerRow ==
    /\ \A s \in sums : WithinFinishedDay(s)
    /\ \A w \in Workers : \A s \in work[w] : WithinFinishedDay(s)

Aggregating(r) == At(r, "readLast") \/ At(r, "readFirst")
                  \/ At(r, "readUsers") \/ At(r, "emit")

\* lockUsers and unlockUsers: two calls that name users never work on the same
\* user, and a user is marked as in progress exactly while such a call works.
LockExclusive ==
    /\ \A u \in Users : u \in inProgress <=>
          \E r \in Runs : Aggregating(r) /\ u \in run[r].target
    /\ \A q, r \in Runs :
          q # r /\ Aggregating(q) /\ Aggregating(r) =>
             run[q].target \intersect run[r].target = {}

DaysOf(u) == {Day(s.from) : s \in RowsOf(u)}

\* getMissingIntervals relies on "a summary exists for every single day in a
\* year and none is skipped": the days a user has summaries for are contiguous.
NoDaySkipped ==
    \A u \in Users : \A d, e \in DaysOf(u) : d..e \subseteq DaysOf(u)

\* The days that have rows are those of a ledger in which each follows the one before: the
\* cron job alone, with crashes at any time, implements what the reader of rows relies on.
Ledger == INSTANCE DailyLedger WITH days <- [u \in Users |-> DaysOf(u)]
LedgerKept == Ledger!Spec

\* mergeSummaries adds up summaries whose start times differ and assumes they
\* are distinct: two such summaries of a user share no heartbeat.
NoDoubleCount ==
    \A u \in Users : \A r, s \in RowsOf(u) :
        r.from # s.from => r.covers \intersect s.covers = {}

\* Once a day is over, and no aggregation from before is still under way, a
\* user with heartbeats of an earlier day ends up with a summary of that day,
\* whatever crashes (AggregateSummaries catches up from the latest summary).
Resting == At(Cron, "idle") /\ run[Cron].pipe = <<>> /\ Drained

UpToDate ==
    \A u \in Users : \A d \in 0..(MaxDay - 2) :
        (today = d + 1 /\ Resting /\ \E b \in beats[u] : Day(b) < d) ~>
            d \in DaysOf(u)

\* A settings request that was accepted gives the user's latch back, however
\* full the queue is.
LatchReleased == \A u \in Users : latch[u] ~> ~ latch[u]
============================================================================
