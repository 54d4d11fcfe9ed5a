-------------------------------- MODULE Jobs --------------------------------
(***************************************************************************)
(* The job queues (config/jobqueue.go) and what the hourly jobs of         *)
(* services/misc.go do with them: CountTotalTime, which dispatches a job   *)
(* per user to the processing queue and has a goroutine store the sum, and *)
(* ComputeOldestHeartbeats.                                                *)
(*                                                                         *)
(* A dispatcher (external) has a number of workers and a bounded channel;  *)
(* who dispatches to a full one waits.  The tickers dispatch in goroutines *)
(* of their own.                                                           *)
(***************************************************************************)
EXTENDS Naturals, Sequences, FiniteSets

CONSTANTS
    Users,
    HalfCPUs,    \* utils.HalfCPUs()
    Capacity,    \* of a queue's channel, 4096 in the code
    MaxRuns      \* bound: times that a ticker has its job dispatched

ASSUME SizesAssumption == IsFiniteSet(Users) /\ Capacity \in Nat /\ MaxRuns \in Nat

\* InitQueue, GetQueue and StartJobs, of queues given by their numbers of workers: a queue
\* that is there stays.  The services' constructors come before StartJobs (main.go), so
\* that each queue they use is made by GetQueue with one worker.  The default queue would
\* have one worker from StartJobs, too; the processing queue would have half the CPUs.
InitQueue(queues, name, workers) ==
    [q \in DOMAIN queues \union {name} |-> IF q \in DOMAIN queues THEN queues[q] ELSE workers]

GetQueue(queues, name) == InitQueue(queues, name, 1)

StartJobs(queues) == InitQueue(InitQueue(queues, "default", 1), "processing", HalfCPUs)

Queues == {"default", "processing"}
Workers == StartJobs(GetQueue(GetQueue([q \in {} |-> 0], "default"), "processing"))

VARIABLES
    channel,     \* the queues' channels: jobs [what, run, user]
    running,     \* what workers of a queue do: jobs with a pc
    countLock, firstDataLock,   \* who has the locks: a run, or 0
    pending,     \* jobs that a run's wait group waits for
    total,       \* users whose time a run has added up
    failed,      \* users whose time a run could not count: it added 0 for them
    persist,     \* the goroutine of a run: "none", "wait", "done", "late"
    stored,      \* the key-value of the total, and which run it is of
    first,       \* runs that stored the users' first heartbeats
    broken,      \* was a lock unlocked by who did not have it?
    runs         \* runs begun, of either job

vars == <<channel, running, countLock, firstDataLock, pending, total, failed, persist, stored, first, broken, runs>>

Run == 1 .. MaxRuns
NoUser == 0

Init ==
    /\ channel = [q \in Queues |-> <<>>]
    /\ running = [q \in Queues |-> {}]
    /\ countLock = 0 /\ firstDataLock = 0
    /\ pending = [r \in Run |-> 0]
    /\ total = [r \in Run |-> {}] /\ failed = [r \in Run |-> {}]
    /\ persist = [r \in Run |-> "none"]
    /\ stored = [total |-> {}, of |-> 0]
    /\ first = {} /\ broken = FALSE /\ runs = 0

Job(what, run, user) == [what |-> what, run |-> run, user |-> user]
Room(q)   == Len(channel[q]) < Capacity
Send(q, job) == Room(q) /\ channel' = [channel EXCEPT ![q] = Append(@, job)]
At(q, j, pc) == j \in running[q] /\ j.pc = pc
Becomes(q, j, k) == running' = [running EXCEPT ![q] = (@ \ {j}) \union {k}]
Ends(q, j)       == running' = [running EXCEPT ![q] = @ \ {j}]
To(j, pc)        == [j EXCEPT !.pc = pc]

\* DispatchEvery, and once at the start if nothing is stored yet
Tick ==
    /\ runs < MaxRuns /\ runs' = runs + 1
    /\ \E what \in {"CountTotalTime", "ComputeOldestHeartbeats"} :
          Send("default", Job(what, runs + 1, NoUser))
    /\ UNCHANGED <<running, countLock, firstDataLock, pending, total, failed, persist, stored, first, broken>>

\* a worker takes a job
Take(q) ==
    /\ Cardinality(running[q]) < Workers[q] /\ channel[q] # <<>>
    /\ channel' = [channel EXCEPT ![q] = Tail(@)]
    /\ LET j == Head(channel[q])
       IN running' = [running EXCEPT ![q] = @ \union
              {[what |-> j.what, run |-> j.run, user |-> j.user, pc |-> "start", left |-> Users]}]
    /\ UNCHANGED <<countLock, firstDataLock, pending, total, failed, persist, stored, first, broken, runs>>

\* CountTotalTime goes on when it does not get the lock
CountStart ==
    /\ \E j \in running["default"] :
          /\ j.what = "CountTotalTime" /\ j.pc = "start"
          /\ countLock' = IF countLock = 0 THEN j.run ELSE countLock
          /\ \/ /\ pending' = [pending EXCEPT ![j.run] = Cardinality(Users)]
                /\ Becomes("default", j, To(j, "dispatch"))
             \/ pending' = pending /\ Becomes("default", j, To(j, "unlock"))  \* no users: the query failed
    /\ UNCHANGED <<channel, firstDataLock, total, failed, persist, stored, first, broken, runs>>

CountDispatch ==
    /\ \E j \in running["default"] :
          /\ j.pc = "dispatch"
          /\ \/ \E u \in j.left :
                   /\ Send("processing", Job("countUserTotalTime", j.run, u))
                   /\ Becomes("default", j, [j EXCEPT !.left = @ \ {u}])
                   /\ persist' = persist
             \/ /\ j.left = {}
                /\ Becomes("default", j, To(j, "unlock"))
                /\ persist' = [persist EXCEPT ![j.run] = "wait"]
                /\ channel' = channel
    /\ UNCHANGED <<countLock, firstDataLock, pending, total, failed, stored, first, broken, runs>>

\* the deferred Unlock: Go ends the process when the lock is not locked
CountEnd ==
    /\ \E j \in running["default"] :
          /\ j.pc = "unlock"
          /\ broken' = (broken \/ countLock # j.run)
          /\ Ends("default", j)
    /\ countLock' = 0
    /\ UNCHANGED <<channel, firstDataLock, pending, total, failed, persist, stored, first, runs>>

\* mutant: the wait group is told before the user's time is added
CountUserDoneFirst ==
    /\ \E j \in running["processing"] :
          /\ j.what = "countUserTotalTime"
          /\ \/ /\ j.pc = "start"
                /\ pending' = [pending EXCEPT ![j.run] = @ - 1]
                /\ Becomes("processing", j, To(j, "done"))
                /\ total' = total
             \/ /\ j.pc = "done"
                /\ total' = [total EXCEPT ![j.run] = @ \union {j.user}]
                /\ Ends("processing", j)
                /\ pending' = pending
    /\ UNCHANGED <<channel, countLock, firstDataLock, failed, persist, stored, first, broken, runs>>

\* the time of a user is added, which is 0 if it cannot be counted; then, by the deferred
\* Done, the wait group is told
CountUser ==
    /\ \E j \in running["processing"] :
          /\ j.what = "countUserTotalTime"
          /\ \/ /\ j.pc = "start"
                /\ \/ total' = [total EXCEPT ![j.run] = @ \union {j.user}] /\ failed' = failed
                   \/ failed' = [failed EXCEPT ![j.run] = @ \union {j.user}] /\ total' = total
                /\ Becomes("processing", j, To(j, "done"))
                /\ pending' = pending
             \/ /\ j.pc = "done"
                /\ pending' = [pending EXCEPT ![j.run] = @ - 1]
                /\ Ends("processing", j)
                /\ UNCHANGED <<total, failed>>
    /\ UNCHANGED <<channel, countLock, firstDataLock, persist, stored, first, broken, runs>>

\* the goroutine that stores the sum when all is counted, or gives up after two hours; what
\* cannot be stored is only logged (the number of users, stored next, is left out)
Persist(r) ==
    /\ \/ /\ persist[r] = "wait" /\ pending[r] = 0
          /\ persist' = [persist EXCEPT ![r] = "done"]
          /\ stored' \in {stored, [total |-> total[r], of |-> r]}
       \/ /\ persist[r] = "wait" /\ pending[r] > 0
          /\ persist' = [persist EXCEPT ![r] = "late"]
          /\ stored' = stored
    /\ UNCHANGED <<channel, running, countLock, firstDataLock, pending, total, failed, first, broken, runs>>

\* ComputeOldestHeartbeats dispatches one job, which ends if it does not get its lock
ComputeOldest ==
    /\ \E j \in running["default"] :
          /\ j.what = "ComputeOldestHeartbeats"
          /\ Send("processing", Job("first data", j.run, NoUser))
          /\ Ends("default", j)
    /\ UNCHANGED <<countLock, firstDataLock, pending, total, failed, persist, stored, first, broken, runs>>

FirstData ==
    /\ \E j \in running["processing"] :
          /\ j.what = "first data"
          /\ \/ /\ j.pc = "start" /\ firstDataLock # 0
                /\ Ends("processing", j) /\ UNCHANGED <<firstDataLock, first>>
             \/ /\ j.pc = "start" /\ firstDataLock = 0
                /\ firstDataLock' = j.run
                /\ Becomes("processing", j, To(j, "unlock")) /\ first' = first
             \/ /\ j.pc = "unlock"
                /\ firstDataLock' = 0
                /\ \E ok \in BOOLEAN : first' = IF ok THEN first \union {j.run} ELSE first
                /\ Ends("processing", j)
    /\ UNCHANGED <<channel, countLock, pending, total, failed, persist, stored, broken, runs>>

Next ==
    \/ Tick \/ \E q \in Queues : Take(q)
    \/ CountStart \/ CountDispatch \/ CountEnd \/ CountUser \/ ComputeOldest \/ FirstData
    \/ \E r \in Run : Persist(r)

Spec == Init /\ [][Next]_vars

----------------------------------------------------------------------------
\* Properties

TypeOK ==
    /\ \A q \in Queues : Len(channel[q]) <= Capacity /\ Cardinality(running[q]) <= Workers[q]
    /\ countLock \in 0 .. MaxRuns /\ firstDataLock \in 0 .. MaxRuns
    /\ \A r \in Run : pending[r] \in 0 .. Cardinality(Users) /\ total[r] \subseteq Users
    /\ \A r \in Run : failed[r] \subseteq Users

\* The lock of the count is unlocked only by the run that has it, though a run that does
\* not get it unlocks it all the same; and what is stored lacks nobody's time but that of
\* users whose count failed, also when runs overlap in the processing queue and in the
\* goroutines that store.
CountsWhole ==
    /\ ~ broken
    /\ stored.of # 0 => Users \ failed[stored.of] \subseteq stored.total
============================================================================
