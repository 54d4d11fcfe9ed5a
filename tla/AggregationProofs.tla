------------------------- MODULE AggregationProofs -------------------------
(***************************************************************************)
(* Proofs about Aggregation for every number of users, requests, workers   *)
(* and days, every heartbeat timeout and queue capacity, and any number of *)
(* crashes and failing queries.                                            *)
(***************************************************************************)
EXTENDS Aggregation, SequenceTheorems, TLAPS

\* A job is for a day that is over: what makes a row one for a finished day.
JobsFinished ==
    /\ \A i \in DOMAIN queue : queue[i].day < today
    /\ \A r \in Runs : \A i \in DOMAIN run[r].pipe : run[r].pipe[i].day < today

IInv == TypeOK /\ JobsFinished /\ OneFinishedDayPerRow

\* The day index of a time is a natural number, and so is the next day's.
LEMMA NextDayNat == ASSUME NEW t \in Time PROVE NextDay(t) \in Nat
  <1>1. (t - 1) \div DayLen \in Int /\ (t - 1) \div DayLen >= -1
    BY ConstantsAssumption DEF Time
  <1> QED BY <1>1 DEF NextDay, Day

\* generateUserJobs: the jobs are for days that are over.
LEMMA UserJobsFinished ==
  ASSUME NEW u \in Users \union {NoUser}, NEW t \in Time, NEW now \in Nat
  PROVE  /\ UserJobs(u, t, now) \in Seq(Job)
         /\ \A i \in DOMAIN UserJobs(u, t, now) : UserJobs(u, t, now)[i].day < now
  <1> DEFINE n == IF NextDay(t) < now THEN now - NextDay(t) ELSE 0
  <1>1. NextDay(t) \in Nat
    BY NextDayNat
  <1>2. n \in Nat
    BY <1>1
  <1>3. UserJobs(u, t, now) = [i \in 1..n |-> [user |-> u, day |-> NextDay(t) + i - 1]]
    BY DEF UserJobs
  <1>4. \A i \in 1..n : NextDay(t) + i - 1 \in Nat /\ NextDay(t) + i - 1 < now
    BY <1>1
  <1> DEFINE job(i) == [user |-> u, day |-> NextDay(t) + i - 1]
  <1>5. \A i \in 1..n : job(i) \in Job /\ job(i).day < now
    BY <1>4 DEF Job
  <1>6. UserJobs(u, t, now) = [i \in 1..n |-> job(i)]
    BY <1>3
  <1> HIDE DEF n, job
  <1>7. UserJobs(u, t, now) \in Seq(Job) /\ DOMAIN UserJobs(u, t, now) = 1..n
    BY <1>2, <1>5, <1>6
  <1> QED BY <1>5, <1>6, <1>7

\* A day's window lies between its midnights, whatever the length of a day.
LEMMA StartOfNat == ASSUME NEW d \in Nat PROVE StartOf(d) \in Nat /\ StartOf(d) <= StartOf(d + 1)
  <1>1. d * DayLen \in Nat /\ (d + 1) * DayLen = d * DayLen + DayLen
    BY ConstantsAssumption
  <1> QED BY <1>1, ConstantsAssumption DEF StartOf

\* Summarize: the summary of a day's heartbeats lies within the day.
LEMMA SummarizeWithin ==
  ASSUME NEW u \in Users, NEW d \in Nat, NEW B \in SUBSET Time, B \subseteq Window(d),
         NEW s \in Summarize(u, d, B)
  PROVE  /\ s \in Summary
         /\ StartOf(d) <= s.from /\ s.from <= s.to /\ s.to <= StartOf(d + 1)
         /\ s.covers \subseteq Window(d)
  <1>1. StartOf(d) \in Nat /\ StartOf(d + 1) \in Nat /\ StartOf(d) <= StartOf(d + 1)
    BY StartOfNat
  <1>2. CASE B = {}
    BY <1>1, <1>2 DEF Summarize, Summary, Time
  <1>3. CASE B # {}
    <2>1. PICK f \in Earliest(B), e \in Latest(Starts(B)) :
             s = [user |-> u, from |-> f, to |-> e, covers |-> B]
      BY <1>3 DEF Summarize
    <2>2. f \in B /\ e \in B /\ f <= e
      BY DEF Earliest, Latest, Starts
    <2>3. /\ f \in Nat /\ e \in Nat
          /\ StartOf(d) <= f /\ e < StartOf(d + 1)
      BY <2>2 DEF Window, Time
    <2> QED BY <1>1, <2>1, <2>2, <2>3 DEF Summary, Time
  <1> QED BY <1>2, <1>3

----------------------------------------------------------------------------
LEMMA IdleRunType == IdleRun \in RunState
  BY DEF IdleRun, NoTimes, RunState, PC

\* Init establishes the invariant.
LEMMA InitInv == Init => IInv
  <1> SUFFICES ASSUME Init PROVE IInv
    OBVIOUS
  <1>1. TypeOK
    BY IdleRunType DEF Init, TypeOK
  <1>2. JobsFinished
    BY DEF Init, JobsFinished, IdleRun
  <1>3. OneFinishedDayPerRow
    BY DEF Init, OneFinishedDayPerRow
  <1> QED BY <1>1, <1>2, <1>3 DEF IInv

\* A restart leaves no job and no computed summary behind.
LEMMA RestartInv ==
  ASSUME IInv, Restart, today' = today, db' = db,
         cronDay' \in Nat, clicks' \in Nat, faults' \in Nat, crashes' \in Nat
  PROVE  IInv'
  <1>1. TypeOK'
    BY IdleRunType DEF IInv, TypeOK, Restart, db
  <1>2. JobsFinished'
    BY DEF Restart, JobsFinished, IdleRun
  <1>3. OneFinishedDayPerRow'
    BY DEF IInv, OneFinishedDayPerRow, WithinFinishedDay, Restart, db
  <1> QED BY <1>1, <1>2, <1>3 DEF IInv

\* A step of a run that leaves the pipes, the queue and the rows alone: only
\* the type of what it stores is left to show.
LEMMA QuietRunInv ==
  ASSUME IInv, NEW r \in Runs, NEW v \in RunState, v.pipe = run[r].pipe,
         run' = [run EXCEPT ![r] = v],
         inProgress' \subseteq Users, latch' \in [Users -> BOOLEAN],
         clicks' \in Nat, faults' \in Nat, cronDay' \in Nat,
         UNCHANGED <<today, users, beats, queue, work, clearing, crashes>>,
         sums' \subseteq sums
  PROVE  IInv'
  <1>1. TypeOK'
    BY DEF IInv, TypeOK
  <1>2. JobsFinished'
    BY DEF IInv, JobsFinished, TypeOK
  <1>3. OneFinishedDayPerRow'
    BY DEF IInv, OneFinishedDayPerRow, WithinFinishedDay
  <1> QED BY <1>1, <1>2, <1>3 DEF IInv

\* The environment's steps.
LEMMA EnvironmentInv ==
  ASSUME IInv,
         \/ Midnight
         \/ \E u \in Users : PostHeartbeat(u) \/ DeleteUser(u)
                             \/ ClearData(u) \/ ClearHeartbeats(u)
  PROVE  IInv'
  <1>1. CASE Midnight
    <2>1. TypeOK'
      BY <1>1 DEF IInv, TypeOK, Midnight, db, mem, used
    <2>2. JobsFinished'
      <3>1. \A j \in Job : j.day < today => j.day < today'
        BY <1>1 DEF IInv, TypeOK, Midnight, Job
      <3>2. queue \in Seq(Job) /\ \A r \in Runs : run[r].pipe \in Seq(Job)
        BY DEF IInv, TypeOK, RunState
      <3>3. \A i \in DOMAIN queue : queue[i] \in Job
        BY <3>2
      <3>4. \A r \in Runs : \A i \in DOMAIN run[r].pipe : run[r].pipe[i] \in Job
        BY <3>2
      <3> QED BY <1>1, <3>1, <3>3, <3>4 DEF IInv, JobsFinished, Midnight, mem
    <2>3. OneFinishedDayPerRow'
      <3>1. \A d \in 0..(today - 1) : d \in 0..(today' - 1)
        BY <1>1 DEF IInv, TypeOK, Midnight
      <3> QED BY <1>1, <3>1 DEF IInv, OneFinishedDayPerRow, WithinFinishedDay, Midnight, db, mem
    <2> QED BY <2>1, <2>2, <2>3 DEF IInv
  <1>2. ASSUME NEW u \in Users, PostHeartbeat(u) PROVE IInv'
    <2>0. PICK d \in 0..today : \E t \in StartOf(d)..(StartOf(d + 1) - 1) :
             beats' = [beats EXCEPT ![u] = @ \union {t}]
      BY <1>2 DEF PostHeartbeat
    <2>1. PICK t \in StartOf(d)..(StartOf(d + 1) - 1) :
             beats' = [beats EXCEPT ![u] = @ \union {t}]
      BY <2>0
    <2>2. t \in Time
      BY <2>1, StartOfNat DEF IInv, TypeOK, Time
    <2>3. TypeOK'
      BY <1>2, <2>1, <2>2 DEF IInv, TypeOK, PostHeartbeat, mem, used
    <2>4. JobsFinished' /\ OneFinishedDayPerRow'
      BY <1>2 DEF IInv, JobsFinished, OneFinishedDayPerRow, WithinFinishedDay, PostHeartbeat, mem
    <2> QED BY <2>3, <2>4 DEF IInv
  <1>3. ASSUME NEW u \in Users, DeleteUser(u) PROVE IInv'
    <2>1. TypeOK'
      BY <1>3 DEF IInv, TypeOK, DeleteUser, mem, used
    <2>2. JobsFinished' /\ OneFinishedDayPerRow'
      BY <1>3 DEF IInv, JobsFinished, OneFinishedDayPerRow, WithinFinishedDay, DeleteUser, mem
    <2> QED BY <2>1, <2>2 DEF IInv
  <1>4. ASSUME NEW u \in Users, ClearData(u) \/ ClearHeartbeats(u) PROVE IInv'
    <2>1. TypeOK'
      BY <1>4 DEF IInv, TypeOK, ClearData, ClearHeartbeats, RowsOf
    <2>2. JobsFinished' /\ OneFinishedDayPerRow'
      BY <1>4 DEF IInv, JobsFinished, OneFinishedDayPerRow, WithinFinishedDay,
                  ClearData, ClearHeartbeats
    <2> QED BY <2>1, <2>2 DEF IInv
  <1> QED BY <1>1, <1>2, <1>3, <1>4

\* The steps of a run that neither add to its pipe nor take from it.
LEMMA RunBookkeepingInv ==
  ASSUME IInv, NEW r \in Runs,
         \/ Lock(r) \/ LockRefused(r) \/ ReadLast(r) \/ ReadFirst(r) \/ ReadUsers(r)
         \/ Return(r) \/ Latch(r) \/ Unlatch(r) \/ ClearSummaries(r)
         \/ \E u \in Users : ClickRegenerate(r, u)
  PROVE  IInv'
  <1>0. run[r] \in RunState /\ IdleRun \in RunState
    BY IdleRunType DEF IInv, TypeOK
  <1>1. CASE Lock(r)
    <2> DEFINE v == [run[r] EXCEPT !.pc = "readLast"]
    <2>1. v \in RunState /\ v.pipe = run[r].pipe
      BY <1>0 DEF IInv, TypeOK, RunState, PC
    <2>2. run' = [run EXCEPT ![r] = v]
      BY <1>1, <1>0 DEF Lock, IInv, TypeOK, RunState
    <2> HIDE DEF v
    <2> QED BY <1>1, <2>1, <2>2, <1>0, QuietRunInv DEF Lock, IInv, TypeOK, RunState, db, used
  <1>2. CASE LockRefused(r)
    <2> DEFINE v == [run[r] EXCEPT !.pc = "unlatch"]
    <2>1. v \in RunState /\ v.pipe = run[r].pipe
      BY <1>0 DEF IInv, TypeOK, RunState, PC
    <2>2. run' = [run EXCEPT ![r] = v]
      BY <1>2, <1>0 DEF LockRefused, IInv, TypeOK, RunState
    <2> HIDE DEF v
    <2> QED BY <1>2, <2>1, <2>2, <1>0, QuietRunInv DEF LockRefused, IInv, TypeOK, RunState, db, used
  <1>3. CASE Latch(r)
    <2> DEFINE v == [run[r] EXCEPT !.pc = "clear"]
    <2>1. v \in RunState /\ v.pipe = run[r].pipe
      BY <1>0 DEF IInv, TypeOK, RunState, PC
    <2>2. run' = [run EXCEPT ![r] = v]
      BY <1>3, <1>0 DEF Latch, IInv, TypeOK, RunState, SetLatch
    <2> HIDE DEF v
    <2> QED BY <1>3, <2>1, <2>2, <1>0, QuietRunInv DEF Latch, IInv, TypeOK, RunState, db, used, SetLatch
  <1>4. CASE Unlatch(r)
    <2> DEFINE v == [IdleRun EXCEPT !.pipe = run[r].pipe]
    <2>1. v \in RunState /\ v.pipe = run[r].pipe
      BY <1>0 DEF IInv, TypeOK, RunState, PC, IdleRun, NoTimes
    <2>2. run' = [run EXCEPT ![r] = v]
      BY <1>4, <1>0 DEF Unlatch, IInv, TypeOK, RunState, SetLatch
    <2> HIDE DEF v
    <2> QED BY <1>4, <2>1, <2>2, <1>0, QuietRunInv DEF Unlatch, IInv, TypeOK, RunState, db, used, SetLatch
  <1>5. CASE Return(r)
    <2> DEFINE v == [IdleRun EXCEPT !.pc = IF r = Cron THEN "idle" ELSE "unlatch",
                                      !.target = run[r].target,
                                      !.pipe = run[r].pipe]
    <2>1. v \in RunState /\ v.pipe = run[r].pipe
      BY <1>0 DEF IInv, TypeOK, RunState, PC, IdleRun, NoTimes
    <2>2. run' = [run EXCEPT ![r] = v]
      BY <1>5, <1>0 DEF Return, IInv, TypeOK, RunState
    <2> HIDE DEF v
    <2> QED BY <1>5, <2>1, <2>2, <1>0, QuietRunInv DEF Return, IInv, TypeOK, RunState, db, used
  <1>6. CASE ReadLast(r)
    <2>0. [u \in Users |-> Latest({s.to : s \in RowsOf(u)})] \in [Users -> SUBSET Time]
      BY DEF IInv, TypeOK, Latest, RowsOf, Summary
    <2> DEFINE a == [run[r] EXCEPT !.pc = "readFirst",
                    !.last = [u \in Users |-> Latest({s.to : s \in RowsOf(u)})], !.todo = users]
           b == [run[r] EXCEPT !.pc = "readFirst", !.todo = {}]
    <2>1. a \in RunState /\ a.pipe = run[r].pipe
      BY <1>0, <2>0 DEF IInv, TypeOK, RunState, PC
    <2>2. b \in RunState /\ b.pipe = run[r].pipe
      BY <1>0 DEF RunState, PC, NoTimes
    <2>3. run' = [run EXCEPT ![r] = a] \/ run' = [run EXCEPT ![r] = b]
      BY <1>6, <1>0 DEF ReadLast, IInv, TypeOK
    <2>4. /\ inProgress' \subseteq Users /\ latch' \in [Users -> BOOLEAN]
          /\ clicks' \in Nat /\ faults' \in Nat /\ cronDay' \in Nat
          /\ UNCHANGED <<today, users, beats, queue, work, clearing, crashes>>
          /\ sums' \subseteq sums
      <3>1. /\ UNCHANGED <<inProgress, latch, clicks, cronDay>>
            /\ UNCHANGED <<today, users, beats, queue, work, clearing, crashes>>
        BY <1>6 DEF ReadLast, db
      <3>2. faults' = faults \/ faults' = faults + 1
        BY <1>6 DEF ReadLast
      <3>3. sums' \subseteq sums
        BY <1>6 DEF ReadLast, db
      <3> QED BY <3>1, <3>2, <3>3 DEF IInv, TypeOK
    <2> HIDE DEF a, b
    <2> QED BY <2>1, <2>2, <2>3, <2>4, QuietRunInv
  <1>7. CASE ReadFirst(r)
    <2>0. [u \in Users |-> Earliest(beats[u])] \in [Users -> SUBSET Time]
      BY DEF IInv, TypeOK, Earliest
    <2> DEFINE a == [run[r] EXCEPT !.pc = "readUsers",
                    !.first = [u \in Users |-> Earliest(beats[u])]]
           b == [run[r] EXCEPT !.pc = "readUsers", !.first = NoTimes]
    <2>1. a \in RunState /\ a.pipe = run[r].pipe
      BY <1>0, <2>0 DEF IInv, TypeOK, RunState, PC
    <2>2. b \in RunState /\ b.pipe = run[r].pipe
      BY <1>0 DEF RunState, PC, NoTimes
    <2>3. run' = [run EXCEPT ![r] = a] \/ run' = [run EXCEPT ![r] = b]
      BY <1>7, <1>0 DEF ReadFirst, IInv, TypeOK
    <2>4. /\ inProgress' \subseteq Users /\ latch' \in [Users -> BOOLEAN]
          /\ clicks' \in Nat /\ faults' \in Nat /\ cronDay' \in Nat
          /\ UNCHANGED <<today, users, beats, queue, work, clearing, crashes>>
          /\ sums' \subseteq sums
      BY <1>7 DEF ReadFirst, IInv, TypeOK, db
    <2> HIDE DEF a, b
    <2> QED BY <2>1, <2>2, <2>3, <2>4, QuietRunInv
  <1>8. CASE ReadUsers(r)
    <2> DEFINE a == [run[r] EXCEPT !.pc = "emit", !.known = users,
                    !.todo = IF run[r].target = {} THEN @ ELSE @ \intersect run[r].target]
           b == [run[r] EXCEPT !.pc = "emit", !.todo = {}]
    <2>1. a \in RunState /\ a.pipe = run[r].pipe
      BY <1>0 DEF IInv, TypeOK, RunState, PC
    <2>2. b \in RunState /\ b.pipe = run[r].pipe
      BY <1>0 DEF RunState, PC, NoTimes
    <2>3. run' = [run EXCEPT ![r] = a] \/ run' = [run EXCEPT ![r] = b]
      BY <1>8, <1>0 DEF ReadUsers, IInv, TypeOK
    <2>4. /\ inProgress' \subseteq Users /\ latch' \in [Users -> BOOLEAN]
          /\ clicks' \in Nat /\ faults' \in Nat /\ cronDay' \in Nat
          /\ UNCHANGED <<today, users, beats, queue, work, clearing, crashes>>
          /\ sums' \subseteq sums
      BY <1>8 DEF ReadUsers, IInv, TypeOK, db
    <2> HIDE DEF a, b
    <2> QED BY <2>1, <2>2, <2>3, <2>4, QuietRunInv
  <1>9. CASE ClearSummaries(r)
    <2> DEFINE a == [run[r] EXCEPT !.pc = "lock"]
           b == [run[r] EXCEPT !.pc = "unlatch"]
    <2>1. a \in RunState /\ a.pipe = run[r].pipe
      BY <1>0 DEF IInv, TypeOK, RunState, PC
    <2>2. b \in RunState /\ b.pipe = run[r].pipe
      BY <1>0 DEF RunState, PC, NoTimes
    <2>3. run' = [run EXCEPT ![r] = a] \/ run' = [run EXCEPT ![r] = b]
      BY <1>9, <1>0 DEF ClearSummaries, IInv, TypeOK
    <2>4. /\ inProgress' \subseteq Users /\ latch' \in [Users -> BOOLEAN]
          /\ clicks' \in Nat /\ faults' \in Nat /\ cronDay' \in Nat
          /\ UNCHANGED <<today, users, beats, queue, work, clearing, crashes>>
          /\ sums' \subseteq sums
      <3>1. /\ UNCHANGED <<inProgress, latch, clicks, cronDay>>
            /\ UNCHANGED <<today, users, beats, queue, work, clearing, crashes>>
        BY <1>9 DEF ClearSummaries, db
      <3>2. faults' = faults \/ faults' = faults + 1
        BY <1>9 DEF ClearSummaries
      <3>3. sums' \subseteq sums
        BY <1>9 DEF ClearSummaries, db
      <3> QED BY <3>1, <3>2, <3>3 DEF IInv, TypeOK
    <2> HIDE DEF a, b
    <2> QED BY <2>1, <2>2, <2>3, <2>4, QuietRunInv
  <1>10. ASSUME NEW u \in Users, ClickRegenerate(r, u) PROVE IInv'
    <2> DEFINE a == [run[r] EXCEPT !.pc = "latch", !.target = {u}]
    <2>1. a \in RunState /\ a.pipe = run[r].pipe
      BY <1>0 DEF IInv, TypeOK, RunState, PC
    <2>2. run' = [run EXCEPT ![r] = a]
      BY <1>10, <1>0 DEF ClickRegenerate, IInv, TypeOK
    <2>3. /\ inProgress' \subseteq Users /\ latch' \in [Users -> BOOLEAN]
          /\ clicks' \in Nat /\ faults' \in Nat /\ cronDay' \in Nat
          /\ UNCHANGED <<today, users, beats, queue, work, clearing, crashes>>
          /\ sums' \subseteq sums
      <3>1. /\ UNCHANGED <<inProgress, latch, faults, cronDay, sums>>
            /\ UNCHANGED <<today, users, beats, queue, work, clearing, crashes>>
            /\ clicks' = clicks + 1
        BY <1>10 DEF ClickRegenerate, db
      <3> QED BY <3>1 DEF IInv, TypeOK
    <2> HIDE DEF a
    <2> QED BY <2>1, <2>2, <2>3, QuietRunInv
  <1> QED BY <1>1, <1>2, <1>3, <1>4, <1>5, <1>6, <1>7, <1>8, <1>9, <1>10

\* CronFires is quiet too.
LEMMA CronFiresInv == ASSUME IInv, CronFires PROVE IInv'
  <1> DEFINE v == [run[Cron] EXCEPT !.pc = "lock", !.target = {}]
  <1>1. v \in RunState /\ v.pipe = run[Cron].pipe /\ Cron \in Runs
    BY DEF IInv, TypeOK, RunState, PC, Runs
  <1>2. run' = [run EXCEPT ![Cron] = v]
    BY <1>1 DEF CronFires, IInv, TypeOK, RunState
  <1>3. /\ inProgress' \subseteq Users /\ latch' \in [Users -> BOOLEAN]
        /\ clicks' \in Nat /\ faults' \in Nat /\ cronDay' \in Nat
        /\ UNCHANGED <<today, users, beats, queue, work, clearing, crashes>>
        /\ sums' \subseteq sums
    <2>1. /\ UNCHANGED <<inProgress, latch, clicks, faults, sums>> /\ cronDay' = today
          /\ UNCHANGED <<today, users, beats, queue, work, clearing, crashes>>
      BY DEF CronFires, db, used
    <2> QED BY <2>1 DEF IInv, TypeOK
  <1> HIDE DEF v
  <1> QED BY <1>1, <1>2, <1>3, QuietRunInv

\* The jobs a run emits are for finished days, and dispatching keeps them.
LEMMA EmitUserInv ==
  ASSUME IInv, NEW r \in Runs, NEW u \in Users, EmitUser(r, u)
  PROVE  IInv'
  <1> DEFINE start == IF run[r].last[u] # {} THEN run[r].last[u] ELSE run[r].first[u]
             who   == IF u \in run[r].known THEN u ELSE NoUser
             old   == run[r].pipe
  <1>1. run[r] \in RunState /\ start \subseteq Time /\ who \in Users \union {NoUser}
    BY DEF IInv, TypeOK, RunState
  <1>2. PICK more \in Seq(Job) :
          /\ \A i \in DOMAIN more : more[i].day < today
          /\ run' = [run EXCEPT ![r] = [run[r] EXCEPT !.todo = @ \ {u}, !.pipe = old \o more]]
    <2>1. ASSUME run' = [run EXCEPT ![r].todo = @ \ {u}]
          PROVE  \E more \in Seq(Job) :
                    /\ \A i \in DOMAIN more : more[i].day < today
                    /\ run' = [run EXCEPT ![r] =
                          [run[r] EXCEPT !.todo = @ \ {u}, !.pipe = old \o more]]
      <3>1. old \o <<>> = old /\ <<>> \in Seq(Job) /\ DOMAIN <<>> = {}
        BY <1>1 DEF RunState
      <3>2. [run[r] EXCEPT !.todo = @ \ {u}, !.pipe = old]
              = [run[r] EXCEPT !.todo = @ \ {u}]
        BY <1>1 DEF RunState
      <3>3. run' = [run EXCEPT ![r] = [run[r] EXCEPT !.todo = @ \ {u}]]
        BY <2>1
      <3>4. run' = [run EXCEPT ![r] = [run[r] EXCEPT !.todo = @ \ {u}, !.pipe = old \o <<>>]]
        BY <3>1, <3>2, <3>3
      <3> HIDE DEF old
      <3> QED BY <3>1, <3>4
    <2>2. ASSUME NEW t \in start,
                 run' = [run EXCEPT ![r].todo = @ \ {u},
                                    ![r].pipe = @ \o UserJobs(who, t, today)]
          PROVE  \E more \in Seq(Job) :
                    /\ \A i \in DOMAIN more : more[i].day < today
                    /\ run' = [run EXCEPT ![r] =
                          [run[r] EXCEPT !.todo = @ \ {u}, !.pipe = old \o more]]
      <3>1. t \in Time /\ today \in Nat
        BY <1>1 DEF IInv, TypeOK
      <3> HIDE DEF start, who
      <3>2. /\ UserJobs(who, t, today) \in Seq(Job)
            /\ \A i \in DOMAIN UserJobs(who, t, today) :
                  UserJobs(who, t, today)[i].day < today
        BY <1>1, <3>1, UserJobsFinished
      <3>3. run' = [run EXCEPT ![r] = [run[r] EXCEPT
                       !.todo = @ \ {u}, !.pipe = old \o UserJobs(who, t, today)]]
        BY <2>2, <1>1 DEF IInv, TypeOK, RunState
      <3> QED BY <3>2, <3>3
    <2> QED BY <2>1, <2>2 DEF EmitUser
  <1> HIDE DEF start, who
  <1>3. /\ old \in Seq(Job) /\ old \o more \in Seq(Job)
        /\ \A i \in DOMAIN (old \o more) : (old \o more)[i].day < today
    <2>1. old \in Seq(Job) /\ \A i \in DOMAIN old : old[i].day < today
      BY <1>1 DEF IInv, JobsFinished, RunState
    <2> HIDE DEF old
    <2> QED BY <2>1, <1>2
  <1>4. [run[r] EXCEPT !.todo = @ \ {u}, !.pipe = old \o more] \in RunState
    BY <1>1, <1>3 DEF RunState
  <1>5. TypeOK'
    BY <1>2, <1>4 DEF IInv, TypeOK, EmitUser, db, used
  <1>6. JobsFinished'
    BY <1>1, <1>2, <1>3 DEF IInv, TypeOK, RunState, JobsFinished, EmitUser
  <1>7. OneFinishedDayPerRow'
    BY DEF IInv, OneFinishedDayPerRow, WithinFinishedDay, EmitUser, db
  <1> QED BY <1>5, <1>6, <1>7 DEF IInv
LEMMA ForwardInv == ASSUME IInv, NEW r \in Runs, Forward(r) PROVE IInv'
  <1> DEFINE pipe == run[r].pipe
  <1>1. /\ pipe \in Seq(Job) /\ pipe # <<>> /\ queue \in Seq(Job)
        /\ \A i \in DOMAIN pipe : pipe[i].day < today
        /\ \A i \in DOMAIN queue : queue[i].day < today
        /\ run[r] \in RunState
    BY DEF IInv, TypeOK, RunState, JobsFinished, Forward
  <1>2. /\ run' = [run EXCEPT ![r] = [run[r] EXCEPT !.pipe = Tail(pipe)]]
        /\ queue' = Append(queue, Head(pipe))
    BY DEF Forward
  <1>3. [run[r] EXCEPT !.pipe = Tail(pipe)] \in RunState
    <2>1. Tail(pipe) \in Seq(Job)
      BY <1>1
    <2> QED BY <1>1, <2>1 DEF RunState
  <1>4. /\ \A i \in DOMAIN Tail(pipe) : Tail(pipe)[i].day < today
        /\ queue' \in Seq(Job) /\ \A i \in DOMAIN queue' : queue'[i].day < today
    <2> HIDE DEF pipe
    <2>1. Head(pipe) \in Job /\ Head(pipe).day < today
      BY <1>1
    <2>2. \A i \in DOMAIN Tail(pipe) : Tail(pipe)[i] = pipe[i + 1] /\ i + 1 \in DOMAIN pipe
      BY <1>1
    <2>3. /\ queue' \in Seq(Job)
          /\ \A i \in DOMAIN queue' : queue'[i].day < today
      BY <1>1, <1>2, <2>1
    <2> QED BY <1>1, <2>2, <2>3
  <1>5. TypeOK'
    BY <1>1, <1>2, <1>3, <1>4 DEF IInv, TypeOK, Forward, db, used
  <1>6. JobsFinished'
    BY <1>1, <1>2, <1>4 DEF IInv, TypeOK, RunState, JobsFinished, Forward
  <1>7. OneFinishedDayPerRow'
    BY DEF IInv, OneFinishedDayPerRow, WithinFinishedDay, Forward, db
  <1> QED BY <1>5, <1>6, <1>7 DEF IInv

\* A worker computes a summary of the finished day of its job ...
LEMMA ProcessInv == ASSUME IInv, NEW w \in Workers, Process(w) PROVE IInv'
  <1> DEFINE job == Head(queue)
             B   == beats[job.user] \intersect Window(job.day)
  <1>1. /\ queue \in Seq(Job) /\ queue # <<>> /\ queue' = Tail(queue)
        /\ \A i \in DOMAIN queue : queue[i].day < today
    BY DEF IInv, TypeOK, JobsFinished, Process
  <1>2. job \in Job /\ job.day < today /\ job.user # NoUser
    BY <1>1 DEF Process
  <1>3. job.user \in Users /\ job.day \in Nat
    BY <1>2 DEF Job
  <1>4. /\ queue' \in Seq(Job)
        /\ \A i \in DOMAIN queue' : queue'[i].day < today
    <2>1. \A i \in DOMAIN Tail(queue) : Tail(queue)[i] = queue[i + 1] /\ i + 1 \in DOMAIN queue
      BY <1>1
    <2> QED BY <1>1, <2>1
  <1>5. \A s \in Summarize(job.user, job.day, B) :
          /\ s \in Summary
          /\ StartOf(job.day) <= s.from /\ s.from <= s.to /\ s.to <= StartOf(job.day + 1)
          /\ s.covers \subseteq Window(job.day)
    <2>1. B \in SUBSET Time /\ B \subseteq Window(job.day)
      BY <1>3 DEF IInv, TypeOK
    <2> HIDE DEF job, B
    <2> QED BY <1>3, <2>1, SummarizeWithin
  <1>6. job.day \in 0..(today - 1)
    BY <1>2, <1>3 DEF IInv, TypeOK
  <1>7. work' = work \/ \E s \in Summarize(job.user, job.day, B) : work' = [work EXCEPT ![w] = {s}]
    BY DEF Process
  <1> HIDE DEF job, B
  <1>8. \A v \in Workers : \A s \in work'[v] : s \in Summary /\ WithinFinishedDay(s)
    <2>1. \A s \in Summarize(job.user, job.day, B) : s \in Summary /\ WithinFinishedDay(s)
      BY <1>5, <1>6 DEF WithinFinishedDay
    <2>2. \A v \in Workers : \A s \in work[v] : s \in Summary /\ WithinFinishedDay(s)
      BY DEF IInv, TypeOK, OneFinishedDayPerRow
    <2>3. work \in [Workers -> SUBSET Summary]
      BY DEF IInv, TypeOK
    <2> QED BY <2>1, <2>2, <2>3, <1>7
  <1>9. TypeOK'
    <2>1. work' \in [Workers -> SUBSET Summary]
      BY <1>7, <1>5 DEF IInv, TypeOK
    <2>2. /\ UNCHANGED <<today, users, beats, sums, inProgress, latch, run, clearing,
                         cronDay, clicks, crashes>>
          /\ faults' = faults \/ faults' = faults + 1
      BY DEF Process, db
    <2> QED BY <1>4, <2>1, <2>2 DEF IInv, TypeOK
  <1>10. JobsFinished'
    BY <1>4 DEF IInv, JobsFinished, Process
  <1>11. OneFinishedDayPerRow'
    BY <1>8 DEF IInv, OneFinishedDayPerRow, WithinFinishedDay, Process, db
  <1> QED BY <1>9, <1>10, <1>11 DEF IInv

\* ... and inserts it.
LEMMA InsertSummaryInv == ASSUME IInv, NEW w \in Workers, InsertSummary(w) PROVE IInv'
  <1>1. PICK s \in work[w] :
          /\ work' = [work EXCEPT ![w] = {}]
          /\ sums' = sums \/ sums' = sums \union {s}
          /\ faults' = faults \/ faults' = faults + 1
          /\ UNCHANGED <<today, users, beats, inProgress, latch, run, queue, clearing,
                         cronDay, clicks, crashes>>
    BY DEF InsertSummary
  <1>2. s \in Summary /\ WithinFinishedDay(s)
    BY DEF IInv, TypeOK, OneFinishedDayPerRow
  <1>3. TypeOK'
    BY <1>1, <1>2 DEF IInv, TypeOK
  <1>4. JobsFinished'
    BY <1>1 DEF IInv, JobsFinished
  <1>5. OneFinishedDayPerRow'
    BY <1>1, <1>2 DEF IInv, TypeOK, OneFinishedDayPerRow, WithinFinishedDay
  <1> QED BY <1>3, <1>4, <1>5 DEF IInv

LEMMA NextInv == IInv /\ [Next]_vars => IInv'
  <1> SUFFICES ASSUME IInv, [Next]_vars PROVE IInv'
    OBVIOUS
  <1>1. CASE UNCHANGED vars
    BY <1>1 DEF IInv, TypeOK, JobsFinished, OneFinishedDayPerRow, WithinFinishedDay,
                vars, db, mem, used
  <1>2. CASE Crash
    BY <1>2, RestartInv DEF Crash, IInv, TypeOK
  <1>3. CASE \E w \in Workers : WorkStep(w)
    <2>1. ASSUME NEW w \in Workers, Panic(w) PROVE IInv'
      BY <2>1, RestartInv DEF Panic, IInv, TypeOK, used
    <2> QED BY <1>3, <2>1, ProcessInv, InsertSummaryInv DEF WorkStep
  <1>4. CASE \E r \in Runs : RunStep(r)
    BY <1>4, RunBookkeepingInv, EmitUserInv, ForwardInv DEF RunStep
  <1>5. CASE \E u \in Users : \E r \in Regens : ClickRegenerate(r, u)
    BY <1>5, RunBookkeepingInv DEF Runs
  <1> QED BY <1>1, <1>2, <1>3, <1>4, <1>5, EnvironmentInv, CronFiresInv DEF Next

\* The tables, the locks, the runs, the queue and the workers keep their types.
THEOREM TypeCorrect == Spec => []TypeOK
  <1> QED BY InitInv, NextInv, PTL DEF Spec, IInv

\* Whatever crashes, fails, is deleted, cleared or regenerated meanwhile, a
\* persisted summary lies within one day that is over.
THEOREM RowsOfFinishedDays == Spec => []OneFinishedDayPerRow
  <1> QED BY InitInv, NextInv, PTL DEF Spec, IInv

----------------------------------------------------------------------------
(***************************************************************************)
(* The lock of lockUsers and unlockUsers.                                  *)
(***************************************************************************)
\* A step that starts and ends no call's work leaves the lock as it is.
LEMMA LockQuiet ==
  ASSUME LockExclusive, inProgress' = inProgress,
         \A q \in Runs : Aggregating(q)' <=> Aggregating(q),
         \A q \in Runs : Aggregating(q) => run'[q].target = run[q].target
  PROVE  LockExclusive'
  BY DEF LockExclusive

\* In particular one that changes a single run and takes it from one stage
\* inside the lock to another, or from one outside it to another.
LEMMA LockQuietRun ==
  ASSUME LockExclusive, inProgress' = inProgress, NEW r \in Runs,
         \A q \in Runs : q # r => run'[q] = run[q],
         Aggregating(r)' <=> Aggregating(r),
         Aggregating(r) => run'[r].target = run[r].target
  PROVE  LockExclusive'
  <1>1. \A q \in Runs : Aggregating(q)' <=> Aggregating(q)
    BY DEF Aggregating, At
  <1>2. \A q \in Runs : Aggregating(q) => run'[q].target = run[q].target
    OBVIOUS
  <1> QED BY <1>1, <1>2, LockQuiet

LEMMA LockLock == ASSUME LockExclusive, TypeOK, NEW r \in Runs, Lock(r) PROVE LockExclusive'
  <1>1. /\ run'[r].target = run[r].target /\ run'[r].pc = "readLast"
        /\ \A q \in Runs : q # r => run'[q] = run[q]
    BY DEF TypeOK, RunState, Lock
  <1>2. /\ ~ Aggregating(r) /\ Aggregating(r)'
        /\ \A q \in Runs : q # r => (Aggregating(q)' <=> Aggregating(q))
        /\ \A q \in Runs : run'[q].target = run[q].target
    BY <1>1 DEF Aggregating, At, Lock
  <1>3. /\ inProgress' = inProgress \union run[r].target
        /\ run[r].target \intersect inProgress = {}
        /\ \A q \in Runs : run[q].target \subseteq Users
    BY DEF Lock, TypeOK, RunState
  <1>4. \A q \in Runs : Aggregating(q) => run[q].target \subseteq inProgress
    BY <1>3 DEF LockExclusive
  <1>5. \A u \in Users : u \in inProgress' <=>
            \E q \in Runs : Aggregating(q)' /\ u \in run'[q].target
    BY <1>2, <1>3 DEF LockExclusive
  <1>6. \A p, q \in Runs : p # q /\ Aggregating(p)' /\ Aggregating(q)' =>
            run'[p].target \intersect run'[q].target = {}
    BY <1>2, <1>3, <1>4 DEF LockExclusive
  <1> QED BY <1>5, <1>6 DEF LockExclusive

LEMMA LockReturn == ASSUME LockExclusive, TypeOK, NEW r \in Runs, Return(r) PROVE LockExclusive'
  <1>1. /\ run'[r].pc \in {"idle", "unlatch"}
        /\ \A q \in Runs : q # r => run'[q] = run[q]
    BY DEF TypeOK, Return, IdleRun
  <1>2. /\ Aggregating(r) /\ ~ Aggregating(r)'
        /\ \A q \in Runs : q # r => (Aggregating(q)' <=> Aggregating(q))
    BY <1>1 DEF Aggregating, At, Return
  <1>3. inProgress' = inProgress \ run[r].target
    BY DEF Return
  <1>4. \A u \in Users : u \in inProgress' <=>
            \E q \in Runs : Aggregating(q)' /\ u \in run'[q].target
    BY <1>1, <1>2, <1>3 DEF LockExclusive
  <1>5. \A p, q \in Runs : p # q /\ Aggregating(p)' /\ Aggregating(q)' =>
            run'[p].target \intersect run'[q].target = {}
    BY <1>1, <1>2 DEF LockExclusive
  <1> QED BY <1>4, <1>5 DEF LockExclusive

LEMMA LockStep == IInv /\ LockExclusive /\ [Next]_vars => LockExclusive'
  <1> SUFFICES ASSUME TypeOK, LockExclusive, [Next]_vars PROVE LockExclusive'
    BY DEF IInv
  <1>1. ASSUME UNCHANGED <<run, inProgress>> PROVE LockExclusive'
    BY <1>1 DEF LockExclusive, Aggregating, At
  <1>2. ASSUME Restart PROVE LockExclusive'
    BY <1>2 DEF Restart, LockExclusive, Aggregating, At, IdleRun
  <1>3. ASSUME NEW r \in Runs, RunStep(r) \/ \E u \in Users : ClickRegenerate(r, u)
        PROVE  LockExclusive'
    <2>0. run[r] \in RunState
      BY DEF TypeOK
    <2>1. CASE LockRefused(r) \/ Latch(r) \/ Unlatch(r) \/ ClearSummaries(r)
               \/ \E u \in Users : ClickRegenerate(r, u)
      <3>1. (\A q \in Runs : q # r => run'[q] = run[q])
            /\ run'[r].pc \in {"unlatch", "clear", "idle", "lock", "latch"}
        <4>1. CASE LockRefused(r)
          BY <2>0, <4>1 DEF LockRefused, TypeOK, RunState
        <4>2. CASE Latch(r)
          BY <2>0, <4>2 DEF Latch, SetLatch, TypeOK, RunState
        <4>3. CASE Unlatch(r)
          BY <2>0, <4>3 DEF Unlatch, SetLatch, TypeOK, IdleRun
        <4>4. CASE ClearSummaries(r)
          BY <2>0, <4>4 DEF ClearSummaries, TypeOK, RunState
        <4>5. CASE \E u \in Users : ClickRegenerate(r, u)
          BY <2>0, <4>5 DEF ClickRegenerate, TypeOK, RunState
        <4> QED BY <2>1, <4>1, <4>2, <4>3, <4>4, <4>5
      <3>2. ~ Aggregating(r) /\ ~ Aggregating(r)' /\ inProgress' = inProgress
        BY <2>1, <3>1 DEF Aggregating, At, LockRefused, Latch, Unlatch, SetLatch,
                          ClearSummaries, ClickRegenerate
      <3> QED BY <3>1, <3>2, LockQuietRun
    <2>2. CASE ReadLast(r) \/ ReadFirst(r) \/ ReadUsers(r) \/ \E u \in Users : EmitUser(r, u)
      <3>1. (\A q \in Runs : q # r => run'[q] = run[q]) /\ run'[r].target = run[r].target
            /\ run'[r].pc \in {"readLast", "readFirst", "readUsers", "emit"}
        <4>1. CASE ReadLast(r)
          <5>1. \E X, Y : \/ run' = [run EXCEPT ![r].pc = "readFirst", ![r].last = X, ![r].todo = Y]
                          \/ run' = [run EXCEPT ![r].pc = "readFirst", ![r].todo = Y]
            BY <4>1 DEF ReadLast
          <5> QED BY <5>1, <2>0 DEF TypeOK, RunState
        <4>2. CASE ReadFirst(r)
          BY <2>0, <4>2 DEF ReadFirst, TypeOK, RunState
        <4>3. CASE ReadUsers(r)
          BY <2>0, <4>3 DEF ReadUsers, TypeOK, RunState
        <4>4. CASE \E u \in Users : EmitUser(r, u)
          BY <2>0, <4>4 DEF EmitUser, TypeOK, RunState, At
        <4> QED BY <2>2, <4>1, <4>2, <4>3, <4>4
      <3>2. Aggregating(r) /\ Aggregating(r)' /\ inProgress' = inProgress
        BY <2>2, <3>1 DEF Aggregating, At, ReadLast, ReadFirst, ReadUsers, EmitUser
      <3> QED BY <3>1, <3>2, LockQuietRun
    <2>3. CASE Forward(r)
      <3>1. /\ run' = [run EXCEPT ![r].pipe = Tail(@)] /\ inProgress' = inProgress
            /\ run'[r].pc = run[r].pc /\ run'[r].target = run[r].target
        BY <2>0, <2>3 DEF Forward, TypeOK, RunState
      <3> QED BY <3>1, LockQuietRun DEF Aggregating, At
    <2> QED BY <1>3, <2>1, <2>2, <2>3, LockLock, LockReturn DEF RunStep
  <1>4. CASE CronFires
    <2>1. /\ \A q \in Runs : q # Cron => run'[q] = run[q]
          /\ run'[Cron].pc = "lock" /\ Cron \in Runs
      BY <1>4 DEF CronFires, TypeOK, RunState, Runs
    <2>2. inProgress' = inProgress /\ ~ Aggregating(Cron) /\ ~ Aggregating(Cron)'
      BY <1>4, <2>1 DEF CronFires, Aggregating, At
    <2> QED BY <2>1, <2>2, LockQuietRun
  <1>5. CASE Midnight \/ \E u \in Users : PostHeartbeat(u) \/ DeleteUser(u)
                                         \/ ClearData(u) \/ ClearHeartbeats(u)
    BY <1>1, <1>5 DEF Midnight, PostHeartbeat, DeleteUser, ClearData, ClearHeartbeats, mem
  <1>6. CASE \E w \in Workers : WorkStep(w)
    BY <1>1, <1>2, <1>6 DEF WorkStep, Process, InsertSummary, Panic
  <1>7. CASE UNCHANGED vars
    BY <1>1, <1>7 DEF vars, mem
  <1>8. CASE Crash
    BY <1>2, <1>8 DEF Crash
  <1>9. \A r \in Regens : r \in Runs
    BY DEF Runs
  <1> QED BY <1>3, <1>4, <1>5, <1>6, <1>7, <1>8, <1>9 DEF Next

\* lockUsers excludes, for any number of requests and users: two calls that name
\* users never work on the same one.
THEOREM AggregationExclusive == Spec => []LockExclusive
  <1>1. Init => LockExclusive
    BY DEF Init, LockExclusive, Aggregating, At, IdleRun
  <1> QED BY <1>1, InitInv, NextInv, LockStep, PTL DEF Spec

----------------------------------------------------------------------------
(***************************************************************************)
(* The aggregation implements DailyLedger, for every number of users and   *)
(* days, every heartbeat timeout and queue capacity, and any number of     *)
(* crashes, when nothing else disturbs it.                                 *)
(***************************************************************************)
\* What is assumed: no regeneration, no clearing, no deletion, no failing query, one worker
\* (which is what GetQueue makes), and a cron job that fires once the jobs of the day
\* before are done.
Undisturbed ==
    /\ Regens = {} /\ Deletable = {} /\ MaxClicks = 0 /\ MaxFaults = 0 /\ ~ Backlog
    /\ \E w \in Workers : Workers = {w}

\* The jobs under way: that of the computed summary, then those in the queue and the pipe,
\* in the order in which their summaries will be inserted.
Computed  == UNION {work[w] : w \in Workers}
JobOf(s)  == [user |-> s.user, day |-> Day(s.from)]
Early     == {JobOf(s) : s \in Computed}
Line      == queue \o run[Cron].pipe
Before(i) == Early \union {Line[j] : j \in 1 .. (i - 1)}
Pending   == Early \union {Line[j] : j \in DOMAIN Line}

\* The day of a job is recorded or follows one that is, or that will be before it; or it is
\* the user's first.
Follows(job, before) ==
    \/ job.day \in DaysOf(job.user)
    \/ job.day - 1 \in DaysOf(job.user)
    \/ [user |-> job.user, day |-> job.day - 1] \in before
    \/ DaysOf(job.user) = {} /\ \A j \in before : j.user # job.user

PendingFollow ==
    /\ \A s, t \in Computed : s = t
    /\ \A s \in Computed : Follows(JobOf(s), {})
    /\ \A i \in DOMAIN Line : Follows(Line[i], Before(i))

\* A summary ends on the day on which it begins, or at the midnight after it.
OnItsDay(s) == s.from <= s.to /\ s.to <= StartOf(Day(s.from) + 1)

RowsOnDays ==
    /\ \A s \in sums : OnItsDay(s)
    /\ \A s \in Computed : OnItsDay(s) /\ Day(s.from) < today

\* Who has rows has a latest one.
HaveLatest == \A u \in Users : RowsOf(u) # {} => Latest({s.to : s \in RowsOf(u)}) # {}

\* What the run has read of the users it has not come to is still so, and no job of theirs
\* is under way.
Fresh(u) ==
    /\ run[Cron].last[u] = Latest({s.to : s \in RowsOf(u)})
    /\ \A j \in Pending : j.user # u

RunFresh ==
    /\ run[Cron].target = {}
    /\ run[Cron].pc \in {"idle", "lock", "readLast", "readFirst", "readUsers", "emit"}
    /\ run[Cron].pc \in {"lock", "readLast", "readFirst", "readUsers"} => Pending = {}
    /\ run[Cron].pc \in {"readFirst", "readUsers", "emit"} => \A u \in run[Cron].todo : Fresh(u)
    /\ run[Cron].pc = "emit" => run[Cron].known = Users

LedgerInv == users = Users /\ PendingFollow /\ RowsOnDays /\ HaveLatest /\ RunFresh

----------------------------------------------------------------------------
\* Times and days, whatever the length of a day.

LEMMA StartOfMonotone ==
  ASSUME NEW a \in Int, NEW b \in Int, a < b
  PROVE  StartOf(a + 1) <= StartOf(b)
  <1>1. DayLen \in Int /\ DayLen > 0 /\ b - (a + 1) \in Nat
    BY ConstantsAssumption
  <1>2. \A n, l \in Nat : n * l \in Nat
    OBVIOUS
  <1>3. (b - (a + 1)) * DayLen >= 0
    BY <1>1, <1>2
  <1>4. b * DayLen = (a + 1) * DayLen + (b - (a + 1)) * DayLen
    BY <1>1
  <1> QED BY <1>1, <1>3, <1>4 DEF StartOf

\* A time lies between the midnights of its day, and no other's.
LEMMA DayBounds ==
  ASSUME NEW t \in Int
  PROVE  /\ Day(t) \in Int
         /\ StartOf(Day(t)) <= t /\ t < StartOf(Day(t) + 1)
  BY ConstantsAssumption DEF Day, StartOf

LEMMA DayOfTime ==
  ASSUME NEW d \in Int, NEW t \in Int, StartOf(d) <= t, t < StartOf(d + 1)
  PROVE  Day(t) = d
  <1>1. Day(t) \in Int /\ StartOf(Day(t)) <= t /\ t < StartOf(Day(t) + 1)
    BY DayBounds
  <1>2. /\ StartOf(d) \in Int /\ StartOf(d + 1) \in Int
        /\ StartOf(Day(t)) \in Int /\ StartOf(Day(t) + 1) \in Int
    BY <1>1, ConstantsAssumption DEF StartOf
  <1>3. ~ d < Day(t)
    BY <1>1, <1>2, StartOfMonotone
  <1>4. ~ Day(t) < d
    BY <1>1, <1>2, StartOfMonotone
  <1> QED BY <1>1, <1>3, <1>4

\* generateUserJobs: after a summary that ends on a day, or at the midnight after it, the
\* jobs begin with the next day - or with the same one, if it ends where the day begins.
LEMMA NextDayFollows ==
  ASSUME NEW d \in Nat, NEW t \in Nat, StartOf(d) <= t, t <= StartOf(d + 1)
  PROVE  NextDay(t) \in {d, d + 1}
  <1>1. StartOf(d) \in Int /\ StartOf(d + 1) \in Int /\ StartOf(d - 1) \in Int
        /\ StartOf(d - 1) + DayLen = StartOf(d) /\ DayLen \in Int /\ DayLen > 0
    BY ConstantsAssumption DEF StartOf
  <1>2. CASE t = StartOf(d)
    <2>1. d - 1 \in Int /\ t - 1 \in Int /\ StartOf((d - 1) + 1) = StartOf(d)
      OBVIOUS
    <2>2. Day(t - 1) = d - 1
      BY <1>1, <1>2, <2>1, DayOfTime
    <2> QED BY <2>2 DEF NextDay
  <1>3. CASE t # StartOf(d)
    <2>1. t - 1 \in Int /\ d \in Int /\ StartOf(d) <= t - 1 /\ t - 1 < StartOf(d + 1)
      BY <1>1, <1>3
    <2>2. Day(t - 1) = d
      BY <2>1, DayOfTime
    <2> QED BY <2>2 DEF NextDay
  <1> QED BY <1>2, <1>3

\* Summarize: the summary of a day begins on it, and ends on it or at its end.
LEMMA SummaryOfDay ==
  ASSUME NEW u \in Users, NEW d \in Nat, NEW B \in SUBSET Time, B \subseteq Window(d),
         NEW s \in Summarize(u, d, B)
  PROVE  s \in Summary /\ JobOf(s) = [user |-> u, day |-> d] /\ OnItsDay(s)
  <1>1. s \in Summary /\ StartOf(d) <= s.from /\ s.from <= s.to /\ s.to <= StartOf(d + 1)
    BY SummarizeWithin
  <1>2. s.user = u /\ s.from < StartOf(d + 1)
    <2>1. CASE B = {}
      <3>1. StartOf(d) < StartOf(d + 1)
        BY ConstantsAssumption DEF StartOf
      <3> QED BY <2>1, <3>1 DEF Summarize
    <2>2. CASE B # {}
      BY <2>2 DEF Summarize, Earliest, Window
    <2> QED BY <2>1, <2>2
  <1>3. Day(s.from) = d
    BY <1>1, <1>2, DayOfTime DEF Summary, Time
  <1> QED BY <1>1, <1>2, <1>3 DEF JobOf, OnItsDay

----------------------------------------------------------------------------
\* The invariant.

LEMMA LineType ==
  ASSUME IInv
  PROVE  /\ Cron \in Runs /\ run[Cron] \in RunState
         /\ queue \in Seq(Job) /\ run[Cron].pipe \in Seq(Job)
         /\ Line \in Seq(Job)
  <1>1. Cron \in Runs /\ run[Cron] \in RunState /\ queue \in Seq(Job)
    BY DEF IInv, TypeOK, Runs
  <1>2. run[Cron].pipe \in Seq(Job)
    BY <1>1 DEF RunState
  <1> QED BY <1>1, <1>2 DEF Line

LEMMA LedgerInit == Init => LedgerInv
  <1> SUFFICES ASSUME Init PROVE LedgerInv
    OBVIOUS
  <1>1. Computed = {} /\ run[Cron] = IdleRun /\ queue = <<>> /\ sums = {}
    BY DEF Init, Computed, Runs
  <1>2. Line = <<>>
    BY <1>1 DEF Line, IdleRun
  <1>3. PendingFollow /\ RowsOnDays
    BY <1>1, <1>2 DEF PendingFollow, RowsOnDays
  <1>4. HaveLatest
    BY <1>1 DEF HaveLatest, RowsOf
  <1>5. RunFresh
    BY <1>1 DEF RunFresh, IdleRun
  <1> QED BY <1>3, <1>4, <1>5 DEF LedgerInv, Init

\* A step that leaves the rows and the jobs under way alone.
LEMMA QuietLedger ==
  ASSUME IInv, LedgerInv, UNCHANGED <<users, sums, work>>, Line' = Line,
         today' \in Nat, today <= today', RunFresh'
  PROVE  LedgerInv'
  <1>1. Computed' = Computed /\ Early' = Early
    BY DEF Computed, Early, JobOf, Day
  <1>2. PendingFollow'
    BY <1>1 DEF LedgerInv, PendingFollow, Follows, Before, DaysOf, RowsOf, Day, JobOf
  <1>3. RowsOnDays'
    <2>1. \A s \in Computed : s \in Summary
      BY DEF IInv, TypeOK, Computed
    <2>2. \A s \in Computed : Day(s.from) \in Int
      BY <2>1, DayBounds DEF Summary, Time
    <2>3. \A s \in Computed : Day(s.from) < today => Day(s.from) < today'
      BY <2>2 DEF IInv, TypeOK
    <2> QED BY <1>1, <2>3 DEF LedgerInv, RowsOnDays, OnItsDay
  <1>4. HaveLatest'
    BY DEF LedgerInv, HaveLatest, RowsOf
  <1> QED BY <1>2, <1>3, <1>4 DEF LedgerInv

\* ... and the run as well.
LEMMA QuietRunFresh ==
  ASSUME LedgerInv, UNCHANGED <<sums, work>>, Line' = Line, run'[Cron] = run[Cron]
  PROVE  RunFresh'
  <1>1. Pending' = Pending
    BY DEF Pending, Early, Computed, JobOf, Day
  <1> QED BY <1>1 DEF LedgerInv, RunFresh, Fresh, RowsOf, Latest

\* A restart leaves nothing under way.
LEMMA RestartLedger ==
  ASSUME IInv, LedgerInv, Restart, UNCHANGED <<today, users, sums>>
  PROVE  LedgerInv'
  <1>1. Computed' = {} /\ run'[Cron] = IdleRun /\ queue' = <<>>
    BY DEF Restart, Computed, Runs
  <1>2. Line' = <<>>
    BY <1>1 DEF Line, IdleRun
  <1>3. PendingFollow'
    BY <1>1, <1>2 DEF PendingFollow
  <1>4. RowsOnDays' /\ HaveLatest'
    BY <1>1 DEF LedgerInv, RowsOnDays, HaveLatest, OnItsDay, RowsOf
  <1>5. RunFresh'
    BY <1>1 DEF RunFresh, IdleRun
  <1> QED BY <1>3, <1>4, <1>5 DEF LedgerInv

\* The cron job fires when nothing is under way.
LEMMA CronFiresLedger ==
  ASSUME Undisturbed, IInv, LedgerInv, CronFires
  PROVE  LedgerInv'
  <1>0. run[Cron] \in RunState /\ Cron \in Runs
    BY LineType
  <1>1. /\ run'[Cron].pc = "lock" /\ run'[Cron].target = {} /\ run'[Cron].pipe = run[Cron].pipe
        /\ UNCHANGED <<today, users, sums, work, queue>>
    BY <1>0 DEF CronFires, IInv, TypeOK, RunState, db
  <1>2. Line = <<>> /\ Computed = {}
    BY DEF CronFires, Undisturbed, Drained, Line, Computed
  <1>3. Line' = Line
    BY <1>1 DEF Line
  <1>4. Pending' = {}
    BY <1>1, <1>2, <1>3 DEF Pending, Early, Computed
  <1>5. RunFresh'
    BY <1>1, <1>4 DEF RunFresh
  <1> QED BY <1>1, <1>3, <1>5, QuietLedger DEF IInv, TypeOK

\* The run reads what is there while nothing is under way.
LEMMA ReadingLedger ==
  ASSUME IInv, LedgerInv, UNCHANGED <<today, users, sums, work, queue>>,
         run[Cron].pc \in {"lock", "readLast", "readFirst", "readUsers"},
         NEW v \in RunState, run'[Cron] = v,
         v.pipe = run[Cron].pipe, v.target = {},
         v.pc \in {"readLast", "readFirst", "readUsers", "emit"},
         v.pc # "readLast" => \A u \in v.todo : v.last[u] = Latest({s.to : s \in RowsOf(u)}),
         v.pc = "emit" => v.known = Users
  PROVE  LedgerInv'
  <1>1. Pending = {}
    BY DEF LedgerInv, RunFresh
  <1>2. Line' = Line
    BY DEF Line
  <1>3. Pending' = {}
    BY <1>1, <1>2 DEF Pending, Early, Computed, JobOf, Day
  <1>4. v.pc # "readLast" => \A u \in v.todo : Fresh(u)'
    BY <1>3 DEF Fresh, RowsOf, Latest
  <1>5. RunFresh'
    BY <1>3, <1>4 DEF RunFresh
  <1> QED BY <1>2, <1>5, QuietLedger DEF IInv, TypeOK

LEMMA LockLedger == ASSUME IInv, LedgerInv, Lock(Cron) PROVE LedgerInv'
  <1> DEFINE v == [run[Cron] EXCEPT !.pc = "readLast"]
  <1>0. run[Cron] \in RunState /\ Cron \in Runs /\ run \in [Runs -> RunState]
    BY LineType DEF IInv, TypeOK
  <1>1. /\ run'[Cron] = v /\ run[Cron].pc = "lock"
        /\ UNCHANGED <<today, users, sums, work, queue>>
    BY <1>0 DEF Lock, At, db
  <1>2. run[Cron].target = {}
    BY DEF LedgerInv, RunFresh
  <1>3. v \in RunState /\ v.pipe = run[Cron].pipe /\ v.target = {} /\ v.pc = "readLast"
    BY <1>0, <1>2 DEF RunState, PC
  <1> HIDE DEF v
  <1> QED BY <1>1, <1>3, ReadingLedger

LEMMA ReadLastLedger == ASSUME Undisturbed, IInv, LedgerInv, ReadLast(Cron) PROVE LedgerInv'
  <1> DEFINE last == [u \in Users |-> Latest({s.to : s \in RowsOf(u)})]
             v == [run[Cron] EXCEPT !.pc = "readFirst", !.last = last, !.todo = users]
  <1>0. /\ run[Cron] \in RunState /\ Cron \in Runs /\ run \in [Runs -> RunState]
        /\ last \in [Users -> SUBSET Time] /\ users = Users
    BY LineType DEF IInv, TypeOK, Latest, RowsOf, Summary, LedgerInv
  <1>1. ~ faults < MaxFaults
    BY DEF Undisturbed, IInv, TypeOK
  <1>2. run' = [run EXCEPT ![Cron] = v]
    BY <1>0, <1>1 DEF ReadLast
  <1>3. run'[Cron] = v /\ run[Cron].pc = "readLast" /\ UNCHANGED <<today, users, sums, work, queue>>
    BY <1>0, <1>2 DEF ReadLast, At, db
  <1>4. run[Cron].target = {}
    BY DEF LedgerInv, RunFresh
  <1>5. /\ v \in RunState /\ v.pipe = run[Cron].pipe /\ v.target = {} /\ v.pc = "readFirst"
        /\ v.todo = Users /\ v.last = last
    BY <1>0, <1>4 DEF RunState, PC
  <1> HIDE DEF v
  <1>6. \A u \in v.todo : v.last[u] = Latest({s.to : s \in RowsOf(u)})
    BY <1>5
  <1> HIDE DEF last
  <1> QED BY <1>3, <1>5, <1>6, ReadingLedger

LEMMA ReadFirstLedger == ASSUME Undisturbed, IInv, LedgerInv, ReadFirst(Cron) PROVE LedgerInv'
  <1> DEFINE first == [u \in Users |-> Earliest(beats[u])]
             v == [run[Cron] EXCEPT !.pc = "readUsers", !.first = first]
  <1>0. /\ run[Cron] \in RunState /\ Cron \in Runs /\ run \in [Runs -> RunState]
        /\ first \in [Users -> SUBSET Time]
    BY LineType DEF IInv, TypeOK, Earliest
  <1>1. ~ faults < MaxFaults
    BY DEF Undisturbed, IInv, TypeOK
  <1>2. run' = [run EXCEPT ![Cron] = v]
    BY <1>0, <1>1 DEF ReadFirst
  <1>3. run'[Cron] = v /\ run[Cron].pc = "readFirst" /\ UNCHANGED <<today, users, sums, work, queue>>
    BY <1>0, <1>2 DEF ReadFirst, At, db
  <1>4. run[Cron].target = {}
    BY DEF LedgerInv, RunFresh
  <1>5. /\ v \in RunState /\ v.pipe = run[Cron].pipe /\ v.target = {} /\ v.pc = "readUsers"
        /\ v.todo = run[Cron].todo /\ v.last = run[Cron].last
    BY <1>0, <1>4 DEF RunState, PC
  <1> HIDE DEF v
  <1>6. \A u \in v.todo : v.last[u] = Latest({s.to : s \in RowsOf(u)})
    BY <1>3, <1>5 DEF LedgerInv, RunFresh, Fresh
  <1> QED BY <1>3, <1>5, <1>6, ReadingLedger

LEMMA ReadUsersLedger == ASSUME Undisturbed, IInv, LedgerInv, ReadUsers(Cron) PROVE LedgerInv'
  <1> DEFINE v == [run[Cron] EXCEPT !.pc = "emit", !.known = Users]
  <1>0. /\ run[Cron] \in RunState /\ Cron \in Runs /\ run \in [Runs -> RunState]
        /\ users = Users /\ run[Cron].target = {}
    BY LineType DEF IInv, TypeOK, LedgerInv, RunFresh
  <1>1. ~ faults < MaxFaults
    BY DEF Undisturbed, IInv, TypeOK
  <1>2. run' = [run EXCEPT ![Cron].pc = "emit", ![Cron].known = users,
                           ![Cron].todo = IF run[Cron].target = {} THEN @
                                          ELSE @ \intersect run[Cron].target]
    BY <1>1 DEF ReadUsers
  <1>3. run'[Cron] = v
    BY <1>0, <1>2 DEF RunState
  <1>4. run[Cron].pc = "readUsers" /\ UNCHANGED <<today, users, sums, work, queue>>
    BY DEF ReadUsers, At, db
  <1>5. /\ v \in RunState /\ v.pipe = run[Cron].pipe /\ v.target = {} /\ v.pc = "emit"
        /\ v.todo = run[Cron].todo /\ v.last = run[Cron].last /\ v.known = Users
    BY <1>0 DEF RunState, PC
  <1> HIDE DEF v
  <1>6. \A u \in v.todo : v.last[u] = Latest({s.to : s \in RowsOf(u)})
    BY <1>4, <1>5 DEF LedgerInv, RunFresh, Fresh
  <1> QED BY <1>3, <1>4, <1>5, <1>6, ReadingLedger

\* The forwarding goroutine does not change the order of the jobs, nor does the run's end.
LEMMA ForwardLedger ==
  ASSUME Undisturbed, IInv, LedgerInv, Forward(Cron) \/ Return(Cron)
  PROVE  LedgerInv'
  <1>0. /\ run[Cron] \in RunState /\ Cron \in Runs /\ run \in [Runs -> RunState]
        /\ queue \in Seq(Job) /\ run[Cron].pipe \in Seq(Job)
    BY LineType DEF IInv, TypeOK
  <1>1. UNCHANGED <<today, users, sums, work>>
    BY DEF Forward, Return, db
  <1>2. CASE Forward(Cron)
    <2>1. /\ run'[Cron] = [run[Cron] EXCEPT !.pipe = Tail(run[Cron].pipe)]
          /\ queue' = Append(queue, Head(run[Cron].pipe)) /\ run[Cron].pipe # <<>>
      BY <1>0, <1>2 DEF Forward
    <2>2. \A q, p \in Seq(Job) : p # <<>> => Append(q, Head(p)) \o Tail(p) = q \o p
      OBVIOUS
    <2>3. Line' = Line
      BY <1>0, <2>1, <2>2 DEF Line, RunState
    <2>4. Pending' = Pending
      BY <1>1, <2>3 DEF Pending, Early, Computed, JobOf, Day
    <2>5. /\ run'[Cron].pc = run[Cron].pc /\ run'[Cron].target = run[Cron].target
          /\ run'[Cron].last = run[Cron].last /\ run'[Cron].todo = run[Cron].todo
          /\ run'[Cron].known = run[Cron].known
      BY <1>0, <2>1 DEF RunState
    <2>6. RunFresh'
      BY <1>1, <2>4, <2>5 DEF LedgerInv, RunFresh, Fresh, RowsOf, Latest
    <2> QED BY <1>1, <2>3, <2>6, QuietLedger DEF IInv, TypeOK
  <1>3. CASE Return(Cron)
    <2>1. /\ run'[Cron].pc = "idle" /\ run'[Cron].target = run[Cron].target
          /\ run'[Cron].pipe = run[Cron].pipe /\ queue' = queue
      BY <1>0, <1>3 DEF Return, IdleRun
    <2>2. Line' = Line
      BY <2>1 DEF Line
    <2>3. RunFresh'
      BY <2>1 DEF LedgerInv, RunFresh
    <2> QED BY <1>1, <2>2, <2>3, QuietLedger DEF IInv, TypeOK
  <1> QED BY <1>2, <1>3

\* An element of two sequences in a row is one of the first or of the second.
LEMMA ConcatElements ==
  ASSUME NEW p \in Seq(Job), NEW q \in Seq(Job), NEW i \in DOMAIN (p \o q)
  PROVE  /\ i \in Nat
         /\ \/ i \in DOMAIN p /\ (p \o q)[i] = p[i]
            \/ \E k \in DOMAIN q : i = Len(p) + k /\ (p \o q)[i] = q[k]
  <1>1. /\ Len(p) \in Nat /\ DOMAIN p = 1 .. Len(p) /\ Len(q) \in Nat /\ DOMAIN q = 1 .. Len(q)
        /\ DOMAIN (p \o q) = 1 .. (Len(p) + Len(q))
    OBVIOUS
  <1>2. i \in Nat
    BY <1>1
  <1>3. CASE i <= Len(p)
    <2>1. i \in DOMAIN p /\ (p \o q)[i] = p[i]
      BY <1>1, <1>2, <1>3
    <2> QED BY <1>2, <2>1
  <1>4. CASE ~ i <= Len(p)
    <2>1. /\ i - Len(p) \in DOMAIN q /\ i = Len(p) + (i - Len(p))
          /\ (p \o q)[i] = q[i - Len(p)]
      BY <1>1, <1>2, <1>4
    <2> QED BY <1>2, <2>1
  <1> QED BY <1>3, <1>4

\* Jobs of one user for consecutive days.
Consecutive(jobs, u, first) ==
    \A i \in DOMAIN jobs :
        /\ jobs[i].user = u
        /\ i = 1 => jobs[i].day = first
        /\ i > 1 => /\ i - 1 \in DOMAIN jobs
                    /\ jobs[i - 1] = [user |-> u, day |-> jobs[i].day - 1]

\* generateUserJobs: the jobs are for consecutive days, of which the first is NextDay's.
LEMMA UserJobsConsecutive ==
  ASSUME NEW u \in Users, NEW t \in Time, NEW now \in Nat
  PROVE  UserJobs(u, t, now) \in Seq(Job) /\ Consecutive(UserJobs(u, t, now), u, NextDay(t))
  <1> DEFINE n == IF NextDay(t) < now THEN now - NextDay(t) ELSE 0
             job(i) == [user |-> u, day |-> NextDay(t) + i - 1]
             jobs == UserJobs(u, t, now)
  <1>1. NextDay(t) \in Nat /\ n \in Nat
    BY NextDayNat
  <1>2. jobs = [i \in 1..n |-> job(i)]
    BY DEF UserJobs
  <1>3. jobs \in Seq(Job)
    BY UserJobsFinished
  <1>4. \A i \in 1..n : /\ job(i).user = u
                        /\ i = 1 => job(i).day = NextDay(t)
                        /\ job(i).day - 1 = NextDay(t) + (i - 1) - 1
    BY <1>1
  <1>5. \A i \in 1..n : i > 1 => i - 1 \in 1..n /\ job(i - 1) = [user |-> u, day |-> job(i).day - 1]
    BY <1>1, <1>4
  <1> HIDE DEF n, job, jobs
  <1>6. DOMAIN jobs = 1..n
    BY <1>2
  <1>7. Consecutive(jobs, u, NextDay(t))
    BY <1>2, <1>4, <1>5, <1>6 DEF Consecutive
  <1> QED BY <1>3, <1>7 DEF jobs

\* The day after that of the user's latest row is the first that the run asks for, or, if
\* he has no row, nothing of his comes before.
LEMMA FirstJobFollows ==
  ASSUME IInv, LedgerInv, NEW u \in run[Cron].todo, run[Cron].pc = "emit", u \in Users,
         NEW t \in IF run[Cron].last[u] # {} THEN run[Cron].last[u] ELSE run[Cron].first[u],
         NEW job, job.user = u, job.day = NextDay(t), NEW before \in SUBSET Pending
  PROVE  Follows(job, before)
  <1>1. run[Cron].last[u] = Latest({s.to : s \in RowsOf(u)}) /\ \A j \in Pending : j.user # u
    BY DEF LedgerInv, RunFresh, Fresh
  <1>2. CASE run[Cron].last[u] = {}
    <2>1. RowsOf(u) = {}
      BY <1>1, <1>2 DEF LedgerInv, HaveLatest
    <2>2. DaysOf(u) = {}
      BY <2>1 DEF DaysOf
    <2> QED BY <1>1, <2>2 DEF Follows
  <1>3. CASE run[Cron].last[u] # {}
    <2>1. PICK s \in RowsOf(u) : s.to = t
      BY <1>1, <1>3 DEF Latest
    <2>2. s \in Summary /\ OnItsDay(s) /\ WithinFinishedDay(s)
      BY <2>1 DEF RowsOf, LedgerInv, RowsOnDays, IInv, TypeOK, OneFinishedDayPerRow
    <2>3. s.from \in Nat /\ t \in Nat /\ s.from <= t /\ t <= StartOf(Day(s.from) + 1)
      BY <2>1, <2>2 DEF Summary, Time, OnItsDay
    <2>4. Day(s.from) \in Nat /\ StartOf(Day(s.from)) <= s.from /\ StartOf(Day(s.from)) \in Int
      <3>1. s.from \div DayLen \in Nat
        BY <2>3, ConstantsAssumption
      <3>2. s.from \in Int
        BY <2>3
      <3> QED BY <3>1, <3>2, DayBounds, StartOfNat DEF Day
    <2>5. NextDay(t) \in {Day(s.from), Day(s.from) + 1}
      BY <2>3, <2>4, NextDayFollows
    <2>6. Day(s.from) \in DaysOf(u)
      BY <2>1 DEF DaysOf
    <2>7. job.day = Day(s.from) \/ job.day - 1 = Day(s.from)
      BY <2>4, <2>5
    <2> QED BY <2>6, <2>7 DEF Follows
  <1> QED BY <1>2, <1>3

\* The run puts the jobs of one user into the pipe.
LEMMA EmitLedger ==
  ASSUME IInv, LedgerInv, NEW u \in Users, EmitUser(Cron, u)
  PROVE  LedgerInv'
  <1> DEFINE start == IF run[Cron].last[u] # {} THEN run[Cron].last[u] ELSE run[Cron].first[u]
             todo  == run[Cron].todo \ {u}
  <1>0. /\ run[Cron] \in RunState /\ Cron \in Runs /\ run \in [Runs -> RunState]
        /\ Line \in Seq(Job) /\ queue \in Seq(Job) /\ run[Cron].pipe \in Seq(Job)
    BY LineType DEF IInv, TypeOK
  <1>1. /\ u \in run[Cron].todo /\ run[Cron].pc = "emit" /\ run[Cron].known = Users
        /\ run[Cron].target = {} /\ \A v \in run[Cron].todo : Fresh(v)
        /\ UNCHANGED <<today, users, sums, work, queue>>
    BY DEF EmitUser, At, db, LedgerInv, RunFresh
  <1>2. Computed' = Computed /\ Early' = Early /\ \A v \in Users : RowsOf(v)' = RowsOf(v)
    BY <1>1 DEF Computed, Early, JobOf, Day, RowsOf
  <1>3. CASE start = {} /\ run' = [run EXCEPT ![Cron].todo = @ \ {u}]
    <2>1. /\ run'[Cron].pc = "emit" /\ run'[Cron].known = Users /\ run'[Cron].target = {}
          /\ run'[Cron].last = run[Cron].last /\ run'[Cron].todo = todo
          /\ run'[Cron].pipe = run[Cron].pipe
      BY <1>0, <1>1, <1>3 DEF RunState
    <2>2. Line' = Line
      BY <1>1, <2>1 DEF Line
    <2>3. Pending' = Pending
      BY <1>2, <2>2 DEF Pending
    <2>4. todo \subseteq Users
      BY <1>0 DEF RunState
    <2>5. RunFresh'
      BY <1>1, <1>2, <2>1, <2>3, <2>4 DEF RunFresh, Fresh, Latest
    <2> QED BY <1>1, <2>2, <2>5, QuietLedger DEF IInv, TypeOK
  <1>4. ASSUME NEW t \in start,
               run' = [run EXCEPT ![Cron].todo = @ \ {u},
                                  ![Cron].pipe = @ \o UserJobs(u, t, today)]
        PROVE  LedgerInv'
    <2> DEFINE jobs == UserJobs(u, t, today)
    <2>1. t \in Time /\ today \in Nat
      BY <1>0 DEF RunState, IInv, TypeOK
    <2> HIDE DEF start
    <2>0. jobs \in Seq(Job) /\ Consecutive(jobs, u, NextDay(t))
      BY <2>1, UserJobsConsecutive
    <2>2. /\ jobs \in Seq(Job)
          /\ \A i \in DOMAIN jobs :
               /\ jobs[i].user = u
               /\ i = 1 => jobs[i].day = NextDay(t)
               /\ i > 1 => /\ i - 1 \in DOMAIN jobs
                           /\ jobs[i - 1] = [user |-> u, day |-> jobs[i].day - 1]
      BY <2>0 DEF Consecutive
    <2>3. /\ run'[Cron].pc = "emit" /\ run'[Cron].known = Users /\ run'[Cron].target = {}
          /\ run'[Cron].last = run[Cron].last /\ run'[Cron].todo = todo
          /\ run'[Cron].pipe = run[Cron].pipe \o jobs
      BY <1>0, <1>1, <1>4 DEF RunState
    <2> HIDE DEF jobs
    <2>4. Line' = Line \o jobs
      <3>1. \A p, q, x \in Seq(Job) : p \o (q \o x) = (p \o q) \o x
        OBVIOUS
      <3>2. queue \o (run[Cron].pipe \o jobs) = (queue \o run[Cron].pipe) \o jobs
        BY <1>0, <2>2, <3>1
      <3>3. Line' = queue \o (run[Cron].pipe \o jobs)
        BY <1>1, <2>3 DEF Line
      <3> QED BY <3>2, <3>3 DEF Line
    <2> DEFINE line == Line
    <2>14. \A i \in DOMAIN (line \o jobs) :
              /\ i \in Nat
              /\ \/ i \in DOMAIN line /\ (line \o jobs)[i] = line[i]
                 \/ \E k \in DOMAIN jobs : i = Len(line) + k /\ (line \o jobs)[i] = jobs[k]
      <3>1. line \in Seq(Job)
        BY <1>0
      <3> HIDE DEF line
      <3> QED BY <2>2, <3>1, ConcatElements
    <2>5. /\ \A i \in DOMAIN line : (line \o jobs)[i] = line[i] /\ i \in DOMAIN (line \o jobs)
          /\ \A i \in DOMAIN jobs : (line \o jobs)[Len(line) + i] = jobs[i]
      <3>1. line \in Seq(Job)
        BY <1>0
      <3> HIDE DEF line
      <3> QED BY <2>2, <3>1
    <2>6. \A i \in DOMAIN line : Before(i)' = Before(i)
      <3>1. \A i \in DOMAIN line : \A j \in 1 .. (i - 1) : j \in DOMAIN line
        BY <1>0
      <3> QED BY <1>2, <2>4, <2>5, <3>1 DEF Before
    <2>7. \A job, before : Follows(job, before)' <=> Follows(job, before)
      BY <1>1 DEF Follows, DaysOf, RowsOf, Day
    <2>8. ASSUME NEW i \in DOMAIN (line \o jobs)
          PROVE  Follows((line \o jobs)[i], Before(i)')
      <3>1. CASE i \in DOMAIN line
        BY <2>5, <2>6, <3>1 DEF LedgerInv, PendingFollow
      <3>2. ASSUME 1 \in DOMAIN jobs, i = Len(line) + 1, (line \o jobs)[i] = jobs[1]
            PROVE  Follows((line \o jobs)[i], Before(i)')
        <4>1. \A j \in 1 .. (i - 1) : j \in DOMAIN line /\ (line \o jobs)[j] = line[j]
          BY <1>0, <2>5, <3>2
        <4>2. Before(i)' \in SUBSET Pending
          BY <1>2, <2>4, <4>1 DEF Before, Pending
        <4>3. jobs[1].user = u /\ jobs[1].day = NextDay(t)
          BY <2>2, <3>2
        <4>4. t \in IF run[Cron].last[u] # {} THEN run[Cron].last[u] ELSE run[Cron].first[u]
          BY DEF start
        <4>5. Follows(jobs[1], Before(i)')
          BY <1>1, <4>2, <4>3, <4>4, FirstJobFollows
        <4> QED BY <3>2, <4>5
      <3>3. ASSUME NEW k \in DOMAIN jobs, k > 1, i = Len(line) + k, (line \o jobs)[i] = jobs[k]
            PROVE  Follows((line \o jobs)[i], Before(i)')
        <4>1. k - 1 \in DOMAIN jobs /\ jobs[k - 1] = [user |-> u, day |-> jobs[k].day - 1]
              /\ jobs[k].user = u
          BY <2>2, <3>3
        <4>2. Len(line) \in Nat /\ k \in Nat
          BY <1>0, <2>2
        <4>3. i - 1 \in 1 .. (i - 1) /\ (line \o jobs)[i - 1] = jobs[k - 1]
          BY <2>5, <3>3, <4>1, <4>2
        <4>4. jobs[k - 1] \in Before(i)'
          BY <2>4, <4>3 DEF Before
        <4> QED BY <3>3, <4>1, <4>4 DEF Follows
      <3>4. \A k \in DOMAIN jobs : k = 1 \/ k > 1
        BY <2>2
      <3> HIDE DEF line
      <3> QED BY <2>14, <3>1, <3>2, <3>3, <3>4
    <2>9. PendingFollow'
      BY <1>2, <2>4, <2>7, <2>8 DEF LedgerInv, PendingFollow, JobOf, Day
    <2>10. RowsOnDays' /\ HaveLatest'
      BY <1>1, <1>2 DEF LedgerInv, RowsOnDays, HaveLatest, OnItsDay, Day, StartOf, Latest
    <2>11. \A j \in Pending' : j \in Pending \/ j.user = u
      <3> HIDE DEF line
      <3>1. Pending' = Early \union {(line \o jobs)[k] : k \in DOMAIN (line \o jobs)}
        BY <1>2, <2>4 DEF Pending, line
      <3>2. \A k \in DOMAIN (line \o jobs) :
                (line \o jobs)[k] \in {line[i] : i \in DOMAIN line} \/ (line \o jobs)[k].user = u
        <4>1. \A k \in DOMAIN jobs : jobs[k].user = u
          BY <2>2
        <4> QED BY <2>14, <4>1
      <3> QED BY <3>1, <3>2 DEF Pending, line
    <2>12. todo \subseteq Users /\ \A v \in todo : Fresh(v)'
      <3>1. todo \subseteq Users
        BY <1>0 DEF RunState
      <3>2. ASSUME NEW v \in todo PROVE Fresh(v)'
        <4>1. v \in Users /\ v # u /\ Fresh(v) /\ RowsOf(v)' = RowsOf(v)
          BY <1>1, <1>2, <3>1
        <4>2. \A j \in Pending' : j.user # v
          BY <2>11, <4>1 DEF Fresh
        <4>3. run'[Cron].last[v] = run[Cron].last[v]
          BY <2>3
        <4> QED BY <4>1, <4>2, <4>3 DEF Fresh, Latest
      <3> QED BY <3>1, <3>2
    <2>13. RunFresh'
      BY <2>3, <2>12 DEF RunFresh
    <2> QED BY <1>1, <2>9, <2>10, <2>13 DEF LedgerInv
  <1>5. \/ start = {} /\ run' = [run EXCEPT ![Cron].todo = @ \ {u}]
        \/ \E t \in start : run' = [run EXCEPT ![Cron].todo = @ \ {u},
                                               ![Cron].pipe = @ \o UserJobs(u, t, today)]
    BY <1>1 DEF EmitUser
  <1> QED BY <1>3, <1>4, <1>5

\* A step of the one worker.
LEMMA OneWorker == ASSUME Undisturbed, NEW w \in Workers PROVE Computed = work[w]
  BY DEF Undisturbed, Computed

LEMMA OneWorkerNext == ASSUME Undisturbed, NEW w \in Workers PROVE Computed' = work'[w]
  BY DEF Undisturbed, Computed

\* A worker computes the summary of the first job.
LEMMA ProcessLedger ==
  ASSUME Undisturbed, IInv, LedgerInv, NEW w \in Workers, Process(w)
  PROVE  LedgerInv'
  <1> DEFINE job == Head(queue)
  <1>0. /\ queue \in Seq(Job) /\ run[Cron].pipe \in Seq(Job) /\ Line \in Seq(Job)
        /\ work \in [Workers -> SUBSET Summary] /\ today \in Nat
        /\ \A i \in DOMAIN queue : queue[i].day < today
        /\ beats \in [Users -> SUBSET Time]
    BY LineType DEF IInv, TypeOK, JobsFinished
  <1>1. /\ work[w] = {} /\ queue # <<>> /\ queue' = Tail(queue) /\ job.user # NoUser
        /\ UNCHANGED <<today, users, sums, run>>
    BY DEF Process, db
  <1>2. ~ faults < MaxFaults
    BY DEF Undisturbed, IInv, TypeOK
  <1>3. PICK s \in Summarize(job.user, job.day, beats[job.user] \intersect Window(job.day)) :
          work' = [work EXCEPT ![w] = {s}]
    BY <1>2 DEF Process
  <1>4. job \in Job /\ job.user \in Users /\ job.day \in Nat /\ job.day < today
    <2>1. job \in Job /\ job.day < today
      BY <1>0, <1>1
    <2> HIDE DEF job
    <2> QED BY <1>1, <2>1 DEF Job
  <1>5. s \in Summary /\ JobOf(s) = [user |-> job.user, day |-> job.day] /\ OnItsDay(s)
    <2> HIDE DEF job
    <2>1. beats[job.user] \intersect Window(job.day) \in SUBSET Time
      BY <1>0, <1>4
    <2> QED BY <1>3, <1>4, <2>1, SummaryOfDay
  <1>6. JobOf(s) = job /\ Day(s.from) = job.day
    <2> HIDE DEF job
    <2> QED BY <1>4, <1>5 DEF Job, JobOf
  <1>7. Computed = {} /\ Computed' = {s}
    BY <1>0, <1>1, <1>3, OneWorker, OneWorkerNext
  <1>8. Early = {} /\ Early' = {job}
    BY <1>6, <1>7 DEF Early, JobOf, Day
  <1>9. /\ Line # <<>> /\ Line' = Tail(Line) /\ Line[1] = job /\ 1 \in DOMAIN Line
    <2>1. \A p, q \in Seq(Job) : p # <<>> =>
             /\ p \o q # <<>> /\ Tail(p) \o q = Tail(p \o q)
             /\ (p \o q)[1] = Head(p) /\ 1 \in DOMAIN (p \o q)
      OBVIOUS
    <2> QED BY <1>0, <1>1, <2>1 DEF Line
  <1> DEFINE line == Line
  <1>10. \A i \in DOMAIN Tail(line) : /\ i \in Nat \ {0} /\ i + 1 \in DOMAIN line
                                      /\ Tail(line)[i] = line[i + 1]
    <2>1. line \in Seq(Job) /\ line # <<>>
      BY <1>0, <1>9
    <2> HIDE DEF line
    <2> QED BY <2>1
  <1>11. \A x, before : Follows(x, before)' <=> Follows(x, before)
    BY <1>1 DEF Follows, DaysOf, RowsOf, Day
  <1>12. Before(1) = {}
    BY <1>8 DEF Before
  <1>13. \A i \in DOMAIN Tail(line) : Before(i)' = Before(i + 1)
    <2> SUFFICES ASSUME NEW i \in DOMAIN Tail(line) PROVE Before(i)' = Before(i + 1)
      OBVIOUS
    <2>1. i \in Nat \ {0} /\ i + 1 \in DOMAIN line
      BY <1>10
    <2>2. \A j \in 1 .. (i - 1) : Tail(line)[j] = line[j + 1] /\ j + 1 \in 1 .. ((i + 1) - 1)
      <3>1. line \in Seq(Job) /\ line # <<>>
        BY <1>0, <1>9
      <3> HIDE DEF line
      <3>2. \A j \in 1 .. (i - 1) : j \in DOMAIN Tail(line)
        BY <2>1, <3>1
      <3> QED BY <1>10, <2>1, <3>2
    <2>3. \A j \in 1 .. ((i + 1) - 1) : j = 1 \/ j - 1 \in 1 .. (i - 1)
      BY <2>1
    <2>4. Before(i)' = {job} \union {Tail(line)[j] : j \in 1 .. (i - 1)}
      BY <1>8, <1>9 DEF Before
    <2>5. Before(i + 1) = {line[j] : j \in 1 .. ((i + 1) - 1)}
      BY <1>8 DEF Before
    <2>6. line[1] = job /\ 1 \in 1 .. ((i + 1) - 1)
      BY <1>9, <2>1
    <2> HIDE DEF line, job
    <2>7. \A x \in Before(i)' : x \in Before(i + 1)
      BY <2>2, <2>4, <2>5, <2>6
    <2>8. \A x \in Before(i + 1) : x \in Before(i)'
      <3> SUFFICES ASSUME NEW j \in 1 .. ((i + 1) - 1) PROVE line[j] \in Before(i)'
        BY <2>5
      <3>1. CASE j = 1
        BY <2>4, <2>6, <3>1
      <3>2. CASE j # 1
        <4>1. j - 1 \in 1 .. (i - 1) /\ (j - 1) + 1 = j
          BY <2>3, <3>2
        <4>2. Tail(line)[j - 1] = line[j]
          BY <2>2, <4>1
        <4> QED BY <2>4, <4>1, <4>2
      <3> QED BY <3>1, <3>2
    <2> QED BY <2>7, <2>8
  <1>14. PendingFollow'
    <2>1. Follows(job, {})
      BY <1>9, <1>12 DEF LedgerInv, PendingFollow
    <2>2. Follows([user |-> s.user, day |-> s.from \div DayLen], {})'
      <3>1. job = [user |-> s.user, day |-> s.from \div DayLen]
        BY <1>6 DEF JobOf, Day
      <3>2. Follows([user |-> s.user, day |-> s.from \div DayLen], {})
        BY <2>1, <3>1
      <3> QED BY <1>11, <3>2
    <2>3. \A i \in DOMAIN Tail(line) : Follows(Tail(line)[i], Before(i)')
      BY <1>10, <1>13 DEF LedgerInv, PendingFollow
    <2> HIDE DEF job
    <2>4. \A i \in DOMAIN Line' : Follows(Line[i], Before(i))'
      BY <1>9, <1>11, <2>3
    <2> QED BY <1>7, <2>2, <2>4 DEF PendingFollow, JobOf, Day
  <1>15. RowsOnDays' /\ HaveLatest'
    <2> HIDE DEF job
    <2> QED BY <1>1, <1>4, <1>5, <1>6, <1>7
            DEF LedgerInv, RowsOnDays, HaveLatest, OnItsDay, Day, StartOf, RowsOf, Latest
  <1>16. job \in Pending /\ \A x \in Pending' : x \in Pending
    <2>1. job \in Pending
      BY <1>9 DEF Pending
    <2> HIDE DEF job
    <2>2. Pending' = {job} \union {Tail(line)[i] : i \in DOMAIN Tail(line)}
      BY <1>8, <1>9 DEF Pending
    <2>3. \A i \in DOMAIN Tail(line) : Tail(line)[i] \in Pending
      BY <1>10 DEF Pending
    <2> QED BY <2>1, <2>2, <2>3
  <1>17. RunFresh'
    <2> HIDE DEF job
    <2> QED BY <1>1, <1>16 DEF LedgerInv, RunFresh, Fresh, RowsOf, Latest
  <1> QED BY <1>1, <1>14, <1>15, <1>17 DEF LedgerInv

\* The worker inserts a summary: what this means for a user's days.
LEMMA InsertedDay ==
  ASSUME Undisturbed, IInv, LedgerInv, NEW w \in Workers, InsertSummary(w)
  PROVE  \E s \in Summary :
            /\ Computed = {s} /\ Computed' = {} /\ sums' = sums \union {s}
            /\ UNCHANGED <<today, users, run, queue>>
            /\ \A u : RowsOf(u)' = IF u = s.user THEN RowsOf(u) \union {s} ELSE RowsOf(u)
            /\ \A u : DaysOf(u)' = IF u = s.user THEN DaysOf(u) \union {Day(s.from)} ELSE DaysOf(u)
  <1>0. work \in [Workers -> SUBSET Summary] /\ ~ faults < MaxFaults
    BY DEF Undisturbed, IInv, TypeOK
  <1>1. PICK s \in work[w] :
          /\ work' = [work EXCEPT ![w] = {}]
          /\ \/ s.user \in users /\ sums' = sums \union {s}
             \/ s.user \notin users
          /\ UNCHANGED <<today, users, run, queue>>
    BY <1>0 DEF InsertSummary
  <1>2. s \in Summary /\ s.user \in users
    BY <1>0, <1>1 DEF LedgerInv, Summary
  <1>3. Computed = {s} /\ Computed' = {}
    BY <1>0, <1>1, OneWorker, OneWorkerNext DEF LedgerInv, PendingFollow
  <1>4. \A u : RowsOf(u)' = IF u = s.user THEN RowsOf(u) \union {s} ELSE RowsOf(u)
    BY <1>1, <1>2 DEF RowsOf
  <1>5. \A u : DaysOf(u)' = IF u = s.user THEN DaysOf(u) \union {Day(s.from)} ELSE DaysOf(u)
    BY <1>4 DEF DaysOf, Day
  <1> QED BY <1>1, <1>2, <1>3, <1>4, <1>5

\* One more time, and there still is a latest.
LEMMA LatestOfMore ==
  ASSUME NEW T \in SUBSET Nat, NEW t \in Nat, T = {} \/ Latest(T) # {}
  PROVE  Latest(T \union {t}) # {}
  <1>1. CASE T = {}
    <2>1. t \in Latest(T \union {t})
      BY <1>1 DEF Latest
    <2> QED BY <2>1
  <1>2. CASE T # {}
    <2>1. PICK m \in T : \A c \in T : c <= m
      BY <1>2 DEF Latest
    <2>2. CASE m <= t
      <3>1. t \in Latest(T \union {t})
        BY <2>1, <2>2 DEF Latest
      <3> QED BY <3>1
    <2>3. CASE ~ m <= t
      <3>1. m \in Latest(T \union {t})
        BY <2>1, <2>3 DEF Latest
      <3> QED BY <3>1
    <2> QED BY <2>2, <2>3
  <1> QED BY <1>1, <1>2

LEMMA InsertLedger ==
  ASSUME Undisturbed, IInv, LedgerInv, NEW w \in Workers, InsertSummary(w)
  PROVE  LedgerInv'
  <1>1. PICK s \in Summary :
            /\ Computed = {s} /\ Computed' = {} /\ sums' = sums \union {s}
            /\ UNCHANGED <<today, users, run, queue>>
            /\ \A u : RowsOf(u)' = IF u = s.user THEN RowsOf(u) \union {s} ELSE RowsOf(u)
            /\ \A u : DaysOf(u)' = IF u = s.user THEN DaysOf(u) \union {Day(s.from)} ELSE DaysOf(u)
    BY InsertedDay
  <1>2. Line' = Line /\ Early = {JobOf(s)} /\ Early' = {}
    BY <1>1 DEF Line, Early
  <1>3. Pending = {JobOf(s)} \union Pending'
    BY <1>2 DEF Pending
  <1>4. \A i : Before(i) = {JobOf(s)} \union Before(i)'
    BY <1>2 DEF Before
  <1>5. ASSUME NEW job, NEW before, Follows(job, {JobOf(s)} \union before)
        PROVE  \/ job.day \in DaysOf(job.user)'
               \/ job.day - 1 \in DaysOf(job.user)'
               \/ [user |-> job.user, day |-> job.day - 1] \in before
               \/ DaysOf(job.user)' = {} /\ \A j \in before : j.user # job.user
    <2>1. CASE job.day \in DaysOf(job.user) \/ job.day - 1 \in DaysOf(job.user)
      BY <1>1, <2>1
    <2>2. CASE [user |-> job.user, day |-> job.day - 1] = JobOf(s)
      <3>1. job.user = s.user /\ job.day - 1 = Day(s.from)
        BY <2>2 DEF JobOf
      <3>2. job.day - 1 \in DaysOf(job.user)'
        BY <1>1, <3>1
      <3> QED BY <3>2
    <2>3. CASE [user |-> job.user, day |-> job.day - 1] \in before
      BY <2>3
    <2>4. CASE DaysOf(job.user) = {} /\ \A j \in {JobOf(s)} \union before : j.user # job.user
      <3>0. JobOf(s).user = s.user
        BY DEF JobOf
      <3>1. job.user # s.user
        BY <2>4, <3>0
      <3> QED BY <1>1, <2>4, <3>1
    <2> QED BY <1>5, <2>1, <2>2, <2>3, <2>4 DEF Follows
  <1>6. PendingFollow'
    <2>1. ASSUME NEW i \in DOMAIN Line PROVE Follows(Line[i], Before(i))'
      <3>1. Follows(Line[i], {JobOf(s)} \union Before(i)')
        BY <1>4 DEF LedgerInv, PendingFollow
      <3>2. /\ Line'[i] = Line[i]
            /\ \/ Line[i].day \in DaysOf(Line[i].user)'
               \/ Line[i].day - 1 \in DaysOf(Line[i].user)'
               \/ [user |-> Line[i].user, day |-> Line[i].day - 1] \in Before(i)'
               \/ DaysOf(Line[i].user)' = {} /\ \A j \in Before(i)' : j.user # Line[i].user
        BY <1>2, <1>5, <3>1
      <3> QED BY <3>2 DEF Follows
    <2> QED BY <1>1, <1>2, <2>1 DEF PendingFollow
  <1>7. RowsOnDays'
    BY <1>1 DEF LedgerInv, RowsOnDays, OnItsDay, Day, StartOf
  <1>8. HaveLatest'
    <2>1. ASSUME NEW u \in Users, u = s.user PROVE Latest({r.to : r \in RowsOf(u)})' # {}
      <3> DEFINE T == {r.to : r \in RowsOf(u)}
      <3>1. T \in SUBSET Nat /\ s.to \in Nat
        BY DEF RowsOf, IInv, TypeOK, Summary, Time
      <3>2. T = {} \/ Latest(T) # {}
        BY DEF LedgerInv, HaveLatest
      <3>3. {r.to : r \in RowsOf(u)'} = T \union {s.to}
        BY <1>1, <2>1
      <3> HIDE DEF T
      <3>4. Latest(T \union {s.to}) # {}
        BY <3>1, <3>2, LatestOfMore
      <3> QED BY <3>3, <3>4 DEF Latest
    <2>2. ASSUME NEW u \in Users, u # s.user, RowsOf(u)' # {}
          PROVE  Latest({r.to : r \in RowsOf(u)})' # {}
      BY <1>1, <2>2 DEF LedgerInv, HaveLatest, Latest
    <2> QED BY <2>1, <2>2 DEF HaveLatest
  <1>9. RunFresh'
    <2>1. run[Cron].pc \in {"idle", "emit"} /\ run' = run
      BY <1>1, <1>3 DEF LedgerInv, RunFresh
    <2>2. ASSUME NEW u \in run[Cron].todo, run[Cron].pc = "emit" PROVE Fresh(u)'
      <3>1. Fresh(u) /\ u # s.user
        BY <1>3, <2>2 DEF LedgerInv, RunFresh, Fresh, JobOf
      <3>2. RowsOf(u)' = RowsOf(u) /\ \A j \in Pending' : j \in Pending
        BY <1>1, <1>3, <3>1
      <3> QED BY <2>1, <3>1, <3>2 DEF Fresh, Latest
    <2> QED BY <2>1, <2>2 DEF LedgerInv, RunFresh
  <1> QED BY <1>1, <1>6, <1>7, <1>8, <1>9 DEF LedgerInv

\* Every step keeps the invariant.
LEMMA LedgerNext == ASSUME Undisturbed, IInv, LedgerInv, [Next]_vars PROVE LedgerInv'
  <1>0. /\ clicks \in Nat /\ faults \in Nat /\ today \in Nat
        /\ ~ clicks < MaxClicks /\ Runs = {Cron} /\ Regens = {}
    BY DEF Undisturbed, IInv, TypeOK, Runs
  <1>1. ASSUME UNCHANGED <<users, sums, work, queue, run>>, today' \in Nat, today <= today'
        PROVE  LedgerInv'
    <2>1. Line' = Line
      BY <1>1 DEF Line
    <2> QED BY <1>1, <2>1, QuietLedger, QuietRunFresh
  <1>2. CASE UNCHANGED vars
    BY <1>0, <1>1, <1>2 DEF vars, db, mem
  <1>3. CASE Midnight
    BY <1>0, <1>1, <1>3 DEF Midnight, db, mem
  <1>4. CASE Crash
    BY <1>4, RestartLedger DEF Crash, db
  <1>5. CASE \E u \in Users : PostHeartbeat(u) \/ DeleteUser(u) \/ ClearData(u) \/ ClearHeartbeats(u)
    BY <1>0, <1>1, <1>5 DEF PostHeartbeat, DeleteUser, ClearData, ClearHeartbeats, mem, Undisturbed
  <1>6. CASE RunStep(Cron)
    <2>1. /\ run[Cron].target = {}
          /\ run[Cron].pc \in {"idle", "lock", "readLast", "readFirst", "readUsers", "emit"}
      BY DEF LedgerInv, RunFresh
    <2>2. ~ LockRefused(Cron) /\ ~ Latch(Cron) /\ ~ Unlatch(Cron) /\ ~ ClearSummaries(Cron)
      BY <2>1 DEF LockRefused, Latch, Unlatch, ClearSummaries, At
    <2> QED BY <1>6, <2>2, LockLedger, ReadLastLedger, ReadFirstLedger, ReadUsersLedger,
               EmitLedger, ForwardLedger DEF RunStep
  <1>7. ASSUME NEW w \in Workers, WorkStep(w) PROVE LedgerInv'
    <2>1. CASE Panic(w)
      BY <2>1, RestartLedger DEF Panic, db
    <2> QED BY <1>7, <2>1, ProcessLedger, InsertLedger DEF WorkStep
  <1> QED BY <1>0, <1>2, <1>3, <1>4, <1>5, <1>6, <1>7, CronFiresLedger DEF Next

----------------------------------------------------------------------------
(***************************************************************************)
(* The refinement.                                                         *)
(***************************************************************************)

\* Only midnight and a worker's insertion change the day or the rows.
LEMMA LedgerSteps ==
  ASSUME Undisturbed, IInv, LedgerInv, [Next]_vars
  PROVE  \/ UNCHANGED <<today, sums>>
         \/ today' = today + 1 /\ sums' = sums
         \/ \E w \in Workers : InsertSummary(w)
  <1>0. clicks \in Nat /\ ~ clicks < MaxClicks /\ Runs = {Cron} /\ Regens = {}
    BY DEF Undisturbed, IInv, TypeOK, Runs
  <1>1. CASE UNCHANGED vars
    BY <1>1 DEF vars, db
  <1>2. CASE Midnight \/ CronFires \/ Crash
    BY <1>2 DEF Midnight, CronFires, Crash, db
  <1>3. CASE \E u \in Users : PostHeartbeat(u) \/ DeleteUser(u) \/ ClearData(u) \/ ClearHeartbeats(u)
    BY <1>0, <1>3 DEF PostHeartbeat, DeleteUser, ClearData, ClearHeartbeats, Undisturbed
  <1>4. CASE RunStep(Cron)
    <2>1. run[Cron].pc \in {"idle", "lock", "readLast", "readFirst", "readUsers", "emit"}
      BY DEF LedgerInv, RunFresh
    <2>2. ~ ClearSummaries(Cron)
      BY <2>1 DEF ClearSummaries, At
    <2> QED BY <1>4, <2>2 DEF RunStep, Lock, LockRefused, ReadLast, ReadFirst, ReadUsers, EmitUser,
                              Forward, Return, Latch, Unlatch, SetLatch, db
  <1>5. ASSUME NEW w \in Workers, WorkStep(w)
        PROVE  UNCHANGED <<today, sums>> \/ InsertSummary(w)
    BY <1>5 DEF WorkStep, Process, Panic, db
  <1> QED BY <1>0, <1>1, <1>2, <1>3, <1>4, <1>5 DEF Next

\* An insertion records the day after a recorded one, or the first, or one that is recorded.
LEMMA InsertRecords ==
  ASSUME Undisturbed, IInv, LedgerInv, NEW w \in Workers, InsertSummary(w)
  PROVE  \E u \in Users : \E d \in 0 .. today :
            /\ d < today /\ today' = today
            /\ DaysOf(u) = {} \/ d - 1 \in DaysOf(u) \/ d \in DaysOf(u)
            /\ \A v \in Users : DaysOf(v)' = IF v = u THEN DaysOf(v) \union {d} ELSE DaysOf(v)
  <1>1. PICK s \in Summary :
            /\ Computed = {s}
            /\ UNCHANGED <<today, users, run, queue>>
            /\ \A u : DaysOf(u)' = IF u = s.user THEN DaysOf(u) \union {Day(s.from)} ELSE DaysOf(u)
    BY InsertedDay
  <1>2. s.user \in Users /\ Day(s.from) \in Nat /\ today \in Nat
    <2>1. s.from \div DayLen \in Nat
      BY ConstantsAssumption DEF Summary, Time
    <2> QED BY <2>1 DEF Summary, Day, IInv, TypeOK
  <1>3. Day(s.from) < today /\ Follows(JobOf(s), {})
    BY <1>1 DEF LedgerInv, RowsOnDays, PendingFollow
  <1>4. DaysOf(s.user) = {} \/ Day(s.from) - 1 \in DaysOf(s.user) \/ Day(s.from) \in DaysOf(s.user)
    BY <1>3 DEF Follows, JobOf
  <1> QED BY <1>1, <1>2, <1>3, <1>4

LEMMA LedgerInitial == Init => Ledger!Init
  <1>1. Init => \A u \in Users : DaysOf(u) = {}
    BY DEF Init, DaysOf, RowsOf
  <1> QED BY <1>1 DEF Init, Ledger!Init

LEMMA LedgerStep ==
  ASSUME Undisturbed, IInv, LedgerInv, [Next]_vars
  PROVE  [Ledger!Next]_Ledger!vars
  <1> DEFINE days == [u \in Users |-> DaysOf(u)]
  <1>1. CASE UNCHANGED <<today, sums>>
    <2>1. \A u \in Users : DaysOf(u)' = DaysOf(u)
      BY <1>1 DEF DaysOf, RowsOf, Day
    <2> QED BY <1>1, <2>1 DEF Ledger!vars
  <1>2. CASE today' = today + 1 /\ sums' = sums
    <2>1. \A u \in Users : DaysOf(u)' = DaysOf(u)
      BY <1>2 DEF DaysOf, RowsOf, Day
    <2> QED BY <1>2, <2>1 DEF Ledger!Next, Ledger!Midnight
  <1>3. CASE \E w \in Workers : InsertSummary(w)
    <2>1. PICK u \in Users, d \in 0 .. today :
            /\ d < today /\ today' = today
            /\ DaysOf(u) = {} \/ d - 1 \in DaysOf(u) \/ d \in DaysOf(u)
            /\ \A v \in Users : DaysOf(v)' = IF v = u THEN DaysOf(v) \union {d} ELSE DaysOf(v)
      BY <1>3, InsertRecords
    <2>2. CASE d \in DaysOf(u)
      <3>1. \A v \in Users : DaysOf(v)' = DaysOf(v)
        BY <2>1, <2>2
      <3> QED BY <2>1, <3>1 DEF Ledger!vars
    <2>3. CASE d \notin DaysOf(u)
      <3>1. [v \in Users |-> DaysOf(v)'] = [[v \in Users |-> DaysOf(v)] EXCEPT ![u] = @ \union {d}]
        BY <2>1
      <3>2. Ledger!Record(u, d)
        BY <2>1, <2>3, <3>1 DEF Ledger!Record
      <3> QED BY <3>2 DEF Ledger!Next
    <2> QED BY <2>2, <2>3
  <1> QED BY <1>1, <1>2, <1>3, LedgerSteps

\* With nothing but crashes to disturb the cron job, the rows are a ledger: each day is
\* recorded once it is over and follows a recorded one, for any number of users and days,
\* any day length and heartbeat timeout, and whatever heartbeats come late.
THEOREM AggregationKeepsLedger == ASSUME Undisturbed PROVE Spec => LedgerKept
  <1>1. Init => IInv /\ LedgerInv /\ Ledger!Init
    BY InitInv, LedgerInit, LedgerInitial
  <1>2. IInv /\ LedgerInv /\ [Next]_vars => IInv' /\ LedgerInv'
    BY NextInv, LedgerNext
  <1>3. IInv /\ LedgerInv /\ [Next]_vars => [Ledger!Next]_Ledger!vars
    BY LedgerStep
  <1> QED BY <1>1, <1>2, <1>3, PTL DEF Spec, LedgerKept, Ledger!Spec

\* What the reader of summaries relies on: no day between two that have rows lacks one.
LEMMA NoDaySkippedStep ==
  ASSUME Undisturbed, IInv, LedgerInv, NoDaySkipped, [Next]_vars
  PROVE  NoDaySkipped'
  <1>1. CASE sums' = sums
    BY <1>1 DEF NoDaySkipped, DaysOf, RowsOf, Day
  <1>2. CASE \E w \in Workers : InsertSummary(w)
    <2>1. PICK u \in Users, d \in 0 .. today :
            /\ DaysOf(u) = {} \/ d - 1 \in DaysOf(u) \/ d \in DaysOf(u)
            /\ \A v \in Users : DaysOf(v)' = IF v = u THEN DaysOf(v) \union {d} ELSE DaysOf(v)
      BY <1>2, InsertRecords
    <2>2. d \in Int /\ \A v \in Users : DaysOf(v) \subseteq Int
      <3>1. \A s \in sums : s.from \in Nat
        BY DEF IInv, TypeOK, Summary, Time
      <3>2. \A s \in sums : Day(s.from) \in Int
        BY <3>1, DayBounds
      <3> QED BY <3>2 DEF DaysOf, RowsOf, IInv, TypeOK
    <2>3. ASSUME NEW v \in Users, NEW a \in DaysOf(v)', NEW b \in DaysOf(v)', NEW c \in a .. b
          PROVE  c \in DaysOf(v)'
      <3>1. CASE v # u
        BY <2>1, <3>1 DEF NoDaySkipped
      <3>2. CASE v = u
        <4>1. /\ DaysOf(u)' = DaysOf(u) \union {d}
              /\ \A x, y \in DaysOf(u) : \A z \in x .. y : z \in DaysOf(u)
              /\ DaysOf(u) \subseteq Int
          BY <2>1, <2>2 DEF NoDaySkipped
        <4>2. c \in Int /\ a \in Int /\ b \in Int /\ a <= c /\ c <= b
          BY <2>2, <3>2, <4>1
        <4>3. CASE a # d /\ b # d
          BY <3>2, <4>1, <4>3
        <4>4. CASE c = d
          BY <3>2, <4>1, <4>4
        <4>5. CASE a = d /\ c # d
          <5>1. b \in DaysOf(u) /\ c \in d + 1 .. b
            BY <2>2, <3>2, <4>1, <4>2, <4>5
          <5>2. d - 1 \in DaysOf(u) \/ d \in DaysOf(u)
            BY <2>1, <5>1
          <5>3. c \in d .. b /\ c \in (d - 1) .. b
            BY <2>2, <4>2, <4>5
          <5> QED BY <3>2, <4>1, <5>1, <5>2, <5>3
        <4>6. CASE b = d /\ a # d /\ c # d
          <5>1. a \in DaysOf(u) /\ c \in a .. (d - 1) /\ c \in a .. d
            BY <2>2, <3>2, <4>1, <4>2, <4>6
          <5>2. d - 1 \in DaysOf(u) \/ d \in DaysOf(u)
            BY <2>1, <5>1
          <5> QED BY <3>2, <4>1, <5>1, <5>2
        <4> QED BY <4>3, <4>4, <4>5, <4>6
      <3> QED BY <3>1, <3>2
    <2> QED BY <2>3 DEF NoDaySkipped
  <1> QED BY <1>1, <1>2, LedgerSteps

\* With nothing but crashes to disturb the cron job, every user's recorded days are an
\* unbroken stretch: no late heartbeat and no crash makes aggregation skip a day.
THEOREM DaysAreContiguous == ASSUME Undisturbed PROVE Spec => []NoDaySkipped
  <1>1. Init => IInv /\ LedgerInv /\ NoDaySkipped
    <2>1. Init => \A u \in Users : DaysOf(u) = {}
      BY DEF Init, DaysOf, RowsOf
    <2> QED BY <2>1, InitInv, LedgerInit DEF NoDaySkipped
  <1>2. IInv /\ LedgerInv /\ NoDaySkipped /\ [Next]_vars => IInv' /\ LedgerInv' /\ NoDaySkipped'
    BY NextInv, LedgerNext, NoDaySkippedStep
  <1> QED BY <1>1, <1>2, PTL DEF Spec

----------------------------------------------------------------------------
(***************************************************************************)
(* No heartbeat is counted twice.  A day may get a second row: when the    *)
(* latest row ends at the first second of its day, generateUserJobs asks   *)
(* for that day once more.  The invariant says that this is the only way,  *)
(* and that the second row then begins where the first does.               *)
(***************************************************************************)
Rows == sums \union Computed

\* A row covers heartbeats of the day on which it begins; one that ends at that day's first
\* second ends at a heartbeat.
HoldsItsDay(s) ==
    /\ s.covers \subseteq Window(Day(s.from))
    /\ s.to = StartOf(Day(s.from)) => s.to \in beats[s.user]

\* Where the day of a job has rows, they begin with the heartbeat of the day's first second.
Repeats(job) ==
    \A r \in Rows : r.user = job.user /\ Day(r.from) = job.day =>
        r.from = StartOf(job.day) /\ r.from \in beats[r.user]

CountedInv ==
    /\ \A s \in Rows : HoldsItsDay(s)
    /\ \A r, s \in Rows : r.user = s.user /\ Day(r.from) = Day(s.from) => r.from = s.from
    /\ \A i \in DOMAIN Line : Repeats(Line[i])
    /\ \A i, k \in DOMAIN Line : Line[i] = Line[k] => i = k
    /\ clearing = {}

LEMMA RowsType == ASSUME IInv PROVE \A r \in Rows : r \in Summary /\ r.user \in Users
  BY DEF IInv, TypeOK, Rows, Computed, Summary

\* A step that adds neither row nor job and takes no heartbeat away.
LEMMA QuietCounted ==
  ASSUME IInv, CountedInv, Rows' \subseteq Rows, Line' = Line \/ Line' = <<>>,
         \A u \in Users : beats[u] \subseteq beats'[u], clearing' = {}
  PROVE  CountedInv'
  <1>1. \A s \in Rows : HoldsItsDay(s)'
    BY RowsType DEF CountedInv, HoldsItsDay, Window, Day, StartOf
  <1>2. \A job : Repeats(job) => Repeats(job)'
    BY RowsType DEF Repeats, Day, StartOf
  <1>3. CASE Line' = Line
    <2>1. \A i \in DOMAIN Line : Repeats(Line[i])'
      BY <1>2, <1>3 DEF CountedInv
    <2> QED BY <1>1, <1>3, <2>1 DEF CountedInv, Day
  <1>4. CASE Line' = <<>>
    BY <1>1, <1>4 DEF CountedInv, Day
  <1> QED BY <1>3, <1>4

\* generateUserJobs: a row that begins on a day still asked for, after the row that ends
\* last, begins and ends at the first second of that day.
LEMMA AskedAgain ==
  ASSUME NEW f \in Nat, NEW t \in Nat, f <= t, NextDay(t) <= Day(f)
  PROVE  f = t /\ f = StartOf(Day(f))
  <1> DEFINE e == Day(t - 1)
  <1>1. t - 1 \in Int /\ f \in Int
    OBVIOUS
  <1>2. /\ e \in Int /\ Day(f) \in Int /\ t - 1 < StartOf(e + 1)
        /\ StartOf(Day(f)) <= f
    BY <1>1, DayBounds
  <1>3. e < Day(f)
    BY <1>2 DEF NextDay
  <1> HIDE DEF e
  <1>4. StartOf(e + 1) <= StartOf(Day(f))
    BY <1>2, <1>3, StartOfMonotone
  <1>5. StartOf(e + 1) \in Int /\ StartOf(Day(f)) \in Int
    BY <1>2, ConstantsAssumption DEF StartOf
  <1> QED BY <1>2, <1>4, <1>5

\* generateUserJobs asks for no day twice, and for none before the next.
LEMMA UserJobsDistinct ==
  ASSUME NEW u \in Users, NEW t \in Time, NEW now \in Nat
  PROVE  /\ \A i \in DOMAIN UserJobs(u, t, now) : /\ UserJobs(u, t, now)[i].user = u
                                                  /\ UserJobs(u, t, now)[i].day \in Int
                                                  /\ NextDay(t) <= UserJobs(u, t, now)[i].day
         /\ \A i, k \in DOMAIN UserJobs(u, t, now) :
               UserJobs(u, t, now)[i] = UserJobs(u, t, now)[k] => i = k
  <1> DEFINE n == IF NextDay(t) < now THEN now - NextDay(t) ELSE 0
             job(i) == [user |-> u, day |-> NextDay(t) + i - 1]
  <1>1. NextDay(t) \in Nat /\ n \in Nat
    BY NextDayNat
  <1>2. UserJobs(u, t, now) = [i \in 1..n |-> job(i)]
    BY DEF UserJobs
  <1>3. \A i \in 1..n : /\ job(i).user = u /\ job(i).day \in Int
                        /\ job(i).day = NextDay(t) + i - 1 /\ NextDay(t) <= job(i).day
    BY <1>1
  <1>4. \A i, k \in 1..n : job(i) = job(k) => i = k
    <2> SUFFICES ASSUME NEW i \in 1..n, NEW k \in 1..n, job(i) = job(k) PROVE i = k
      OBVIOUS
    <2>1. job(i).day = job(k).day
      OBVIOUS
    <2>2. NextDay(t) + i - 1 = NextDay(t) + k - 1
      BY <1>3, <2>1
    <2> HIDE DEF n, job
    <2> QED BY <1>1, <2>2
  <1> HIDE DEF n, job
  <1> QED BY <1>2, <1>3, <1>4

\* The run asks for the day of a row only if the row begins and ends at its first second.
LEMMA EmitCounted ==
  ASSUME IInv, LedgerInv, CountedInv, NEW u \in Users, EmitUser(Cron, u)
  PROVE  CountedInv'
  <1> DEFINE start == IF run[Cron].last[u] # {} THEN run[Cron].last[u] ELSE run[Cron].first[u]
  <1>0. /\ run[Cron] \in RunState /\ Cron \in Runs /\ run \in [Runs -> RunState]
        /\ Line \in Seq(Job) /\ queue \in Seq(Job) /\ run[Cron].pipe \in Seq(Job)
    BY LineType DEF IInv, TypeOK
  <1>1. /\ u \in run[Cron].todo /\ run[Cron].known = Users /\ Fresh(u)
        /\ UNCHANGED <<today, users, beats, sums, work, queue, clearing>>
    BY DEF EmitUser, At, db, LedgerInv, RunFresh
  <1>2. Rows' = Rows
    BY <1>1 DEF Rows, Computed
  <1>3. CASE start = {} /\ run' = [run EXCEPT ![Cron].todo = @ \ {u}]
    <2>1. run'[Cron].pipe = run[Cron].pipe
      BY <1>0, <1>3 DEF RunState
    <2>2. Line' = Line
      BY <1>1, <2>1 DEF Line
    <2> QED BY <1>1, <1>2, <2>2, QuietCounted DEF CountedInv
  <1>4. ASSUME NEW t \in start,
               run' = [run EXCEPT ![Cron].todo = @ \ {u},
                                  ![Cron].pipe = @ \o UserJobs(u, t, today)]
        PROVE  CountedInv'
    <2> DEFINE jobs == UserJobs(u, t, today)
               line == Line
    <2>1. t \in Time /\ today \in Nat
      BY <1>0 DEF RunState, IInv, TypeOK
    <2>2. jobs \in Seq(Job)
      BY <2>1, UserJobsFinished
    <2>3. /\ \A i \in DOMAIN jobs : jobs[i].user = u /\ jobs[i].day \in Int
                                    /\ NextDay(t) <= jobs[i].day
          /\ \A i, k \in DOMAIN jobs : jobs[i] = jobs[k] => i = k
      BY <2>1, UserJobsDistinct
    <2>4. run'[Cron].pipe = run[Cron].pipe \o jobs
      BY <1>0, <1>4 DEF RunState
    <2>5. \A r \in Rows : r.user = u => r \in RowsOf(u) /\ r.from \in Nat /\ r.to \in Nat
                                        /\ r.from <= r.to
      <3>1. ASSUME NEW r \in Computed PROVE r.user # u
        <4>1. JobOf(r) \in Pending /\ JobOf(r).user = r.user
          BY DEF Pending, Early, JobOf
        <4> QED BY <1>1, <4>1 DEF Fresh
      <3> QED BY <3>1, RowsType DEF Rows, RowsOf, LedgerInv, RowsOnDays, OnItsDay, Summary, Time
    <2>6. \A r \in RowsOf(u) : r.to <= t
      <3>1. CASE run[Cron].last[u] = {}
        BY <1>1, <3>1 DEF Fresh, LedgerInv, HaveLatest
      <3>2. CASE run[Cron].last[u] # {}
        BY <1>1, <3>2 DEF Fresh, Latest
      <3> QED BY <3>1, <3>2
    <2> HIDE DEF start, jobs
    <2>7. \A i \in DOMAIN jobs : Repeats(jobs[i])
      <3> SUFFICES ASSUME NEW i \in DOMAIN jobs,
                          NEW r \in Rows, r.user = u, Day(r.from) = jobs[i].day
                   PROVE  r.from = StartOf(Day(r.from)) /\ r.from \in beats[u]
        BY <2>3 DEF Repeats
      <3>1. r.from \in Nat /\ r.to \in Nat /\ r.from <= r.to /\ r.to <= t /\ t \in Nat
        BY <2>1, <2>5, <2>6 DEF Time
      <3>2. NextDay(t) <= Day(r.from)
        BY <2>3
      <3>3. r.from <= t
        BY <3>1
      <3>4. r.from = t /\ r.from = StartOf(Day(r.from))
        BY <3>1, <3>2, <3>3, AskedAgain
      <3>5. r.to = r.from
        BY <3>1, <3>4
      <3> QED BY <3>4, <3>5 DEF CountedInv, HoldsItsDay
    <2>8. Line' = Line \o jobs
      <3>1. \A p, q, x \in Seq(Job) : p \o (q \o x) = (p \o q) \o x
        OBVIOUS
      <3>2. queue \o (run[Cron].pipe \o jobs) = (queue \o run[Cron].pipe) \o jobs
        BY <1>0, <2>2, <3>1
      <3>3. Line' = queue \o (run[Cron].pipe \o jobs)
        BY <1>1, <2>4 DEF Line
      <3> QED BY <3>2, <3>3 DEF Line
    <2>9. \A i \in DOMAIN line : Repeats(line[i]) /\ line[i].user # u
      BY <1>1 DEF CountedInv, Fresh, Pending
    <2>10. \A i, k \in DOMAIN line : line[i] = line[k] => i = k
      BY DEF CountedInv
    <2>11. line \in Seq(Job) /\ Len(line) \in Nat
      BY <1>0
    <2>12. Line' = line \o jobs
      BY <2>8
    <2> HIDE DEF line
    <2>13. \A i \in DOMAIN (line \o jobs) :
              /\ i \in Nat
              /\ \/ i \in DOMAIN line /\ (line \o jobs)[i] = line[i]
                 \/ \E k \in DOMAIN jobs : i = Len(line) + k /\ (line \o jobs)[i] = jobs[k]
      BY <2>2, <2>11, ConcatElements
    <2>14. \A i \in DOMAIN (line \o jobs) : Repeats((line \o jobs)[i])
      BY <2>7, <2>9, <2>13
    <2>15. \A i, k \in DOMAIN (line \o jobs) : (line \o jobs)[i] = (line \o jobs)[k] => i = k
      BY <2>3, <2>9, <2>10, <2>13
    <2>16. \A job : Repeats(job)' <=> Repeats(job)
      BY <1>1, <1>2 DEF Repeats, Day, StartOf
    <2>17. \A i \in DOMAIN Line' : Repeats(Line[i])'
      BY <2>12, <2>14, <2>16
    <2> QED BY <1>1, <1>2, <2>12, <2>15, <2>17
            DEF CountedInv, HoldsItsDay, Window, Day, StartOf
  <1>5. \/ start = {} /\ run' = [run EXCEPT ![Cron].todo = @ \ {u}]
        \/ \E t \in start : run' = [run EXCEPT ![Cron].todo = @ \ {u},
                                               ![Cron].pipe = @ \o UserJobs(u, t, today)]
    BY <1>1 DEF EmitUser
  <1> QED BY <1>3, <1>4, <1>5

\* Summarize: where the day's first second has a heartbeat, the summary begins there; one
\* that ends at that second ends at a heartbeat.
LEMMA SummaryRepeats ==
  ASSUME NEW u \in Users, NEW d \in Nat, NEW B \in SUBSET Time, B \subseteq Window(d),
         NEW s \in Summarize(u, d, B)
  PROVE  /\ StartOf(d) \in B => s.from = StartOf(d)
         /\ s.to = StartOf(d) => s.to \in B
  <1>1. /\ StartOf(d) \in Nat /\ StartOf(d + 1) \in Nat /\ StartOf(d) < StartOf(d + 1)
        /\ \A b \in B : b \in Nat /\ StartOf(d) <= b
    <2>1. d \in Nat /\ d + 1 \in Nat
      OBVIOUS
    <2>2. StartOf(d) \in Nat /\ StartOf(d + 1) \in Nat
      BY <2>1, StartOfNat
    <2>3. StartOf(d) < StartOf(d + 1)
      BY ConstantsAssumption DEF StartOf
    <2> QED BY <2>2, <2>3 DEF Window, Time
  <1>2. CASE B = {}
    BY <1>1, <1>2 DEF Summarize
  <1>3. CASE B # {}
    <2>1. s.from \in Earliest(B) /\ s.to \in Latest(Starts(B))
      BY <1>3 DEF Summarize
    <2>2. s.from \in B /\ (\A c \in B : s.from <= c) /\ s.to \in B
      BY <2>1 DEF Earliest, Latest, Starts
    <2> QED BY <1>1, <2>2
  <1> QED BY <1>2, <1>3

\* The worker's summary of a day that has rows begins where they do.
LEMMA ProcessCounted ==
  ASSUME Undisturbed, IInv, LedgerInv, CountedInv, NEW w \in Workers, Process(w)
  PROVE  CountedInv'
  <1> DEFINE job == Head(queue)
             B == beats[job.user] \intersect Window(job.day)
  <1>0. /\ queue \in Seq(Job) /\ run[Cron].pipe \in Seq(Job) /\ Line \in Seq(Job)
        /\ work \in [Workers -> SUBSET Summary]
        /\ beats \in [Users -> SUBSET Time]
    BY LineType DEF IInv, TypeOK
  <1>1. /\ work[w] = {} /\ queue # <<>> /\ queue' = Tail(queue) /\ job.user # NoUser
        /\ UNCHANGED <<beats, sums, run, clearing>>
    BY DEF Process, db
  <1>2. ~ faults < MaxFaults
    BY DEF Undisturbed, IInv, TypeOK
  <1>3. PICK s \in Summarize(job.user, job.day, B) : work' = [work EXCEPT ![w] = {s}]
    BY <1>2 DEF Process
  <1>4. job \in Job /\ job.user \in Users /\ job.day \in Nat
    <2>1. job \in Job
      BY <1>0, <1>1
    <2> HIDE DEF job
    <2> QED BY <1>1, <2>1 DEF Job
  <1>5. Rows = sums /\ Rows' = sums \union {s}
    <2>1. Computed = {} /\ Computed' = {s}
      BY <1>0, <1>1, <1>3, OneWorker, OneWorkerNext
    <2> QED BY <1>1, <2>1 DEF Rows
  <1>6. /\ Line # <<>> /\ Line' = Tail(Line) /\ Line[1] = job /\ 1 \in DOMAIN Line
    <2>1. \A p, q \in Seq(Job) : p # <<>> =>
             /\ p \o q # <<>> /\ Tail(p) \o q = Tail(p \o q)
             /\ (p \o q)[1] = Head(p) /\ 1 \in DOMAIN (p \o q)
      OBVIOUS
    <2> QED BY <1>0, <1>1, <2>1 DEF Line
  <1>7. Repeats(job)
    BY <1>6 DEF CountedInv
  <1> HIDE DEF job
  <1>8. B \in SUBSET Time /\ B \subseteq Window(job.day) /\ B \subseteq beats[job.user]
    BY <1>0, <1>4
  <1>9. /\ s \in Summary /\ s.user = job.user /\ Day(s.from) = job.day
        /\ s.covers \subseteq Window(job.day)
        /\ StartOf(job.day) \in B => s.from = StartOf(job.day)
        /\ s.to = StartOf(job.day) => s.to \in B
    <2> HIDE DEF B
    <2>1. s \in Summary /\ JobOf(s) = [user |-> job.user, day |-> job.day]
      BY <1>3, <1>4, <1>8, SummaryOfDay
    <2>2. s.covers \subseteq Window(job.day)
      BY <1>3, <1>4, <1>8, SummarizeWithin
    <2>3. /\ StartOf(job.day) \in B => s.from = StartOf(job.day)
          /\ s.to = StartOf(job.day) => s.to \in B
      BY <1>3, <1>4, <1>8, SummaryRepeats
    <2> QED BY <2>1, <2>2, <2>3 DEF JobOf
  <1>10. HoldsItsDay(s)
    BY <1>8, <1>9 DEF HoldsItsDay
  <1>11. \A r \in sums : r.user = s.user /\ Day(r.from) = Day(s.from) => r.from = s.from
    <2> SUFFICES ASSUME NEW r \in sums, r.user = s.user, Day(r.from) = Day(s.from)
                 PROVE  r.from = s.from
      OBVIOUS
    <2>1. r.from = StartOf(job.day) /\ r.from \in beats[job.user]
      BY <1>5, <1>7, <1>9 DEF Repeats
    <2>2. StartOf(job.day) \in Window(job.day)
      <3>1. StartOf(job.day) \in Nat /\ StartOf(job.day) < StartOf(job.day + 1)
        BY <1>4, StartOfNat, ConstantsAssumption DEF StartOf
      <3> QED BY <3>1 DEF Window, Time
    <2> QED BY <1>9, <2>1, <2>2
  <1> DEFINE line == Line
  <1>12. line \in Seq(Job) /\ line # <<>>
    BY <1>0, <1>6
  <1>13. /\ \A i \in DOMAIN line : Repeats(line[i])
         /\ \A i, k \in DOMAIN line : line[i] = line[k] => i = k
         /\ line[1] = job /\ 1 \in DOMAIN line /\ Line' = Tail(line)
    BY <1>6 DEF CountedInv
  <1> HIDE DEF line
  <1>14. \A i \in DOMAIN Tail(line) : /\ i \in Nat \ {0} /\ i + 1 \in DOMAIN line
                                      /\ Tail(line)[i] = line[i + 1]
    BY <1>12
  <1>15. \A i \in DOMAIN Tail(line) : ~ (Tail(line)[i].user = job.user /\ Tail(line)[i].day = job.day)
    <2> SUFFICES ASSUME NEW i \in DOMAIN Tail(line), line[i + 1].user = job.user,
                        line[i + 1].day = job.day
                 PROVE  FALSE
      BY <1>14
    <2>1. i + 1 \in DOMAIN line /\ i + 1 # 1
      BY <1>14
    <2>2. line[i + 1] \in Job
      BY <1>12, <2>1
    <2>3. line[i + 1] = line[1]
      BY <1>4, <1>13, <2>2 DEF Job
    <2> QED BY <1>13, <2>1, <2>3
  <1>16. \A i \in DOMAIN Line' : Repeats(Line[i])'
    <2> SUFFICES ASSUME NEW i \in DOMAIN Tail(line) PROVE Repeats(Line[i])'
      BY <1>13
    <2>1. Repeats(Tail(line)[i])
      BY <1>13, <1>14
    <2>2. \A r \in Rows' : r.user = Tail(line)[i].user /\ Day(r.from) = Tail(line)[i].day =>
                              r.from = StartOf(Tail(line)[i].day) /\ r.from \in beats[r.user]
      BY <1>5, <1>9, <1>15, <2>1 DEF Repeats
    <2> QED BY <1>1, <1>13, <2>2 DEF Repeats, Day, StartOf
  <1>17. \A i, k \in DOMAIN Line' : Line'[i] = Line'[k] => i = k
    BY <1>13, <1>14
  <1>18. \A r \in Rows' : HoldsItsDay(r)'
    BY <1>1, <1>5, <1>10 DEF CountedInv, HoldsItsDay, Window, Day, StartOf
  <1>19. \A r, q \in Rows' : r.user = q.user /\ Day(r.from) = Day(q.from) => r.from = q.from
    BY <1>5, <1>11 DEF CountedInv
  <1> QED BY <1>1, <1>16, <1>17, <1>18, <1>19 DEF CountedInv, Day

\* Every step keeps the invariant.
LEMMA CountedNext ==
  ASSUME Undisturbed, IInv, LedgerInv, CountedInv, [Next]_vars
  PROVE  CountedInv'
  <1>0. /\ clicks \in Nat /\ faults \in Nat /\ ~ clicks < MaxClicks
        /\ Runs = {Cron} /\ Regens = {} /\ clearing = {} /\ Cron \in Runs
        /\ run \in [Runs -> RunState] /\ run[Cron] \in RunState
        /\ beats \in [Users -> SUBSET Time] /\ queue \in Seq(Job) /\ run[Cron].pipe \in Seq(Job)
    BY LineType DEF Undisturbed, IInv, TypeOK, Runs, CountedInv
  <1>1. ASSUME UNCHANGED <<sums, work, queue, clearing>>, run'[Cron].pipe = run[Cron].pipe,
               \A u \in Users : beats[u] \subseteq beats'[u]
        PROVE  CountedInv'
    <2>1. Line' = Line /\ Rows' = Rows
      BY <1>1 DEF Line, Rows, Computed
    <2> QED BY <1>0, <1>1, <2>1, QuietCounted
  <1>2. ASSUME Restart, UNCHANGED <<sums, beats>>
        PROVE  CountedInv'
    <2>1. Line' = <<>> /\ Rows' = sums /\ clearing' = {}
      BY <1>0, <1>2 DEF Restart, Line, Rows, Computed, IdleRun
    <2> QED BY <1>2, <2>1, QuietCounted DEF Rows
  <1>3. CASE UNCHANGED vars
    BY <1>1, <1>3 DEF vars, db, mem
  <1>4. CASE Midnight
    BY <1>1, <1>4 DEF Midnight, db, mem
  <1>5. CASE CronFires
    <2>1. run'[Cron].pipe = run[Cron].pipe
      BY <1>0, <1>5 DEF CronFires, RunState
    <2> QED BY <1>1, <1>5, <2>1 DEF CronFires, db
  <1>6. CASE Crash
    BY <1>2, <1>6 DEF Crash, db
  <1>7. ASSUME NEW u \in Users, PostHeartbeat(u) PROVE CountedInv'
    BY <1>0, <1>1, <1>7 DEF PostHeartbeat, mem
  <1>8. CASE \E u \in Users : DeleteUser(u) \/ ClearData(u) \/ ClearHeartbeats(u)
    BY <1>0, <1>8 DEF DeleteUser, ClearData, ClearHeartbeats, Undisturbed
  <1>9. CASE RunStep(Cron)
    <2>1. run[Cron].pc \in {"idle", "lock", "readLast", "readFirst", "readUsers", "emit"}
          /\ run[Cron].target = {}
      BY DEF LedgerInv, RunFresh
    <2>2. ~ LockRefused(Cron) /\ ~ Latch(Cron) /\ ~ Unlatch(Cron) /\ ~ ClearSummaries(Cron)
      BY <2>1 DEF LockRefused, Latch, Unlatch, ClearSummaries, At
    <2>3. CASE Lock(Cron) \/ ReadLast(Cron) \/ ReadFirst(Cron) \/ ReadUsers(Cron) \/ Return(Cron)
      <3>1. run'[Cron].pipe = run[Cron].pipe
        <4>1. CASE Lock(Cron)
          BY <1>0, <4>1 DEF Lock, RunState
        <4>2. CASE ReadLast(Cron)
          <5> DEFINE last == [u \in Users |-> Latest({s.to : s \in RowsOf(u)})]
          <5>1. \/ run' = [run EXCEPT ![Cron].pc = "readFirst", ![Cron].last = last,
                                      ![Cron].todo = users]
                \/ run' = [run EXCEPT ![Cron].pc = "readFirst", ![Cron].todo = {}]
            BY <4>2 DEF ReadLast
          <5> HIDE DEF last
          <5> QED BY <1>0, <5>1 DEF RunState
        <4>3. CASE ReadFirst(Cron)
          BY <1>0, <4>3 DEF ReadFirst, RunState
        <4>4. CASE ReadUsers(Cron)
          BY <1>0, <4>4 DEF ReadUsers, RunState
        <4>5. CASE Return(Cron)
          BY <1>0, <4>5 DEF Return, IdleRun
        <4> QED BY <2>3, <4>1, <4>2, <4>3, <4>4, <4>5
      <3> QED BY <1>1, <2>3, <3>1 DEF Lock, ReadLast, ReadFirst, ReadUsers, Return, db
    <2>4. CASE Forward(Cron)
      <3>1. /\ run'[Cron].pipe = Tail(run[Cron].pipe) /\ run[Cron].pipe # <<>>
            /\ queue' = Append(queue, Head(run[Cron].pipe))
            /\ UNCHANGED <<sums, work, beats, clearing>>
        BY <1>0, <2>4 DEF Forward, RunState, db
      <3>2. \A q, p \in Seq(Job) : p # <<>> => Append(q, Head(p)) \o Tail(p) = q \o p
        OBVIOUS
      <3>3. Line' = Line
        BY <1>0, <3>1, <3>2 DEF Line
      <3>4. Rows' = Rows
        BY <3>1 DEF Rows, Computed
      <3> QED BY <1>0, <3>1, <3>3, <3>4, QuietCounted
    <2> QED BY <1>9, <2>2, <2>3, <2>4, EmitCounted DEF RunStep
  <1>10. ASSUME NEW w \in Workers, WorkStep(w) PROVE CountedInv'
    <2>1. CASE Panic(w)
      BY <1>2, <2>1 DEF Panic, db
    <2>2. CASE InsertSummary(w)
      <3>1. Rows' \subseteq Rows /\ Line' = Line
        BY <2>2, InsertedDay DEF Rows, Line
      <3> QED BY <1>0, <2>2, <3>1, QuietCounted DEF InsertSummary
    <2> QED BY <1>10, <2>1, <2>2, ProcessCounted DEF WorkStep
  <1> QED BY <1>0, <1>3, <1>4, <1>5, <1>6, <1>7, <1>8, <1>9, <1>10 DEF Next

\* Rows that begin at different times are of different days, whose heartbeats differ.
LEMMA CountedOnce == ASSUME IInv, CountedInv PROVE NoDoubleCount
  <1> SUFFICES ASSUME NEW u \in Users, NEW r \in RowsOf(u), NEW s \in RowsOf(u),
                      r.from # s.from, NEW t \in r.covers \intersect s.covers
               PROVE  FALSE
    BY DEF NoDoubleCount
  <1>1. r \in Rows /\ s \in Rows /\ r.user = s.user /\ r.from \in Int /\ s.from \in Int
    BY DEF RowsOf, Rows, IInv, TypeOK, Summary, Time
  <1>2. t \in Window(Day(r.from)) /\ t \in Window(Day(s.from))
    BY <1>1 DEF CountedInv, HoldsItsDay
  <1>3. Day(r.from) \in Int /\ Day(s.from) \in Int
    BY <1>1, DayBounds
  <1>4. \A d \in Int : t \in Window(d) => Day(t) = d
    BY DayOfTime DEF Window, Time
  <1>5. Day(r.from) = Day(s.from)
    BY <1>2, <1>3, <1>4
  <1> QED BY <1>1, <1>5 DEF CountedInv

\* With nothing but crashes to disturb the cron job, mergeSummaries counts no heartbeat
\* twice: rows of a user that begin at different times share none, however late heartbeats
\* come and whichever day is summarised a second time.
THEOREM NoHeartbeatTwice == ASSUME Undisturbed PROVE Spec => []NoDoubleCount
  <1>1. Init => IInv /\ LedgerInv /\ CountedInv
    <2>1. Init => Rows = {} /\ Line = <<>> /\ clearing = {}
      BY DEF Init, Rows, Computed, Line, Runs, IdleRun
    <2> QED BY <2>1, InitInv, LedgerInit DEF CountedInv
  <1>2. IInv /\ LedgerInv /\ CountedInv /\ [Next]_vars => IInv' /\ LedgerInv' /\ CountedInv'
    BY NextInv, LedgerNext, CountedNext
  <1>3. IInv /\ CountedInv => NoDoubleCount
    BY CountedOnce
  <1> QED BY <1>1, <1>2, <1>3, PTL DEF Spec
=============================================================================
