---------------------------- MODULE ServerProofs ----------------------------
(***************************************************************************)
(* Proofs about Server: about Jobs, for any number of users and of runs of *)
(* the hourly jobs, any capacity of the queues and any number of CPUs; and *)
(* that the theorems about a part hold of the parts together.              *)
(***************************************************************************)
EXTENDS Server, FiniteSetTheorems, TLAPS

HourlyJobs == {"CountTotalTime", "ComputeOldestHeartbeats"}
Dispatched == [what : HourlyJobs \union {"countUserTotalTime", "first data"}, run : Run,
               user : Users \union {NoUser}]
Working    == [what : HourlyJobs \union {"countUserTotalTime", "first data"}, run : Run,
               user : Users \union {NoUser}, pc : {"start", "dispatch", "unlock", "done"},
               left : SUBSET Users]

VarTypes ==
    /\ channel \in [Queues -> Seq(Dispatched)]
    /\ running \in [Queues -> SUBSET Working]
    /\ countLock \in Nat /\ firstDataLock \in Run \union {0}
    /\ pending \in [Run -> Nat]
    /\ total \in [Run -> SUBSET Users] /\ failed \in [Run -> SUBSET Users]
    /\ persist \in [Run -> {"none", "wait", "done", "late"}]
    /\ stored \in [total : SUBSET Users, of : Nat]
    /\ broken \in BOOLEAN /\ runs \in 0 .. MaxRuns

\* Each queue has one worker: the services ask for their queues before StartJobs does.
OneWorker == \A q \in Queues : running[q] = {} \/ \E j \in Working : running[q] = {j}

Bounded == \A q \in Queues : Len(channel[q]) <= Capacity

\* The queue of the hourly jobs: runs follow one another, each at most once.
DefaultQueue ==
    /\ \A i \in DOMAIN channel["default"] :
          /\ channel["default"][i].what \in HourlyJobs
          /\ channel["default"][i].run <= runs
    /\ \A i, k \in DOMAIN channel["default"] :
          channel["default"][i].run = channel["default"][k].run => i = k
    /\ \A j \in running["default"] :
          /\ j.what \in HourlyJobs /\ j.run <= runs
          /\ j.pc \in {"start", "dispatch", "unlock"}
          /\ j.what = "ComputeOldestHeartbeats" => j.pc = "start"
          /\ j.pc = "start" => j.left = Users
          /\ \A i \in DOMAIN channel["default"] : channel["default"][i].run # j.run

\* The lock belongs to the one run that is past the start, if there is one.
LockHeld ==
    /\ ~ broken
    /\ \A j \in running["default"] : j.pc \in {"dispatch", "unlock"} => countLock = j.run
    /\ countLock # 0 => \E j \in running["default"] : j.pc \in {"dispatch", "unlock"}

\* Where a user's count is, in a run that counts them: not yet dispatched, queued or with a worker.
Left(r, u)    == \E j \in running["default"] : j.pc = "dispatch" /\ j.run = r /\ u \in j.left
IsCount(j, r, u) == j.what = "countUserTotalTime" /\ j.run = r /\ j.user = u
Queued(r, u)  == \E i \in DOMAIN channel["processing"] : IsCount(channel["processing"][i], r, u)
InHand(r, u) == \E j \in running["processing"] : IsCount(j, r, u)
Waited(r)     == {u \in Users : Left(r, u) \/ Queued(r, u) \/ InHand(r, u)}

\* A run whose job has not begun.
Unstarted(r) ==
    \/ r > runs
    \/ \E i \in DOMAIN channel["default"] : channel["default"][i].run = r
    \/ \E j \in running["default"] : j.run = r /\ j.pc = "start"

NothingBefore ==
    \A r \in Run : Unstarted(r) =>
        persist[r] = "none" /\ pending[r] = 0 /\ \A u \in Users : ~ Queued(r, u) /\ ~ InHand(r, u)

\* A count is in one place only, and is there once.
OnePlace ==
    /\ \A r \in Run, u \in Users :
          /\ Left(r, u) => ~ Queued(r, u) /\ ~ InHand(r, u)
          /\ Queued(r, u) => ~ InHand(r, u)
    /\ \A i, k \in DOMAIN channel["processing"] : \A r \in Run, u \in Users :
          IsCount(channel["processing"][i], r, u) /\ IsCount(channel["processing"][k], r, u) => i = k

ProcessingQueue ==
    /\ \A i \in DOMAIN channel["processing"] :
          LET j == channel["processing"][i]
          IN  \/ j.what = "countUserTotalTime" /\ j.user \in Users
              \/ j.what = "first data"
    /\ \A j \in running["processing"] :
          \/ j.what = "countUserTotalTime" /\ j.user \in Users /\ j.pc \in {"start", "done"}
          \/ j.what = "first data" /\ j.pc \in {"start", "unlock"}

Dispatching(r) == \E j \in running["default"] : j.pc = "dispatch" /\ j.run = r

\* The wait group counts what is still to come, and who is not waited for has been counted,
\* or the count of his time failed.
TimesCounted ==
    /\ \A r \in Run : pending[r] = Cardinality(Waited(r))
    /\ \A j \in running["processing"] :
          j.what = "countUserTotalTime" /\ j.pc = "done" => j.user \in total[j.run] \union failed[j.run]
    /\ \A r \in Run :
          persist[r] # "none" \/ Dispatching(r) =>
              Users \subseteq Waited(r) \union total[r] \union failed[r]

StoredWhole == stored.of # 0 => stored.of \in Run /\ Users \subseteq stored.total \union failed[stored.of]

IInv == /\ VarTypes /\ OneWorker /\ Bounded /\ DefaultQueue /\ LockHeld /\ NothingBefore
        /\ OnePlace /\ ProcessingQueue /\ TimesCounted /\ StoredWhole

----------------------------------------------------------------------------
(***************************************************************************)
(* The queues and their workers.                                           *)
(***************************************************************************)
LEMMA OneWorkerEach == Workers = [q \in Queues |-> 1]
  <1>1. GetQueue([q \in {} |-> 0], "default") = [q \in {"default"} |-> 1]
    BY DEF GetQueue, InitQueue
  <1>2. GetQueue([q \in {"default"} |-> 1], "processing") = [q \in Queues |-> 1]
    BY DEF GetQueue, InitQueue, Queues
  <1>3. \A name \in Queues : \A n : InitQueue([q \in Queues |-> 1], name, n) = [q \in Queues |-> 1]
    BY DEF InitQueue, Queues
  <1> QED BY <1>1, <1>2, <1>3 DEF Workers, StartJobs, Queues

LEMMA SendFacts ==
  ASSUME VarTypes, NEW q \in Queues, NEW task \in Dispatched, Send(q, task)
  PROVE  LET s == channel[q]
             t == channel'[q]
         IN  /\ channel' \in [Queues -> Seq(Dispatched)]
             /\ \A p \in Queues : p # q => channel'[p] = channel[p]
             /\ Len(s) < Capacity /\ Len(t) = Len(s) + 1 /\ Len(s) \in Nat
             /\ \A i \in DOMAIN t : \/ i \in DOMAIN s /\ t[i] = s[i]
                                    \/ i = Len(s) + 1 /\ t[i] = task
             /\ \A i \in DOMAIN s : i \in DOMAIN t /\ t[i] = s[i]
             /\ Len(s) + 1 \in DOMAIN t /\ t[Len(s) + 1] = task /\ Len(s) + 1 \notin DOMAIN s
  <1> DEFINE s == channel[q]
             t == channel'[q]
  <1>1. s \in Seq(Dispatched) /\ t = Append(s, task)
    BY DEF VarTypes, Send
  <1>2. channel' \in [Queues -> Seq(Dispatched)] /\ \A p \in Queues : p # q => channel'[p] = channel[p]
    BY <1>1 DEF VarTypes, Send
  <1>3. Len(s) < Capacity
    BY DEF Send, Room
  <1> HIDE DEF s, t
  <1>4. /\ Len(t) = Len(s) + 1 /\ Len(s) \in Nat
        /\ \A i \in DOMAIN t : \/ i \in DOMAIN s /\ t[i] = s[i]
                               \/ i = Len(s) + 1 /\ t[i] = task
        /\ \A i \in DOMAIN s : i \in DOMAIN t /\ t[i] = s[i]
        /\ Len(s) + 1 \in DOMAIN t /\ t[Len(s) + 1] = task /\ Len(s) + 1 \notin DOMAIN s
    BY <1>1
  <1> QED BY <1>2, <1>3, <1>4 DEF s, t

LEMMA TakeFacts ==
  ASSUME VarTypes, OneWorker, NEW q \in Queues, Take(q)
  PROVE  LET s == channel[q]
             t == channel'[q]
             j == s[1]
         IN  /\ channel' \in [Queues -> Seq(Dispatched)]
             /\ \A p \in Queues : p # q => channel'[p] = channel[p] /\ running'[p] = running[p]
             /\ 1 \in DOMAIN s /\ j \in Dispatched /\ Len(t) = Len(s) - 1 /\ Len(s) \in Nat
             /\ \A i \in DOMAIN t : i \in Nat /\ i # 0 /\ i + 1 \in DOMAIN s /\ t[i] = s[i + 1]
             /\ \A i \in DOMAIN s : i # 1 => \E k \in DOMAIN t : i = k + 1 /\ t[k] = s[i]
             /\ running[q] = {}
             /\ running'[q] = {[what |-> j.what, run |-> j.run, user |-> j.user, pc |-> "start", left |-> Users]}
  <1> DEFINE s == channel[q]
             t == channel'[q]
             j == s[1]
             new == [what |-> j.what, run |-> j.run, user |-> j.user, pc |-> "start", left |-> Users]
  <1>1. s \in Seq(Dispatched) /\ s # <<>> /\ t = Tail(s)
    BY DEF VarTypes, Take
  <1>2. channel' \in [Queues -> Seq(Dispatched)]
        /\ \A p \in Queues : p # q => channel'[p] = channel[p] /\ running'[p] = running[p]
    <2>1. Tail(s) \in Seq(Dispatched)
      BY <1>1
    <2> QED BY <2>1 DEF VarTypes, Take
  <1>3. running[q] = {}
    <2>1. Cardinality(running[q]) < 1
      BY OneWorkerEach DEF Take
    <2>2. ASSUME NEW k \in Working, running[q] = {k} PROVE FALSE
      <3>1. Cardinality({k}) = 1
        BY FS_Singleton
      <3> QED BY <2>1, <2>2, <3>1
    <2> QED BY <2>2 DEF OneWorker
  <1>4. running'[q] = {new}
    <2>1. running'[q] = running[q] \union {new}
      BY <1>1 DEF Take, VarTypes
    <2> QED BY <1>3, <2>1
  <1> HIDE DEF s, t, new
  <1>5. /\ 1 \in DOMAIN s /\ j \in Dispatched /\ Len(t) = Len(s) - 1 /\ Len(s) \in Nat
        /\ \A i \in DOMAIN t : i \in Nat /\ i # 0 /\ i + 1 \in DOMAIN s /\ t[i] = s[i + 1]
    BY <1>1
  <1>6. ASSUME NEW i \in DOMAIN s, i # 1 PROVE \E k \in DOMAIN t : i = k + 1 /\ t[k] = s[i]
    <2>1. i - 1 \in DOMAIN t /\ i = (i - 1) + 1
      BY <1>1, <1>5, <1>6
    <2> QED BY <1>5, <2>1
  <1> QED BY <1>2, <1>3, <1>4, <1>5, <1>6 DEF s, t, new

\* A worker goes on with its job, or is done with it.
LEMMA WorkerFacts ==
  ASSUME VarTypes, OneWorker, NEW q \in Queues, NEW j \in running[q]
  PROVE  /\ j \in Working /\ running[q] = {j}
         /\ \A k : Becomes(q, j, k) => /\ running'[q] = {k}
                                       /\ \A p \in Queues : p # q => running'[p] = running[p]
                                       /\ k \in Working => running' \in [Queues -> SUBSET Working]
         /\ Ends(q, j) => /\ running'[q] = {}
                          /\ \A p \in Queues : p # q => running'[p] = running[p]
                          /\ running' \in [Queues -> SUBSET Working]
  <1>1. j \in Working /\ running[q] = {j}
    BY DEF VarTypes, OneWorker
  <1>2. ASSUME NEW k, Becomes(q, j, k)
        PROVE  /\ running'[q] = {k} /\ \A p \in Queues : p # q => running'[p] = running[p]
               /\ k \in Working => running' \in [Queues -> SUBSET Working]
    BY <1>1, <1>2 DEF Becomes, VarTypes
  <1>3. ASSUME Ends(q, j)
        PROVE  /\ running'[q] = {} /\ \A p \in Queues : p # q => running'[p] = running[p]
               /\ running' \in [Queues -> SUBSET Working]
    BY <1>1, <1>3 DEF Ends, VarTypes
  <1> QED BY <1>1, <1>2, <1>3

LEMMA ToWorking ==
  ASSUME NEW j \in Working, NEW pc \in {"start", "dispatch", "unlock", "done"}
  PROVE  /\ To(j, pc) \in Working /\ To(j, pc).what = j.what /\ To(j, pc).run = j.run
         /\ To(j, pc).user = j.user /\ To(j, pc).left = j.left /\ To(j, pc).pc = pc
  BY DEF To, Working

LEMMA QueuesAre == "default" \in Queues /\ "processing" \in Queues /\ \A q \in Queues : q = "default" \/ q = "processing"
  BY DEF Queues

----------------------------------------------------------------------------
(***************************************************************************)
(* The invariant, step by step.                                            *)
(***************************************************************************)
LEMMA RunsAre ==
  /\ \A r \in Run : r \in Nat /\ r # 0
  /\ \A j \in Dispatched : j.run \in Run /\ j.run \in Nat /\ j.run # 0
  /\ \A j \in Working : j.run \in Run /\ j.run \in Nat /\ j.run # 0
  <1>1. \A r \in Run : r \in Nat /\ r # 0
    BY SizesAssumption DEF Run
  <1>2. \A j \in Dispatched : j.run \in Run
    BY DEF Dispatched
  <1>3. \A j \in Working : j.run \in Run
    BY DEF Working
  <1> QED BY <1>1, <1>2, <1>3

LEMMA InitInv == ASSUME Init PROVE IInv
  <1>1. VarTypes
    <2>1. channel \in [Queues -> Seq(Dispatched)] /\ running \in [Queues -> SUBSET Working]
      BY DEF Init
    <2>2. stored \in [total : SUBSET Users, of : Nat]
      BY DEF Init
    <2>3. /\ pending \in [Run -> Nat] /\ total \in [Run -> SUBSET Users] /\ failed \in [Run -> SUBSET Users]
          /\ persist \in [Run -> {"none", "wait", "done", "late"}]
      BY DEF Init
    <2>4. countLock \in Nat /\ firstDataLock \in Run \union {0} /\ broken \in BOOLEAN /\ runs \in 0 .. MaxRuns
      <3>1. countLock = 0 /\ firstDataLock = 0 /\ broken = FALSE /\ runs = 0
        BY DEF Init
      <3>2. broken \in BOOLEAN
        BY <3>1
      <3>3. countLock \in Nat /\ firstDataLock \in Run \union {0} /\ runs \in 0 .. MaxRuns
        BY <3>1, SizesAssumption
      <3> QED BY <3>2, <3>3
    <2> QED BY <2>1, <2>2, <2>3, <2>4 DEF VarTypes
  <1>2. /\ channel["default"] = <<>> /\ channel["processing"] = <<>>
        /\ running["default"] = {} /\ running["processing"] = {}
    BY DEF Init, Queues
  <1>3. \A r : Waited(r) = {}
    BY <1>2 DEF Waited, Left, Queued, InHand
  <1>4. TimesCounted
    BY <1>2, <1>3, FS_EmptySet DEF TimesCounted, Init, Dispatching
  <1>5. NothingBefore /\ OnePlace
    <2>1. \A r, u : ~ Left(r, u) /\ ~ Queued(r, u) /\ ~ InHand(r, u)
      BY <1>2 DEF Queued, InHand, Left
    <2>2. \A r \in Run : persist[r] = "none" /\ pending[r] = 0
      BY DEF Init
    <2>3. NothingBefore
      BY <2>1, <2>2 DEF NothingBefore
    <2>4. OnePlace
      BY <1>2, <2>1 DEF OnePlace
    <2> QED BY <2>3, <2>4
  <1>6. OneWorker /\ LockHeld /\ StoredWhole
    BY <1>2, QueuesAre DEF Init, OneWorker, LockHeld, StoredWhole
  <1>7. Bounded
    BY <1>2, QueuesAre, SizesAssumption DEF Bounded
  <1>8. DefaultQueue /\ ProcessingQueue
    BY <1>2 DEF DefaultQueue, ProcessingQueue
  <1> QED BY <1>1, <1>4, <1>5, <1>6, <1>7, <1>8 DEF IInv

\* The next run is dispatched.
LEMMA TickInv == ASSUME IInv, Tick PROVE IInv'
  <1> DEFINE s == channel["default"]
  <1>0. VarTypes /\ runs \in Nat /\ runs + 1 \in Run /\ runs' = runs + 1 /\ runs < MaxRuns
    BY SizesAssumption DEF IInv, VarTypes, Tick, Run
  <1>1. PICK what \in HourlyJobs : Send("default", Job(what, runs + 1, NoUser))
    BY DEF Tick, HourlyJobs
  <1>2. /\ Job(what, runs + 1, NoUser) \in Dispatched
        /\ Job(what, runs + 1, NoUser).what = what /\ Job(what, runs + 1, NoUser).run = runs + 1
    BY <1>0 DEF Job, Dispatched
  <1>3. UNCHANGED <<running, countLock, firstDataLock, pending, total, failed, persist, stored, first, broken>>
    BY DEF Tick
  <1>4. /\ channel' \in [Queues -> Seq(Dispatched)] /\ channel'["processing"] = channel["processing"]
        /\ Len(s) < Capacity /\ Len(channel'["default"]) = Len(s) + 1 /\ Len(s) \in Nat
        /\ \A i \in DOMAIN channel'["default"] :
              \/ i \in DOMAIN s /\ channel'["default"][i] = s[i]
              \/ i = Len(s) + 1 /\ channel'["default"][i].what = what
                                /\ channel'["default"][i].run = runs + 1
        /\ \A i \in DOMAIN s : i \in DOMAIN channel'["default"] /\ channel'["default"][i] = s[i]
    BY <1>0, <1>1, <1>2, SendFacts, QueuesAre
  <1> HIDE DEF s
  <1>5. VarTypes' /\ OneWorker'
    <2>1. runs' \in 0 .. MaxRuns
      BY <1>0, SizesAssumption
    <2> QED BY <1>0, <1>3, <1>4, <2>1 DEF IInv, VarTypes, OneWorker
  <1>6. Bounded'
    BY <1>3, <1>4, QueuesAre, SizesAssumption DEF IInv, Bounded
  <1>7. DefaultQueue'
    <2>1. /\ \A i \in DOMAIN s : s[i].what \in HourlyJobs /\ s[i].run <= runs /\ s[i].run \in Nat
          /\ \A i, k \in DOMAIN s : s[i].run = s[k].run => i = k
          /\ \A j \in running["default"] : j.run <= runs /\ j.run \in Nat
      <3>1. s \in Seq(Dispatched) /\ running["default"] \subseteq Working
        BY <1>0, QueuesAre DEF VarTypes, s
      <3>2. \A i \in DOMAIN s : s[i] \in Dispatched
        BY <3>1
      <3>3. (\A j \in Dispatched : j.run \in Nat) /\ (\A j \in Working : j.run \in Nat)
        BY RunsAre
      <3> QED BY <3>1, <3>2, <3>3 DEF IInv, DefaultQueue, s
    <2>2. ASSUME NEW i \in DOMAIN channel'["default"]
          PROVE  /\ channel'["default"][i].what \in HourlyJobs /\ channel'["default"][i].run <= runs'
                 /\ \A j \in running["default"] : channel'["default"][i].run # j.run
      <3>1. CASE i \in DOMAIN s /\ channel'["default"][i] = s[i]
        BY <1>0, <2>1, <3>1 DEF IInv, DefaultQueue, s
      <3>2. CASE channel'["default"][i].what = what /\ channel'["default"][i].run = runs + 1
        BY <1>0, <2>1, <3>2
      <3> QED BY <1>4, <3>1, <3>2
    <2>3. ASSUME NEW i \in DOMAIN channel'["default"], NEW k \in DOMAIN channel'["default"],
                 channel'["default"][i].run = channel'["default"][k].run
          PROVE  i = k
      BY <1>0, <1>4, <2>1, <2>3
    <2>4. \A j \in running["default"] : j.run <= runs'
      BY <1>0, <2>1
    <2> QED BY <1>3, <2>2, <2>3, <2>4 DEF IInv, DefaultQueue
  <1>8. \A r, u : /\ Left(r, u)' <=> Left(r, u)
                  /\ Queued(r, u)' <=> Queued(r, u)
                  /\ InHand(r, u)' <=> InHand(r, u)
    BY <1>3, <1>4 DEF Left, Queued, InHand
  <1>9. \A r \in Run : Unstarted(r)' => Unstarted(r)
    <2>1. \A r \in Run : r \in Nat
      BY DEF Run
    <2> QED BY <1>0, <1>3, <1>4, <2>1 DEF Unstarted, s
  <1>10. NothingBefore'
    BY <1>3, <1>8, <1>9 DEF IInv, NothingBefore
  <1>11. \A r : Waited(r)' = Waited(r)
    BY <1>8 DEF Waited
  <1>12. OnePlace' /\ ProcessingQueue'
    BY <1>3, <1>4, <1>8 DEF IInv, OnePlace, ProcessingQueue
  <1>13. TimesCounted'
    BY <1>3, <1>11 DEF IInv, TimesCounted, Dispatching
  <1> QED BY <1>3, <1>5, <1>6, <1>7, <1>10, <1>12, <1>13 DEF IInv, LockHeld, StoredWhole

\* A worker takes an hourly job.
LEMMA TakeHourlyInv == ASSUME IInv, Take("default") PROVE IInv'
  <1> DEFINE s == channel["default"]
             t == channel'["default"]
             new == [what |-> s[1].what, run |-> s[1].run, user |-> s[1].user, pc |-> "start", left |-> Users]
  <1>0. VarTypes /\ OneWorker /\ DefaultQueue
    BY DEF IInv
  <1>1. /\ channel' \in [Queues -> Seq(Dispatched)]
        /\ channel'["processing"] = channel["processing"] /\ running'["processing"] = running["processing"]
        /\ 1 \in DOMAIN s /\ s[1] \in Dispatched /\ Len(t) = Len(s) - 1 /\ Len(s) \in Nat
        /\ \A i \in DOMAIN t : i \in Nat /\ i # 0 /\ i + 1 \in DOMAIN s /\ t[i] = s[i + 1]
        /\ running["default"] = {} /\ running'["default"] = {new}
    BY <1>0, TakeFacts, QueuesAre
  <1>2. UNCHANGED <<countLock, firstDataLock, pending, total, failed, persist, stored, first, broken, runs>>
    BY DEF Take
  <1>3. /\ new \in Working /\ new.what = s[1].what /\ new.run = s[1].run /\ new.pc = "start" /\ new.left = Users
    BY <1>1 DEF Dispatched, Working
  <1> HIDE DEF new
  <1>4. VarTypes' /\ OneWorker'
    <2>1. running' \in [Queues -> SUBSET Working]
      BY <1>0, <1>1, <1>3, QueuesAre DEF VarTypes, Take
    <2>2. OneWorker'
      <3>1. running'["processing"] = {} \/ \E j \in Working : running'["processing"] = {j}
        BY <1>0, <1>1, QueuesAre DEF OneWorker
      <3>2. running'["default"] = {new} /\ new \in Working
        BY <1>1, <1>3
      <3> HIDE DEF s, t
      <3> QED BY <3>1, <3>2, QueuesAre DEF OneWorker
    <2> QED BY <1>0, <1>1, <1>2, <2>1, <2>2 DEF VarTypes
  <1>5. Bounded'
    <2>1. Len(s) <= Capacity /\ Len(channel'["processing"]) <= Capacity
      BY <1>1, QueuesAre DEF IInv, Bounded
    <2>2. Len(t) = Len(s) - 1 /\ Len(s) \in Nat
      BY <1>1
    <2>3. Len(t) <= Capacity
      <3> HIDE DEF s, t
      <3> QED BY <2>1, <2>2, SizesAssumption
    <2> QED BY <2>1, <2>3, QueuesAre DEF Bounded
  <1>6. DefaultQueue'
    <2>1. /\ \A i \in DOMAIN s : s[i].what \in HourlyJobs /\ s[i].run <= runs
          /\ \A i, k \in DOMAIN s : s[i].run = s[k].run => i = k
      BY <1>0 DEF DefaultQueue
    <2> HIDE DEF s, t
    <2>2. \A i \in DOMAIN t : t[i].what \in HourlyJobs /\ t[i].run <= runs /\ t[i].run # s[1].run
      BY <1>1, <2>1
    <2>3. \A i, k \in DOMAIN t : t[i].run = t[k].run => i = k
      BY <1>1, <2>1
    <2> QED BY <1>1, <1>2, <1>3, <2>1, <2>2, <2>3 DEF DefaultQueue, HourlyJobs, t
  <1>7. LockHeld'
    BY <1>1, <1>2, <1>3 DEF IInv, LockHeld
  <1>8. \A r, u : /\ ~ Left(r, u) /\ ~ Left(r, u)' /\ ~ Dispatching(r)'
                  /\ Queued(r, u)' <=> Queued(r, u)
                  /\ InHand(r, u)' <=> InHand(r, u)
    BY <1>1, <1>3 DEF Left, Queued, InHand, Dispatching
  <1>9. \A r \in Run : Unstarted(r)' => Unstarted(r)
    BY <1>1, <1>2, <1>3 DEF Unstarted
  <1>10. NothingBefore'
    BY <1>2, <1>8, <1>9 DEF IInv, NothingBefore
  <1>11. \A r : Waited(r)' = Waited(r)
    BY <1>8 DEF Waited
  <1>12. OnePlace' /\ ProcessingQueue'
    BY <1>1, <1>8 DEF IInv, OnePlace, ProcessingQueue
  <1>13. TimesCounted'
    BY <1>1, <1>2, <1>8, <1>11 DEF IInv, TimesCounted
  <1> QED BY <1>2, <1>4, <1>5, <1>6, <1>7, <1>10, <1>12, <1>13 DEF IInv, StoredWhole

\* A worker takes the job of a user.
LEMMA TakeUserInv == ASSUME IInv, Take("processing") PROVE IInv'
  <1> DEFINE s == channel["processing"]
             t == channel'["processing"]
             new == [what |-> s[1].what, run |-> s[1].run, user |-> s[1].user, pc |-> "start", left |-> Users]
  <1>0. VarTypes /\ OneWorker /\ ProcessingQueue /\ OnePlace
    BY DEF IInv
  <1>1. /\ channel' \in [Queues -> Seq(Dispatched)]
        /\ channel'["default"] = channel["default"] /\ running'["default"] = running["default"]
        /\ 1 \in DOMAIN s /\ s[1] \in Dispatched /\ Len(t) = Len(s) - 1 /\ Len(s) \in Nat
        /\ \A i \in DOMAIN t : i \in Nat /\ i # 0 /\ i + 1 \in DOMAIN s /\ t[i] = s[i + 1]
        /\ \A i \in DOMAIN s : i # 1 => \E k \in DOMAIN t : i = k + 1 /\ t[k] = s[i]
        /\ running["processing"] = {} /\ running'["processing"] = {new}
    BY <1>0, TakeFacts, QueuesAre
  <1>2. UNCHANGED <<countLock, firstDataLock, pending, total, failed, persist, stored, first, broken, runs>>
    BY DEF Take
  <1>3. /\ new \in Working /\ new.what = s[1].what /\ new.run = s[1].run /\ new.user = s[1].user
        /\ new.pc = "start"
    BY <1>1 DEF Dispatched, Working
  <1> HIDE DEF new
  <1>4. VarTypes' /\ OneWorker'
    <2>1. running' \in [Queues -> SUBSET Working]
      BY <1>0, <1>1, <1>3, QueuesAre DEF VarTypes, Take
    <2>2. OneWorker'
      <3>1. running'["default"] = {} \/ \E j \in Working : running'["default"] = {j}
        BY <1>0, <1>1, QueuesAre DEF OneWorker
      <3>2. running'["processing"] = {new} /\ new \in Working
        BY <1>1, <1>3
      <3> HIDE DEF s, t
      <3> QED BY <3>1, <3>2, QueuesAre DEF OneWorker
    <2> QED BY <1>0, <1>1, <1>2, <2>1, <2>2 DEF VarTypes
  <1>5. Bounded'
    <2>1. Len(s) <= Capacity /\ Len(channel'["default"]) <= Capacity
      BY <1>1, QueuesAre DEF IInv, Bounded
    <2>2. Len(t) = Len(s) - 1 /\ Len(s) \in Nat
      BY <1>1
    <2>3. Len(t) <= Capacity
      <3> HIDE DEF s, t
      <3> QED BY <2>1, <2>2, SizesAssumption
    <2> QED BY <2>1, <2>3, QueuesAre DEF Bounded
  <1>6. DefaultQueue' /\ LockHeld'
    BY <1>1, <1>2 DEF IInv, DefaultQueue, LockHeld
  <1>7. ProcessingQueue'
    <2>1. (s[1].what = "countUserTotalTime" /\ s[1].user \in Users) \/ s[1].what = "first data"
      BY <1>0, <1>1 DEF ProcessingQueue
    <2>2. \A i \in DOMAIN t : (t[i].what = "countUserTotalTime" /\ t[i].user \in Users) \/ t[i].what = "first data"
      <3>1. \A i \in DOMAIN s : (s[i].what = "countUserTotalTime" /\ s[i].user \in Users) \/ s[i].what = "first data"
        BY <1>0 DEF ProcessingQueue
      <3>2. ASSUME NEW i \in DOMAIN t
            PROVE  (t[i].what = "countUserTotalTime" /\ t[i].user \in Users) \/ t[i].what = "first data"
        <4>1. i + 1 \in DOMAIN s /\ t[i] = s[i + 1]
          BY <1>1
        <4> HIDE DEF s, t
        <4> QED BY <3>1, <4>1
      <3> QED BY <3>2
    <2> QED BY <1>1, <1>3, <2>1, <2>2 DEF ProcessingQueue
  <1>8. \A r, u : (Left(r, u)' <=> Left(r, u)) /\ (Dispatching(r)' <=> Dispatching(r))
    BY <1>1 DEF Left, Dispatching
  <1>9. \A r, u : /\ InHand(r, u)' <=> IsCount(s[1], r, u)
                  /\ ~ InHand(r, u)
                  /\ Queued(r, u) <=> Queued(r, u)' \/ IsCount(s[1], r, u)
    <2>1. \A r, u : InHand(r, u)' <=> IsCount(s[1], r, u)
      BY <1>1, <1>3 DEF InHand, IsCount
    <2>2. \A r, u : ~ InHand(r, u)
      BY <1>1 DEF InHand
    <2>3. ASSUME NEW r, NEW u, Queued(r, u) PROVE Queued(r, u)' \/ IsCount(s[1], r, u)
      <3>1. PICK i \in DOMAIN s : IsCount(s[i], r, u)
        BY <2>3 DEF Queued
      <3>2. i # 1 => \E k \in DOMAIN t : t[k] = s[i]
        BY <1>1
      <3>3. i # 1 => \E k \in DOMAIN t : IsCount(t[k], r, u)
        <4> HIDE DEF s, t
        <4> QED BY <3>1, <3>2
      <3> QED BY <3>1, <3>3 DEF Queued
    <2>4. ASSUME NEW r, NEW u, Queued(r, u)' \/ IsCount(s[1], r, u) PROVE Queued(r, u)
      <3>1. CASE IsCount(s[1], r, u)
        BY <1>1, <3>1 DEF Queued
      <3>2. CASE Queued(r, u)'
        <4>1. PICK i \in DOMAIN t : IsCount(t[i], r, u)
          BY <3>2 DEF Queued
        <4>2. i + 1 \in DOMAIN s /\ t[i] = s[i + 1]
          BY <1>1
        <4>3. \E k \in DOMAIN s : IsCount(s[k], r, u)
          <5> HIDE DEF s, t
          <5> QED BY <4>1, <4>2
        <4> QED BY <4>3 DEF Queued
      <3> QED BY <2>4, <3>1, <3>2
    <2> QED BY <2>1, <2>2, <2>3, <2>4
  <1>10. OnePlace'
    <2>1. \A i, k \in DOMAIN s : \A r \in Run, u \in Users :
             IsCount(s[i], r, u) /\ IsCount(s[k], r, u) => i = k
      BY <1>0 DEF OnePlace
    <2>2. \A i, k \in DOMAIN t : \A r \in Run, u \in Users :
             IsCount(t[i], r, u) /\ IsCount(t[k], r, u) => i = k
      <3> HIDE DEF s, t
      <3> QED BY <1>1, <2>1
    <2>3. ASSUME NEW r \in Run, NEW u \in Users, IsCount(s[1], r, u) PROVE ~ Queued(r, u)'
      <3>1. SUFFICES ASSUME NEW i \in DOMAIN t, IsCount(t[i], r, u) PROVE FALSE
        BY DEF Queued
      <3>2. i \in Nat /\ i # 0 /\ i + 1 \in DOMAIN s /\ IsCount(s[i + 1], r, u)
        BY <1>1, <3>1
      <3>3. i + 1 = 1
        BY <1>1, <2>1, <2>3, <3>2
      <3> QED BY <3>2, <3>3
    <2>4. \A r \in Run, u \in Users : /\ Left(r, u)' => ~ Queued(r, u)' /\ ~ InHand(r, u)'
                                      /\ Queued(r, u)' => ~ InHand(r, u)'
      BY <1>0, <1>8, <1>9, <2>3 DEF OnePlace
    <2> QED BY <2>2, <2>4 DEF OnePlace
  <1>11. NothingBefore'
    <2>1. \A r : Unstarted(r)' <=> Unstarted(r)
      BY <1>1, <1>2 DEF Unstarted
    <2> QED BY <1>2, <1>9, <2>1 DEF IInv, NothingBefore
  <1>12. \A r : Waited(r)' = Waited(r)
    BY <1>8, <1>9 DEF Waited
  <1>13. TimesCounted'
    BY <1>1, <1>2, <1>3, <1>8, <1>12 DEF IInv, TimesCounted
  <1> QED BY <1>2, <1>4, <1>5, <1>6, <1>7, <1>10, <1>11, <1>13 DEF IInv, StoredWhole

\* The count begins, with its lock, or ends as it cannot read the users.
LEMMA CountStartInv == ASSUME IInv, CountStart PROVE IInv'
  <1>0. VarTypes /\ OneWorker /\ DefaultQueue
    BY DEF IInv
  <1>1. PICK j \in running["default"] :
          /\ j.what = "CountTotalTime" /\ j.pc = "start"
          /\ countLock' = IF countLock = 0 THEN j.run ELSE countLock
          /\ \/ /\ pending' = [pending EXCEPT ![j.run] = Cardinality(Users)]
                /\ Becomes("default", j, To(j, "dispatch"))
             \/ pending' = pending /\ Becomes("default", j, To(j, "unlock"))
    BY DEF CountStart
  <1>2. UNCHANGED <<channel, firstDataLock, total, failed, persist, stored, first, broken, runs>>
    BY DEF CountStart
  <1>3. PICK k \in Working :
          /\ k.what = j.what /\ k.run = j.run /\ k.left = j.left /\ k.pc \in {"dispatch", "unlock"}
          /\ running["default"] = {j} /\ running'["default"] = {k}
          /\ running'["processing"] = running["processing"] /\ running' \in [Queues -> SUBSET Working]
          /\ k.pc = "dispatch" => pending' = [pending EXCEPT ![j.run] = Cardinality(Users)]
          /\ k.pc = "unlock" => pending' = pending
    BY <1>0, <1>1, WorkerFacts, ToWorking, QueuesAre
  <1>4. /\ j.run \in Run /\ j.run # 0 /\ j.run <= runs /\ j.left = Users
        /\ \A i \in DOMAIN channel["default"] : channel["default"][i].run # j.run
    <2>1. j \in Working
      BY <1>0, <1>1, WorkerFacts, QueuesAre
    <2> QED BY <1>0, <1>1, <2>1, RunsAre DEF DefaultQueue
  <1>5. countLock = 0 /\ countLock' = j.run
    <2>1. ~ \E i \in running["default"] : i.pc \in {"dispatch", "unlock"}
      BY <1>1, <1>3
    <2> QED BY <1>1, <2>1 DEF IInv, LockHeld
  <1>6. Cardinality(Users) \in Nat /\ pending' \in [Run -> Nat]
    <2>1. Cardinality(Users) \in Nat
      BY FS_CardinalityType, SizesAssumption
    <2>2. \A n \in Nat : [pending EXCEPT ![j.run] = n] \in [Run -> Nat]
      BY <1>0 DEF VarTypes
    <2> QED BY <1>0, <1>3, <2>1, <2>2 DEF VarTypes
  <1>7. VarTypes' /\ OneWorker' /\ Bounded'
    <2>1. countLock' \in Nat
      BY <1>4, <1>5, RunsAre
    <2>2. OneWorker'
      BY <1>0, <1>3, QueuesAre DEF OneWorker
    <2> QED BY <1>0, <1>2, <1>3, <1>6, <2>1, <2>2 DEF IInv, VarTypes, Bounded
  <1>8. DefaultQueue'
    BY <1>0, <1>1, <1>2, <1>3, <1>4 DEF DefaultQueue, HourlyJobs
  <1>9. LockHeld'
    BY <1>2, <1>3, <1>4, <1>5 DEF IInv, LockHeld
  <1>10. \A r, u : /\ ~ Left(r, u)
                   /\ Left(r, u)' <=> k.pc = "dispatch" /\ r = j.run /\ u \in Users
                   /\ Dispatching(r)' <=> k.pc = "dispatch" /\ r = j.run
                   /\ Queued(r, u)' <=> Queued(r, u)
                   /\ InHand(r, u)' <=> InHand(r, u)
    BY <1>1, <1>2, <1>3, <1>4 DEF Left, Queued, InHand, Dispatching
  <1>11. Unstarted(j.run) /\ \A r \in Run : Unstarted(r)' => Unstarted(r) /\ r # j.run
    <2>1. Unstarted(j.run)
      BY <1>1 DEF Unstarted
    <2>2. ~ Unstarted(j.run)'
      <3>1. ~ (j.run > runs)
        BY <1>0, <1>4, RunsAre DEF VarTypes
      <3> QED BY <1>2, <1>3, <1>4, <3>1 DEF Unstarted
    <2>3. \A r \in Run : Unstarted(r)' => Unstarted(r)
      BY <1>2, <1>3 DEF Unstarted
    <2> QED BY <2>1, <2>2, <2>3
  <1>12. persist[j.run] = "none" /\ pending[j.run] = 0 /\ \A u \in Users : ~ Queued(j.run, u) /\ ~ InHand(j.run, u)
    BY <1>4, <1>11 DEF IInv, NothingBefore
  <1>13. \A r \in Run : r # j.run => pending'[r] = pending[r]
    BY <1>0, <1>3, <1>4 DEF VarTypes
  <1>14. NothingBefore'
    BY <1>2, <1>10, <1>11, <1>13 DEF IInv, NothingBefore
  <1>15. OnePlace' /\ ProcessingQueue'
    <2>1. \A r \in Run, u \in Users : /\ Left(r, u)' => ~ Queued(r, u)' /\ ~ InHand(r, u)'
                                      /\ Queued(r, u)' => ~ InHand(r, u)'
      BY <1>10, <1>12 DEF IInv, OnePlace
    <2>2. OnePlace'
      BY <1>2, <2>1 DEF IInv, OnePlace
    <2>3. ProcessingQueue'
      BY <1>2, <1>3 DEF IInv, ProcessingQueue
    <2> QED BY <2>2, <2>3
  <1>16. TimesCounted'
    <2>1. \A r \in Run : r # j.run \/ k.pc = "unlock" => Waited(r)' = Waited(r)
      BY <1>3, <1>10 DEF Waited
    <2>2. k.pc = "dispatch" => Waited(j.run)' = Users
      BY <1>3, <1>10 DEF Waited
    <2>3. \A r \in Run : pending'[r] = Cardinality(Waited(r)')
      <3>1. CASE k.pc = "unlock"
        BY <1>3, <2>1, <3>1 DEF IInv, TimesCounted
      <3>2. CASE k.pc = "dispatch"
        <4>1. pending'[j.run] = Cardinality(Users)
          BY <1>0, <1>3, <1>4, <3>2 DEF VarTypes
        <4> QED BY <1>13, <2>1, <2>2, <3>2, <4>1 DEF IInv, TimesCounted
      <3> QED BY <1>3, <3>1, <3>2
    <2>4. \A r \in Run : persist'[r] # "none" \/ Dispatching(r)' =>
             Users \subseteq Waited(r)' \union total'[r] \union failed'[r]
      BY <1>2, <1>10, <1>12, <2>1, <2>2 DEF IInv, TimesCounted
    <2> QED BY <1>2, <1>3, <2>3, <2>4 DEF IInv, TimesCounted
  <1> QED BY <1>2, <1>7, <1>8, <1>9, <1>14, <1>15, <1>16 DEF IInv, StoredWhole

\* A run that is under way is no longer to begin.
LEMMA BegunNotUnstarted ==
  ASSUME IInv, NEW j \in running["default"], j.pc # "start"
  PROVE  j.run \in Run /\ ~ Unstarted(j.run)
  <1>1. j \in Working /\ running["default"] = {j}
    BY WorkerFacts, QueuesAre DEF IInv
  <1>2. j.run <= runs /\ \A i \in DOMAIN channel["default"] : channel["default"][i].run # j.run
    BY DEF IInv, DefaultQueue
  <1>3. ~ (j.run > runs)
    BY <1>1, <1>2, RunsAre DEF IInv, VarTypes
  <1> QED BY <1>1, <1>2, <1>3, RunsAre DEF Unstarted

\* The job of one more user is dispatched; it is waited for as before.
LEMMA SendUserInv ==
  ASSUME IInv, NEW j \in running["default"], j.pc = "dispatch", NEW u0 \in j.left,
         Send("processing", Job("countUserTotalTime", j.run, u0)),
         Becomes("default", j, [j EXCEPT !.left = @ \ {u0}]),
         UNCHANGED <<countLock, firstDataLock, pending, total, failed, persist, stored, first, broken, runs>>
  PROVE  IInv'
  <1> DEFINE s == channel["processing"]
             t == channel'["processing"]
             k == [j EXCEPT !.left = @ \ {u0}]
             task == Job("countUserTotalTime", j.run, u0)
  <1>0. VarTypes /\ OneWorker /\ DefaultQueue /\ ProcessingQueue /\ OnePlace
    BY DEF IInv
  <1>1. j \in Working /\ running["default"] = {j} /\ u0 \in Users /\ j.run \in Run
    <2>1. j \in Working /\ running["default"] = {j}
      BY <1>0, WorkerFacts, QueuesAre
    <2> QED BY <2>1 DEF Working
  <1>2. k \in Working /\ k.what = j.what /\ k.run = j.run /\ k.pc = j.pc /\ k.left = j.left \ {u0}
    BY <1>1 DEF Working
  <1>a. Becomes("default", j, k)
    OBVIOUS
  <1> HIDE DEF k
  <1>3. /\ running'["default"] = {k} /\ running'["processing"] = running["processing"]
        /\ running' \in [Queues -> SUBSET Working]
    BY <1>a, <1>0, <1>2, WorkerFacts, QueuesAre
  <1>4. task \in Dispatched /\ task.what = "countUserTotalTime" /\ task.run = j.run /\ task.user = u0
    BY <1>1 DEF Job, Dispatched
  <1> HIDE DEF task
  <1>5. Send("processing", task)
    BY DEF task
  <1>6. /\ channel' \in [Queues -> Seq(Dispatched)] /\ channel'["default"] = channel["default"]
        /\ Len(s) < Capacity /\ Len(t) = Len(s) + 1 /\ Len(s) \in Nat
        /\ \A i \in DOMAIN t : \/ i \in DOMAIN s /\ t[i] = s[i]
                               \/ i = Len(s) + 1 /\ t[i] = task
        /\ \A i \in DOMAIN s : i \in DOMAIN t /\ t[i] = s[i]
        /\ Len(s) + 1 \in DOMAIN t /\ t[Len(s) + 1] = task /\ Len(s) + 1 \notin DOMAIN s
    BY <1>0, <1>4, <1>5, SendFacts, QueuesAre
  <1>7. VarTypes' /\ Bounded'
    <2>1. VarTypes'
      BY <1>0, <1>3, <1>6 DEF VarTypes
    <2>2. Bounded'
      <3>1. Len(t) <= Capacity
        <4> HIDE DEF s, t
        <4> QED BY <1>6, SizesAssumption
      <3>2. Len(channel["default"]) <= Capacity
        BY QueuesAre DEF IInv, Bounded
      <3> QED BY <1>6, <3>1, <3>2, QueuesAre DEF Bounded
    <2> QED BY <2>1, <2>2
  <1>8. OneWorker'
    BY <1>0, <1>2, <1>3, QueuesAre DEF OneWorker
  <1>9. DefaultQueue' /\ LockHeld'
    <2>1. DefaultQueue'
      BY <1>0, <1>1, <1>2, <1>3, <1>6 DEF DefaultQueue
    <2>2. LockHeld'
      BY <1>1, <1>2, <1>3 DEF IInv, LockHeld
    <2> QED BY <2>1, <2>2
  <1>10. ProcessingQueue'
    <2>1. ASSUME NEW i \in DOMAIN t
          PROVE  (t[i].what = "countUserTotalTime" /\ t[i].user \in Users) \/ t[i].what = "first data"
      <3>1. CASE i \in DOMAIN s /\ t[i] = s[i]
        BY <1>0, <3>1 DEF ProcessingQueue
      <3>2. CASE t[i] = task
        BY <1>1, <1>4, <3>2
      <3> QED BY <1>6, <3>1, <3>2
    <2> QED BY <1>0, <1>3, <2>1 DEF ProcessingQueue
  <1>11. \A r, u : /\ Left(r, u) <=> r = j.run /\ u \in j.left
                   /\ Left(r, u)' <=> r = j.run /\ u \in j.left /\ u # u0
                   /\ Dispatching(r)' <=> Dispatching(r)
                   /\ InHand(r, u)' <=> InHand(r, u)
    BY <1>1, <1>2, <1>3 DEF Left, Dispatching, InHand
  <1>12. \A r, u : Queued(r, u)' <=> Queued(r, u) \/ (r = j.run /\ u = u0)
    <2>1. \A r, u : IsCount(task, r, u) <=> r = j.run /\ u = u0
      BY <1>4 DEF IsCount
    <2>2. ASSUME NEW r, NEW u, Queued(r, u)' PROVE Queued(r, u) \/ (r = j.run /\ u = u0)
      BY <1>6, <2>1, <2>2 DEF Queued
    <2>3. ASSUME NEW r, NEW u, Queued(r, u) PROVE Queued(r, u)'
      BY <1>6, <2>3 DEF Queued
    <2>4. Queued(j.run, u0)'
      BY <1>6, <2>1 DEF Queued
    <2> QED BY <2>2, <2>3, <2>4
  <1>13. Left(j.run, u0) /\ ~ Queued(j.run, u0) /\ ~ InHand(j.run, u0)
    BY <1>0, <1>1, <1>11 DEF OnePlace
  <1>14. OnePlace'
    <2>1. \A r \in Run, u \in Users : /\ Left(r, u)' => ~ Queued(r, u)' /\ ~ InHand(r, u)'
                                      /\ Queued(r, u)' => ~ InHand(r, u)'
      BY <1>0, <1>11, <1>12, <1>13 DEF OnePlace
    <2>2. ASSUME NEW i \in DOMAIN t, NEW l \in DOMAIN t, NEW r \in Run, NEW u \in Users,
                 IsCount(t[i], r, u), IsCount(t[l], r, u)
          PROVE  i = l
      <3>1. \A m \in DOMAIN s : ~ IsCount(s[m], j.run, u0)
        BY <1>13 DEF Queued
      <3>2. IsCount(task, r, u) => r = j.run /\ u = u0
        BY <1>4 DEF IsCount
      <3>3. \A m, n \in DOMAIN s : IsCount(s[m], r, u) /\ IsCount(s[n], r, u) => m = n
        BY <1>0 DEF OnePlace
      <3> HIDE DEF s, t
      <3> QED BY <1>6, <2>2, <3>1, <3>2, <3>3
    <2> QED BY <2>1, <2>2 DEF OnePlace
  <1>15. NothingBefore'
    <2>1. \A r : Unstarted(r)' <=> Unstarted(r)
      BY <1>1, <1>2, <1>3, <1>6 DEF Unstarted
    <2>2. ~ Unstarted(j.run)
      BY BegunNotUnstarted
    <2> QED BY <1>11, <1>12, <2>1, <2>2 DEF IInv, NothingBefore
  <1>16. \A r : Waited(r)' = Waited(r)
    BY <1>11, <1>12, <1>13 DEF Waited
  <1>17. TimesCounted'
    BY <1>3, <1>11, <1>16 DEF IInv, TimesCounted
  <1> QED BY <1>7, <1>8, <1>9, <1>10, <1>14, <1>15, <1>17 DEF IInv, StoredWhole

LEMMA CountDispatchInv == ASSUME IInv, CountDispatch PROVE IInv'
  <1>0. VarTypes /\ OneWorker /\ DefaultQueue
    BY DEF IInv
  <1>1. PICK j \in running["default"] :
          /\ j.pc = "dispatch"
          /\ \/ \E u \in j.left :
                   /\ Send("processing", Job("countUserTotalTime", j.run, u))
                   /\ Becomes("default", j, [j EXCEPT !.left = @ \ {u}])
                   /\ persist' = persist
             \/ /\ j.left = {}
                /\ Becomes("default", j, To(j, "unlock"))
                /\ persist' = [persist EXCEPT ![j.run] = "wait"]
                /\ channel' = channel
    BY DEF CountDispatch
  <1>2. UNCHANGED <<countLock, firstDataLock, pending, total, failed, stored, first, broken, runs>>
    BY DEF CountDispatch
  <1>3. CASE \E u \in j.left :
                   /\ Send("processing", Job("countUserTotalTime", j.run, u))
                   /\ Becomes("default", j, [j EXCEPT !.left = @ \ {u}])
                   /\ persist' = persist
    BY <1>1, <1>2, <1>3, SendUserInv
  <1>4. CASE /\ j.left = {}
             /\ Becomes("default", j, To(j, "unlock"))
             /\ persist' = [persist EXCEPT ![j.run] = "wait"]
             /\ channel' = channel
    <2>1. j \in Working /\ running["default"] = {j} /\ j.run \in Run
      BY <1>0, WorkerFacts, RunsAre, QueuesAre
    <2>2. PICK k \in Working :
            /\ k.what = j.what /\ k.run = j.run /\ k.pc = "unlock"
            /\ running'["default"] = {k} /\ running'["processing"] = running["processing"]
            /\ running' \in [Queues -> SUBSET Working]
      BY <1>0, <1>4, <2>1, WorkerFacts, ToWorking, QueuesAre
    <2>3. persist'[j.run] = "wait" /\ \A r \in Run : r # j.run => persist'[r] = persist[r]
      BY <1>0, <1>4, <2>1 DEF VarTypes
    <2>4. VarTypes' /\ Bounded'
      BY <1>0, <1>2, <1>4, <2>2 DEF IInv, VarTypes, Bounded
    <2>5. OneWorker'
      BY <1>0, <2>2, QueuesAre DEF OneWorker
    <2>6. DefaultQueue'
      BY <1>0, <1>1, <1>2, <1>4, <2>1, <2>2 DEF DefaultQueue
    <2>7. LockHeld'
      BY <1>1, <1>2, <2>1, <2>2 DEF IInv, LockHeld
    <2>8. \A r, u : /\ ~ Left(r, u) /\ ~ Left(r, u)' /\ ~ Dispatching(r)'
                    /\ Queued(r, u)' <=> Queued(r, u)
                    /\ InHand(r, u)' <=> InHand(r, u)
      BY <1>4, <2>1, <2>2 DEF Left, Queued, InHand, Dispatching
    <2>9. OnePlace' /\ ProcessingQueue'
      <3>1. OnePlace'
        BY <1>4, <2>8 DEF IInv, OnePlace
      <3>2. ProcessingQueue'
        BY <1>4, <2>2 DEF IInv, ProcessingQueue
      <3> QED BY <3>1, <3>2
    <2>10. NothingBefore'
      <3>1. \A r : Unstarted(r)' => Unstarted(r)
        BY <1>2, <1>4, <2>2 DEF Unstarted
      <3>2. ~ Unstarted(j.run)
        BY <1>1, BegunNotUnstarted
      <3> QED BY <1>2, <2>3, <2>8, <3>1, <3>2 DEF IInv, NothingBefore
    <2>11. \A r : Waited(r)' = Waited(r)
      BY <2>8 DEF Waited
    <2>12. Dispatching(j.run)
      BY <1>1 DEF Dispatching
    <2>13. TimesCounted'
      BY <1>2, <2>2, <2>3, <2>8, <2>11, <2>12 DEF IInv, TimesCounted
    <2> QED BY <1>2, <2>4, <2>5, <2>6, <2>7, <2>9, <2>10, <2>13 DEF IInv, StoredWhole
  <1> QED BY <1>1, <1>3, <1>4

\* The run that ends is the one that has the lock.
LEMMA CountEndInv == ASSUME IInv, CountEnd PROVE IInv'
  <1>0. VarTypes /\ OneWorker /\ DefaultQueue
    BY DEF IInv
  <1>1. PICK j \in running["default"] :
          j.pc = "unlock" /\ broken' = (broken \/ countLock # j.run) /\ Ends("default", j)
    BY DEF CountEnd
  <1>2. UNCHANGED <<channel, firstDataLock, pending, total, failed, persist, stored, first, runs>> /\ countLock' = 0
    BY DEF CountEnd
  <1>3. /\ running["default"] = {j} /\ running'["default"] = {}
        /\ running'["processing"] = running["processing"] /\ running' \in [Queues -> SUBSET Working]
    BY <1>0, <1>1, WorkerFacts, QueuesAre
  <1>4. ~ broken /\ countLock = j.run
    BY <1>1 DEF IInv, LockHeld
  <1>5. ~ broken' /\ broken' \in BOOLEAN
    BY <1>1, <1>4
  <1>6. VarTypes' /\ Bounded'
    BY <1>0, <1>2, <1>3, <1>5 DEF IInv, VarTypes, Bounded
  <1>7. OneWorker'
    BY <1>0, <1>3, QueuesAre DEF OneWorker
  <1>8. DefaultQueue' /\ LockHeld'
    BY <1>0, <1>2, <1>3, <1>5 DEF DefaultQueue, LockHeld
  <1>9. \A r, u : /\ ~ Left(r, u) /\ ~ Left(r, u)' /\ ~ Dispatching(r)'
                  /\ Queued(r, u)' <=> Queued(r, u)
                  /\ InHand(r, u)' <=> InHand(r, u)
    BY <1>1, <1>2, <1>3 DEF Left, Queued, InHand, Dispatching
  <1>10. OnePlace' /\ ProcessingQueue'
    <2>1. OnePlace'
      BY <1>2, <1>9 DEF IInv, OnePlace
    <2>2. ProcessingQueue'
      BY <1>2, <1>3 DEF IInv, ProcessingQueue
    <2> QED BY <2>1, <2>2
  <1>11. NothingBefore'
    <2>1. \A r : Unstarted(r)' => Unstarted(r)
      BY <1>2, <1>3 DEF Unstarted
    <2> QED BY <1>2, <1>9, <2>1 DEF IInv, NothingBefore
  <1>12. \A r : Waited(r)' = Waited(r)
    BY <1>9 DEF Waited
  <1>13. TimesCounted'
    BY <1>2, <1>3, <1>9, <1>12 DEF IInv, TimesCounted
  <1> QED BY <1>2, <1>6, <1>7, <1>8, <1>10, <1>11, <1>13 DEF IInv, StoredWhole

LEMMA ComputeOldestInv == ASSUME IInv, ComputeOldest PROVE IInv'
  <1> DEFINE s == channel["processing"]
             t == channel'["processing"]
  <1>0. VarTypes /\ OneWorker /\ DefaultQueue /\ ProcessingQueue /\ OnePlace
    BY DEF IInv
  <1>1. PICK j \in running["default"] :
          /\ j.what = "ComputeOldestHeartbeats"
          /\ Send("processing", Job("first data", j.run, NoUser))
          /\ Ends("default", j)
    BY DEF ComputeOldest
  <1>2. UNCHANGED <<countLock, firstDataLock, pending, total, failed, persist, stored, first, broken, runs>>
    BY DEF ComputeOldest
  <1>3. /\ running["default"] = {j} /\ running'["default"] = {} /\ j.run \in Run /\ j.pc = "start"
        /\ running'["processing"] = running["processing"] /\ running' \in [Queues -> SUBSET Working]
    <2>1. j \in Working
      BY <1>0, WorkerFacts, QueuesAre
    <2>2. j.run \in Run /\ j.pc = "start"
      BY <1>0, <1>1, <2>1, RunsAre DEF DefaultQueue
    <2> QED BY <1>0, <1>1, <2>1, <2>2, WorkerFacts, QueuesAre
  <1> DEFINE task == Job("first data", j.run, NoUser)
  <1>4. task \in Dispatched /\ task.what = "first data"
    BY <1>3 DEF Job, Dispatched
  <1> HIDE DEF task
  <1>5. Send("processing", task)
    BY <1>1 DEF task
  <1>6. /\ channel' \in [Queues -> Seq(Dispatched)] /\ channel'["default"] = channel["default"]
        /\ Len(s) < Capacity /\ Len(t) = Len(s) + 1 /\ Len(s) \in Nat
        /\ \A i \in DOMAIN t : \/ i \in DOMAIN s /\ t[i] = s[i]
                               \/ i = Len(s) + 1 /\ t[i] = task
        /\ \A i \in DOMAIN s : i \in DOMAIN t /\ t[i] = s[i]
    BY <1>0, <1>4, <1>5, SendFacts, QueuesAre
  <1>7. VarTypes' /\ Bounded'
    <2>1. VarTypes'
      BY <1>0, <1>2, <1>3, <1>6 DEF VarTypes
    <2>2. Bounded'
      <3>1. Len(t) <= Capacity
        <4> HIDE DEF s, t
        <4> QED BY <1>6, SizesAssumption
      <3>2. Len(channel["default"]) <= Capacity
        BY QueuesAre DEF IInv, Bounded
      <3> QED BY <1>6, <3>1, <3>2, QueuesAre DEF Bounded
    <2> QED BY <2>1, <2>2
  <1>8. OneWorker'
    BY <1>0, <1>3, QueuesAre DEF OneWorker
  <1>9. DefaultQueue' /\ LockHeld'
    BY <1>0, <1>2, <1>3, <1>6 DEF DefaultQueue, IInv, LockHeld
  <1>10. \A r, u : ~ IsCount(task, r, u)
    BY <1>4 DEF IsCount
  <1>11. ProcessingQueue'
    <2>1. ASSUME NEW i \in DOMAIN t
          PROVE  (t[i].what = "countUserTotalTime" /\ t[i].user \in Users) \/ t[i].what = "first data"
      <3>1. CASE i \in DOMAIN s /\ t[i] = s[i]
        BY <1>0, <3>1 DEF ProcessingQueue
      <3>2. CASE t[i] = task
        BY <1>4, <3>2
      <3> QED BY <1>6, <3>1, <3>2
    <2> QED BY <1>0, <1>3, <2>1 DEF ProcessingQueue
  <1>12. \A r, u : /\ ~ Left(r, u) /\ ~ Left(r, u)' /\ ~ Dispatching(r)'
                   /\ InHand(r, u)' <=> InHand(r, u)
    BY <1>3 DEF Left, InHand, Dispatching
  <1>13. \A r, u : Queued(r, u)' <=> Queued(r, u)
    <2> HIDE DEF s, t
    <2> QED BY <1>6, <1>10 DEF Queued, s, t
  <1>14. OnePlace'
    <2>1. \A r \in Run, u \in Users : /\ Left(r, u)' => ~ Queued(r, u)' /\ ~ InHand(r, u)'
                                      /\ Queued(r, u)' => ~ InHand(r, u)'
      BY <1>0, <1>12, <1>13 DEF OnePlace
    <2>2. ASSUME NEW i \in DOMAIN t, NEW l \in DOMAIN t, NEW r \in Run, NEW u \in Users,
                 IsCount(t[i], r, u), IsCount(t[l], r, u)
          PROVE  i = l
      <3>1. \A m, n \in DOMAIN s : IsCount(s[m], r, u) /\ IsCount(s[n], r, u) => m = n
        BY <1>0 DEF OnePlace
      <3> HIDE DEF s, t
      <3> QED BY <1>6, <1>10, <2>2, <3>1
    <2> QED BY <2>1, <2>2 DEF OnePlace
  <1>15. NothingBefore'
    <2>1. \A r : Unstarted(r)' => Unstarted(r)
      BY <1>2, <1>3, <1>6 DEF Unstarted
    <2> QED BY <1>2, <1>12, <1>13, <2>1 DEF IInv, NothingBefore
  <1>16. \A r : Waited(r)' = Waited(r)
    BY <1>12, <1>13 DEF Waited
  <1>17. TimesCounted'
    BY <1>2, <1>3, <1>12, <1>16 DEF IInv, TimesCounted
  <1> QED BY <1>2, <1>7, <1>8, <1>9, <1>11, <1>14, <1>15, <1>17 DEF IInv, StoredWhole

\* A user's time is added before the wait group is told.
LEMMA CountUserInv == ASSUME IInv, CountUser PROVE IInv'
  <1>0. VarTypes /\ OneWorker /\ DefaultQueue /\ ProcessingQueue /\ OnePlace
    BY DEF IInv
  <1>1. PICK j \in running["processing"] :
          /\ j.what = "countUserTotalTime"
          /\ \/ /\ j.pc = "start"
                /\ \/ total' = [total EXCEPT ![j.run] = @ \union {j.user}] /\ failed' = failed
                   \/ failed' = [failed EXCEPT ![j.run] = @ \union {j.user}] /\ total' = total
                /\ Becomes("processing", j, To(j, "done"))
                /\ pending' = pending
             \/ /\ j.pc = "done"
                /\ pending' = [pending EXCEPT ![j.run] = @ - 1]
                /\ Ends("processing", j)
                /\ UNCHANGED <<total, failed>>
    BY DEF CountUser
  <1>2. UNCHANGED <<channel, countLock, firstDataLock, persist, stored, first, broken, runs>>
    BY DEF CountUser
  <1>3. /\ j \in Working /\ running["processing"] = {j} /\ j.run \in Run /\ j.user \in Users
        /\ InHand(j.run, j.user) /\ \A r, u : InHand(r, u) => r = j.run /\ u = j.user
    <2>1. j \in Working /\ running["processing"] = {j} /\ j.run \in Run
      BY <1>0, WorkerFacts, RunsAre, QueuesAre
    <2>2. j.user \in Users
      BY <1>0, <1>1 DEF ProcessingQueue
    <2> QED BY <1>1, <2>1, <2>2 DEF InHand, IsCount
  <1>4. ~ Unstarted(j.run)
    BY <1>3 DEF IInv, NothingBefore
  <1>5. CASE /\ j.pc = "start"
             /\ \/ total' = [total EXCEPT ![j.run] = @ \union {j.user}] /\ failed' = failed
                \/ failed' = [failed EXCEPT ![j.run] = @ \union {j.user}] /\ total' = total
             /\ Becomes("processing", j, To(j, "done"))
             /\ pending' = pending
    <2>1. PICK k \in Working :
            /\ k.what = j.what /\ k.run = j.run /\ k.user = j.user /\ k.pc = "done"
            /\ running'["processing"] = {k} /\ running'["default"] = running["default"]
            /\ running' \in [Queues -> SUBSET Working]
      BY <1>0, <1>3, <1>5, WorkerFacts, ToWorking, QueuesAre
    <2>2. /\ total' \in [Run -> SUBSET Users] /\ failed' \in [Run -> SUBSET Users]
          /\ j.user \in total'[j.run] \union failed'[j.run]
          /\ \A r \in Run : total[r] \subseteq total'[r] /\ failed[r] \subseteq failed'[r]
      <3>0. total \in [Run -> SUBSET Users] /\ failed \in [Run -> SUBSET Users]
        BY <1>0 DEF VarTypes
      <3>1. CASE total' = [total EXCEPT ![j.run] = @ \union {j.user}] /\ failed' = failed
        BY <1>3, <3>0, <3>1
      <3>2. CASE failed' = [failed EXCEPT ![j.run] = @ \union {j.user}] /\ total' = total
        BY <1>3, <3>0, <3>2
      <3> QED BY <1>5, <3>1, <3>2
    <2>3. VarTypes' /\ Bounded'
      BY <1>0, <1>2, <1>5, <2>1, <2>2 DEF IInv, VarTypes, Bounded
    <2>4. OneWorker'
      BY <1>0, <2>1, QueuesAre DEF OneWorker
    <2>5. DefaultQueue' /\ LockHeld'
      BY <1>2, <2>1 DEF IInv, DefaultQueue, LockHeld
    <2>6. ProcessingQueue'
      BY <1>0, <1>1, <1>2, <1>3, <2>1 DEF ProcessingQueue
    <2>7. \A r, u : /\ Left(r, u)' <=> Left(r, u)
                    /\ Dispatching(r)' <=> Dispatching(r)
                    /\ Queued(r, u)' <=> Queued(r, u)
                    /\ InHand(r, u)' <=> InHand(r, u)
      BY <1>2, <1>3, <2>1 DEF Left, Queued, InHand, IsCount, Dispatching
    <2>8. OnePlace'
      BY <1>0, <1>2, <2>7 DEF OnePlace
    <2>9. NothingBefore'
      <3>1. \A r : Unstarted(r)' => Unstarted(r)
        BY <1>2, <2>1 DEF Unstarted
      <3> QED BY <1>2, <1>5, <2>7, <3>1 DEF IInv, NothingBefore
    <2>10. \A r : Waited(r)' = Waited(r)
      BY <2>7 DEF Waited
    <2>11. TimesCounted'
      BY <1>2, <1>5, <2>1, <2>2, <2>7, <2>10 DEF IInv, TimesCounted
    <2>12. StoredWhole'
      <3>1. stored' = stored
        BY <1>2
      <3> QED BY <2>2, <3>1 DEF IInv, StoredWhole
    <2> QED BY <2>3, <2>4, <2>5, <2>6, <2>8, <2>9, <2>11, <2>12 DEF IInv
  <1>6. CASE /\ j.pc = "done"
             /\ pending' = [pending EXCEPT ![j.run] = @ - 1]
             /\ Ends("processing", j)
             /\ UNCHANGED <<total, failed>>
    <2>1. /\ running'["processing"] = {} /\ running'["default"] = running["default"]
          /\ running' \in [Queues -> SUBSET Working]
      BY <1>0, <1>6, WorkerFacts, QueuesAre
    <2>2. \A r, u : /\ Left(r, u)' <=> Left(r, u)
                    /\ Dispatching(r)' <=> Dispatching(r)
                    /\ Queued(r, u)' <=> Queued(r, u)
                    /\ ~ InHand(r, u)'
      BY <1>2, <2>1 DEF Left, Queued, InHand, Dispatching
    <2>3. /\ Waited(j.run)' = Waited(j.run) \ {j.user} /\ j.user \in Waited(j.run)
          /\ \A r : r # j.run => Waited(r)' = Waited(r)
      <3>1. ~ Left(j.run, j.user) /\ ~ Queued(j.run, j.user)
        BY <1>0, <1>3 DEF OnePlace
      <3> QED BY <1>3, <2>2, <3>1 DEF Waited
    <2>4. pending[j.run] = Cardinality(Waited(j.run))
      BY <1>3 DEF IInv, TimesCounted
    <2>5. IsFiniteSet(Waited(j.run))
      BY FS_Subset, SizesAssumption DEF Waited
    <2>6. Cardinality(Waited(j.run)') = pending[j.run] - 1 /\ pending[j.run] - 1 \in Nat
      <3>1. Cardinality(Waited(j.run) \ {j.user}) = Cardinality(Waited(j.run)) - 1
        BY <2>3, <2>5, FS_RemoveElement
      <3>2. Cardinality(Waited(j.run) \ {j.user}) \in Nat
        BY <2>5, FS_RemoveElement, FS_CardinalityType
      <3> QED BY <2>3, <2>4, <3>1, <3>2
    <2>7. /\ pending' \in [Run -> Nat] /\ pending'[j.run] = pending[j.run] - 1
          /\ \A r \in Run : r # j.run => pending'[r] = pending[r]
      BY <1>0, <1>3, <1>6, <2>6 DEF VarTypes
    <2>8. VarTypes' /\ Bounded'
      BY <1>0, <1>2, <1>6, <2>1, <2>7 DEF IInv, VarTypes, Bounded
    <2>9. OneWorker'
      BY <1>0, <2>1, QueuesAre DEF OneWorker
    <2>10. DefaultQueue' /\ LockHeld'
      BY <1>2, <2>1 DEF IInv, DefaultQueue, LockHeld
    <2>11. ProcessingQueue'
      BY <1>0, <1>2, <2>1 DEF ProcessingQueue
    <2>12. OnePlace'
      BY <1>0, <1>2, <2>2 DEF OnePlace
    <2>13. NothingBefore'
      <3>1. \A r : Unstarted(r)' => Unstarted(r)
        BY <1>2, <2>1 DEF Unstarted
      <3> QED BY <1>2, <1>4, <2>2, <2>7, <3>1 DEF IInv, NothingBefore
    <2>14. TimesCounted'
      <3>1. j.user \in total[j.run] \union failed[j.run]
        BY <1>1, <1>6 DEF IInv, TimesCounted
      <3>2. \A r \in Run : Waited(r) \union total[r] \union failed[r]
                         = Waited(r)' \union total[r] \union failed[r]
        BY <2>3, <3>1
      <3>3. \A r \in Run : pending'[r] = Cardinality(Waited(r)')
        BY <2>3, <2>6, <2>7 DEF IInv, TimesCounted
      <3>4. \A r \in Run : persist'[r] # "none" \/ Dispatching(r)' =>
               Users \subseteq Waited(r)' \union total'[r] \union failed'[r]
        BY <1>2, <1>6, <2>2, <3>2 DEF IInv, TimesCounted
      <3> QED BY <2>1, <3>3, <3>4 DEF TimesCounted
    <2>15. StoredWhole'
      BY <1>2, <1>6 DEF IInv, StoredWhole
    <2> QED BY <2>8, <2>9, <2>10, <2>11, <2>12, <2>13, <2>14, <2>15 DEF IInv
  <1> QED BY <1>1, <1>5, <1>6

\* When the wait group is through, nobody is waited for: everybody has been counted,
\* or the count failed.
LEMMA PersistInv == ASSUME IInv, NEW r \in Run, Persist(r) PROVE IInv'
  <1>0. VarTypes
    BY DEF IInv
  <1>1. UNCHANGED <<channel, running, countLock, firstDataLock, pending, total, failed, first, broken, runs>>
    BY DEF Persist
  <1>2. /\ persist' \in [Run -> {"none", "wait", "done", "late"}]
        /\ persist[r] # "none"
        /\ \A p \in Run : p # r => persist'[p] = persist[p]
    BY <1>0 DEF VarTypes, Persist
  <1>3. Users \subseteq Waited(r) \union total[r] \union failed[r]
    BY <1>0, <1>2 DEF IInv, TimesCounted, VarTypes
  <1>4. \/ stored'.of = stored.of /\ stored'.total = stored.total
        \/ stored'.of = r /\ stored'.total = total[r] /\ pending[r] = 0
    BY <1>0 DEF Persist, VarTypes
  <1>5. ASSUME pending[r] = 0 PROVE Users \subseteq total[r] \union failed[r]
    <2>1. IsFiniteSet(Waited(r)) /\ Cardinality(Waited(r)) = 0
      BY <1>5, FS_Subset, SizesAssumption DEF IInv, TimesCounted, Waited
    <2>2. Waited(r) = {}
      BY <2>1, FS_EmptySet
    <2> QED BY <1>3, <2>2
  <1>6. StoredWhole'
    BY <1>1, <1>4, <1>5 DEF IInv, StoredWhole
  <1>7. stored' \in [total : SUBSET Users, of : Nat]
    <2>1. r \in Nat
      BY RunsAre
    <2> QED BY <1>0, <2>1 DEF Persist, VarTypes
  <1>8. VarTypes'
    BY <1>0, <1>1, <1>2, <1>7 DEF VarTypes
  <1>9. OneWorker' /\ Bounded' /\ DefaultQueue' /\ LockHeld' /\ ProcessingQueue'
    BY <1>1 DEF IInv, OneWorker, Bounded, DefaultQueue, LockHeld, ProcessingQueue
  <1>10. \A p, u : /\ Left(p, u)' <=> Left(p, u)
                   /\ Dispatching(p)' <=> Dispatching(p)
                   /\ Queued(p, u)' <=> Queued(p, u)
                   /\ InHand(p, u)' <=> InHand(p, u)
                   /\ Unstarted(p)' <=> Unstarted(p)
    BY <1>1 DEF Left, Queued, InHand, Dispatching, Unstarted
  <1>11. OnePlace'
    BY <1>1, <1>10 DEF IInv, OnePlace
  <1>12. NothingBefore'
    BY <1>1, <1>2, <1>10 DEF IInv, NothingBefore
  <1>13. \A p : Waited(p)' = Waited(p)
    BY <1>10 DEF Waited
  <1>14. TimesCounted'
    BY <1>1, <1>2, <1>3, <1>10, <1>13 DEF IInv, TimesCounted
  <1> QED BY <1>6, <1>8, <1>9, <1>11, <1>12, <1>14 DEF IInv

LEMMA FirstDataInv == ASSUME IInv, FirstData PROVE IInv'
  <1>0. VarTypes /\ OneWorker /\ ProcessingQueue
    BY DEF IInv
  <1>1. PICK j \in running["processing"] :
          /\ j.what = "first data"
          /\ \/ Ends("processing", j) /\ firstDataLock' \in {firstDataLock, 0}
             \/ Becomes("processing", j, To(j, "unlock")) /\ firstDataLock' = j.run
    BY DEF FirstData
  <1>2. UNCHANGED <<channel, countLock, pending, total, failed, persist, stored, broken, runs>>
    BY DEF FirstData
  <1>3. j \in Working /\ running["processing"] = {j} /\ j.run \in Run
    BY <1>0, WorkerFacts, RunsAre, QueuesAre
  <1>4. firstDataLock' \in Run \union {0}
    BY <1>0, <1>1, <1>3 DEF VarTypes
  <1>5. /\ running'["default"] = running["default"] /\ running' \in [Queues -> SUBSET Working]
        /\ \/ running'["processing"] = {}
           \/ \E k \in Working : running'["processing"] = {k} /\ k.what = "first data" /\ k.pc = "unlock"
    <2>1. CASE Ends("processing", j)
      BY <1>0, <1>3, <2>1, WorkerFacts, QueuesAre
    <2>2. CASE Becomes("processing", j, To(j, "unlock"))
      <3>1. To(j, "unlock") \in Working /\ To(j, "unlock").what = "first data" /\ To(j, "unlock").pc = "unlock"
        BY <1>1, <1>3, ToWorking
      <3>2. j \in running["processing"] /\ "processing" \in Queues
        BY <1>3, QueuesAre
      <3>3. /\ running'["processing"] = {To(j, "unlock")} /\ running' \in [Queues -> SUBSET Working]
            /\ \A p \in Queues : p # "processing" => running'[p] = running[p]
        BY <1>0, <2>2, <3>1, <3>2, WorkerFacts
      <3> QED BY <3>1, <3>3, QueuesAre
    <2> QED BY <1>1, <2>1, <2>2
  <1>6. VarTypes' /\ Bounded'
    BY <1>0, <1>2, <1>4, <1>5 DEF IInv, VarTypes, Bounded
  <1>7. OneWorker'
    BY <1>0, <1>5, QueuesAre DEF OneWorker
  <1>8. DefaultQueue' /\ LockHeld'
    BY <1>2, <1>5 DEF IInv, DefaultQueue, LockHeld
  <1>9. ProcessingQueue'
    BY <1>0, <1>2, <1>5 DEF ProcessingQueue
  <1>10. \A r, u : /\ Left(r, u)' <=> Left(r, u)
                   /\ Dispatching(r)' <=> Dispatching(r)
                   /\ Queued(r, u)' <=> Queued(r, u)
                   /\ ~ InHand(r, u) /\ ~ InHand(r, u)'
                   /\ Unstarted(r)' <=> Unstarted(r)
    BY <1>1, <1>2, <1>3, <1>5 DEF Left, Queued, InHand, IsCount, Dispatching, Unstarted
  <1>11. OnePlace'
    BY <1>2, <1>10 DEF IInv, OnePlace
  <1>12. NothingBefore'
    BY <1>2, <1>10 DEF IInv, NothingBefore
  <1>13. \A r : Waited(r)' = Waited(r)
    BY <1>10 DEF Waited
  <1>14. TimesCounted'
    BY <1>2, <1>5, <1>10, <1>13 DEF IInv, TimesCounted
  <1> QED BY <1>2, <1>6, <1>7, <1>8, <1>9, <1>11, <1>12, <1>14 DEF IInv, StoredWhole

LEMMA NextInv == ASSUME IInv, [Next]_vars PROVE IInv'
  <1>1. CASE UNCHANGED vars
    <2>1. UNCHANGED <<channel, running, countLock, firstDataLock, pending, total, failed, persist, stored, broken, runs>>
      BY <1>1 DEF vars
    <2>2. VarTypes' /\ OneWorker' /\ Bounded' /\ DefaultQueue' /\ LockHeld' /\ ProcessingQueue' /\ StoredWhole'
      <3>1. VarTypes' /\ OneWorker' /\ Bounded'
        BY <2>1 DEF IInv, VarTypes, OneWorker, Bounded
      <3>2. DefaultQueue'
        BY <2>1 DEF IInv, DefaultQueue
      <3>3. LockHeld' /\ StoredWhole'
        BY <2>1 DEF IInv, LockHeld, StoredWhole
      <3>4. ProcessingQueue'
        BY <2>1 DEF IInv, ProcessingQueue
      <3> QED BY <3>1, <3>2, <3>3, <3>4
    <2>3. \A r, u : /\ Left(r, u)' <=> Left(r, u)
                    /\ Dispatching(r)' <=> Dispatching(r)
                    /\ Queued(r, u)' <=> Queued(r, u)
                    /\ InHand(r, u)' <=> InHand(r, u)
                    /\ Unstarted(r)' <=> Unstarted(r)
      BY <2>1 DEF Left, Queued, InHand, Dispatching, Unstarted
    <2>4. OnePlace' /\ NothingBefore'
      BY <2>1, <2>3 DEF IInv, OnePlace, NothingBefore
    <2>5. \A r : Waited(r)' = Waited(r)
      BY <2>3 DEF Waited
    <2>6. TimesCounted'
      BY <2>1, <2>3, <2>5 DEF IInv, TimesCounted
    <2> QED BY <2>2, <2>4, <2>6 DEF IInv
  <1>2. ASSUME NEW q \in Queues, Take(q) PROVE IInv'
    BY <1>2, QueuesAre, TakeHourlyInv, TakeUserInv
  <1>3. ASSUME NEW r \in Run, Persist(r) PROVE IInv'
    BY <1>3, PersistInv
  <1> QED BY <1>1, <1>2, <1>3, TickInv, CountStartInv, CountDispatchInv, CountEndInv, CountUserInv,
             ComputeOldestInv, FirstDataInv DEF Next

----------------------------------------------------------------------------
(***************************************************************************)
(* Of every behaviour, for any finite set of users.                        *)
(***************************************************************************)
LEMMA Invariance == Spec => []IInv
  <1>1. Init => IInv
    BY InitInv
  <1>2. IInv /\ [Next]_vars => IInv'
    BY NextInv
  <1> QED BY <1>1, <1>2, PTL DEF Spec

\* No queue holds more than its channel takes or has more jobs running than workers, and no
\* wait group is told more often than it waits for.
THEOREM TypeCorrect == Spec => []TypeOK
  <1>1. IInv => TypeOK
    <2> SUFFICES ASSUME IInv PROVE TypeOK
      OBVIOUS
    <2>1. ASSUME NEW q \in Queues PROVE Len(channel[q]) <= Capacity /\ Cardinality(running[q]) <= Workers[q]
      <3>1. Workers[q] = 1
        BY OneWorkerEach
      <3>2. running[q] = {} \/ \E j : running[q] = {j}
        BY DEF IInv, OneWorker
      <3>3. Cardinality(running[q]) \in 0 .. 1
        <4>1. CASE running[q] = {}
          <5>1. Cardinality(running[q]) = 0
            BY <4>1, FS_EmptySet
          <5> QED BY <5>1
        <4>2. ASSUME NEW j, running[q] = {j} PROVE Cardinality(running[q]) \in 0 .. 1
          <5>1. Cardinality({j}) = 1
            BY FS_Singleton
          <5> QED BY <4>2, <5>1
        <4> QED BY <3>2, <4>1, <4>2
      <3> QED BY <3>1, <3>3 DEF IInv, Bounded
    <2>2. countLock \in 0 .. MaxRuns /\ firstDataLock \in 0 .. MaxRuns
      <3>1. countLock = 0 \/ countLock \in Run
        <4>1. \A j \in running["default"] : j.run \in Run
          BY QueuesAre, RunsAre DEF IInv, VarTypes
        <4> QED BY <4>1 DEF IInv, LockHeld
      <3>2. firstDataLock = 0 \/ firstDataLock \in Run
        BY DEF IInv, VarTypes
      <3> QED BY <3>1, <3>2, SizesAssumption DEF Run
    <2>3. ASSUME NEW r \in Run
          PROVE  pending[r] \in 0 .. Cardinality(Users) /\ total[r] \subseteq Users /\ failed[r] \subseteq Users
      <3>1. /\ Cardinality(Waited(r)) <= Cardinality(Users) /\ Cardinality(Users) \in Nat
            /\ Cardinality(Waited(r)) \in Nat
        BY FS_Subset, FS_CardinalityType, SizesAssumption DEF Waited
      <3> QED BY <3>1 DEF IInv, TimesCounted, VarTypes
    <2> QED BY <2>1, <2>2, <2>3 DEF TypeOK
  <1> QED BY <1>1, Invariance, PTL

\* Only the run that has the lock of the count unlocks it, and what is stored as the total
\* lacks the time of those users only whose count failed, also when the jobs of several runs
\* are in the queues at once.
THEOREM TotalsWhole == Spec => []CountsWhole
  <1>1. IInv => CountsWhole
    BY DEF IInv, LockHeld, StoredWhole, CountsWhole
  <1> QED BY <1>1, Invariance, PTL

----------------------------------------------------------------------------
(***************************************************************************)
(* The parts together: a behaviour of Server is one of each part, so that  *)
(* the theorems about the parts hold there.  MP, MP!V, MP!R, MP!P and MP!M *)
(* are the instances I, V, R, P and M with the theorems about them.        *)
(***************************************************************************)
MP == INSTANCE PartsProofs WITH Beats <- Heartbeats, table <- heartbeats, post <- request,
          reader <- fetch, lists <- table, viewer <- reader, relayed <- post

LEMMA ViewsInit == V!Init <=> MP!V!Init
  BY DEF V!Init, MP!V!Init, V!Lists, MP!V!Lists, V!Resting, MP!V!Resting, V!Ready, MP!V!Ready

LEMMA ViewsSteps == V!Next <=> MP!V!Next
  <1>1. \A r : V!InitializeUser(r) \/ V!Augment(r) \/ V!ReadOn(r)
               <=> MP!V!InitializeUser(r) \/ MP!V!Augment(r) \/ MP!V!ReadOn(r)
    BY DEF V!InitializeUser, MP!V!InitializeUser, V!Augment, MP!V!Augment, V!ReadOn, MP!V!ReadOn,
           V!StoreAliases, MP!V!StoreAliases, V!RetrieveRows, MP!V!RetrieveRows,
           V!WithResolvedAliases, MP!V!WithResolvedAliases, V!GetByUser, MP!V!GetByUser,
           V!FillList, MP!V!FillList, V!PutSummary, MP!V!PutSummary, V!At, MP!V!At, V!To, MP!V!To,
           V!Fault, MP!V!Fault, V!MayRead, MP!V!MayRead, V!Resting, MP!V!Resting
  <1>2. V!Write <=> MP!V!Write
    BY DEF V!Write, MP!V!Write, V!ForgetList, MP!V!ForgetList, V!NotifyUpdate, MP!V!NotifyUpdate,
           V!DeleteMulti, MP!V!DeleteMulti, V!UpdateCache, MP!V!UpdateCache, V!ChangeRows, MP!V!ChangeRows,
           V!Others, MP!V!Others, V!Ready, MP!V!Ready
  <1>3. V!Serve <=> MP!V!Serve
    BY DEF V!Serve, MP!V!Serve, V!ReloadQuery, MP!V!ReloadQuery, V!ReloadStore, MP!V!ReloadStore,
           V!InvalidateOnEvent, MP!V!InvalidateOnEvent
  <1>4. V!Begin <=> MP!V!Begin
    BY DEF V!Begin, MP!V!Begin, V!ChangeList, MP!V!ChangeList, V!AddAlias, MP!V!AddAlias,
           V!FindAliases, MP!V!FindAliases, V!InvalidateUserCache, MP!V!InvalidateUserCache,
           V!Change, MP!V!Change, V!MayWrite, MP!V!MayWrite, V!At, MP!V!At, V!Lists, MP!V!Lists,
           V!Others, MP!V!Others, V!Ready, MP!V!Ready
  <1>5. /\ V!ExpireSummary <=> MP!V!ExpireSummary
        /\ \A l : V!ExpireList(l) <=> MP!V!ExpireList(l)
        /\ V!Lists = MP!V!Lists
    BY DEF V!ExpireSummary, MP!V!ExpireSummary, V!ExpireList, MP!V!ExpireList, V!Lists, MP!V!Lists
  <1> QED BY <1>1, <1>2, <1>3, <1>4, <1>5 DEF V!Next, MP!V!Next

LEMMA IngestInit == I!Init <=> MP!Init
  BY DEF I!Init, MP!Init, I!Posts, MP!Posts, I!NoSet, MP!NoSet, I!Resting, MP!Resting

LEMMA IngestSteps == I!Next <=> MP!Next
  <1>1. \A p : I!Post(p) <=> MP!Post(p)
    BY DEF I!Post, MP!Post, I!Idle, MP!Idle, I!ReadsEnd, MP!ReadsEnd, I!NoSet, MP!NoSet, I!Projects, MP!Projects
  <1>2. (I!ReadQuery <=> MP!ReadQuery) /\ (I!Delete <=> MP!Delete)
    <2>1. (I!PostsEnd <=> MP!PostsEnd) /\ (I!ReadsEnd <=> MP!ReadsEnd)
      BY DEF I!PostsEnd, MP!PostsEnd, I!ReadsEnd, MP!ReadsEnd, I!Posts, MP!Posts, I!NoSet, MP!NoSet
    <2>2. I!Delete <=> MP!Delete
      BY <2>1 DEF I!Delete, MP!Delete
    <2>3. \A what : I!Miss(what) <=> MP!Miss(what)
      BY DEF I!Miss, MP!Miss, I!NoSet, MP!NoSet
    <2>4. I!Named(I!Projects(heartbeats)) = MP!Named(MP!Projects(heartbeats))
      BY DEF I!Named, MP!Named, I!Projects, MP!Projects
    <2>5. I!Cardinality(heartbeats) = MP!Cardinality(heartbeats)
      BY DEF I!Cardinality, MP!Cardinality
    <2>6. I!InStats(heartbeats) = MP!InStats(heartbeats)
      BY DEF I!InStats, MP!InStats, I!Named, MP!Named, I!Projects, MP!Projects
    <2>7. I!ReadQuery <=> MP!ReadQuery
      BY <2>1, <2>3, <2>4, <2>5, <2>6 DEF I!ReadQuery, MP!ReadQuery
    <2> QED BY <2>2, <2>7
  <1>3. I!Server <=> MP!Server
    BY DEF I!Server, MP!Server, I!InsertBatch, MP!InsertBatch, I!UpdateEntity, MP!UpdateEntity,
           I!OnHeartbeat, MP!OnHeartbeat, I!ReadPut, MP!ReadPut, I!Populate, MP!Populate, I!Flush, MP!Flush,
           I!Posts, MP!Posts, I!NoSet, MP!NoSet, I!Named, MP!Named, I!Projects, MP!Projects,
           I!Resting, MP!Resting
  <1>4. (I!CountExpires <=> MP!CountExpires) /\ (I!StatsExpire <=> MP!StatsExpire) /\ I!Posts = MP!Posts
    BY DEF I!CountExpires, MP!CountExpires, I!StatsExpire, MP!StatsExpire, I!NoSet, MP!NoSet, I!Posts, MP!Posts
  <1> QED BY <1>1, <1>2, <1>3, <1>4 DEF I!Next, MP!Next

LEMMA RelayInit == R!Init <=> MP!R!Init
  BY DEF R!Init, MP!R!Init, R!Posts, MP!R!Posts, R!NoOrigin, MP!R!NoOrigin, R!Gone, MP!R!Gone

LEMMA RelaySteps == R!Next <=> MP!R!Next
  <1>1. \A p : R!Client(p) <=> MP!R!Client(p)
    BY DEF R!Client, MP!R!Client, R!Arrived, MP!R!Arrived, R!At, MP!R!At, R!Cardinality,
           MP!R!Cardinality, R!NoOrigin, MP!R!NoOrigin
  <1>2. \A p : R!Relaying(p) <=> MP!R!Relaying(p)
    <2>1. \A p : (R!ServeOnly(p) <=> MP!R!ServeOnly(p)) /\ (R!Relayed(p) <=> MP!R!Relayed(p))
      BY DEF R!ServeOnly, MP!R!ServeOnly, R!Relayed, MP!R!Relayed, R!At, MP!R!At, R!HandOn,
             MP!R!HandOn, R!Self, MP!R!Self, R!Gone, MP!R!Gone, R!NoOrigin, MP!R!NoOrigin
    <2>2. \A p : (R!Look(p) <=> MP!R!Look(p)) /\ (R!SetKnown(p) <=> MP!R!SetKnown(p))
      BY DEF R!Look, MP!R!Look, R!SetKnown, MP!R!SetKnown, R!At, MP!R!At, R!Filtering, MP!R!Filtering,
             R!Self, MP!R!Self
    <2>3. \A p : R!Send(p) <=> MP!R!Send(p)
      BY DEF R!Send, MP!R!Send, R!At, MP!R!At, R!Arrived, MP!R!Arrived, R!Fault, MP!R!Fault, R!Self,
             MP!R!Self, R!Gone, MP!R!Gone, R!NoOrigin, MP!R!NoOrigin
    <2> QED BY <2>1, <2>2, <2>3 DEF R!Relaying, MP!R!Relaying
  <1>3. (R!LookFailures <=> MP!R!LookFailures) /\ (R!ZeroFailures <=> MP!R!ZeroFailures)
        /\ (R!CountFailure <=> MP!R!CountFailure) /\ (R!Forget <=> MP!R!Forget)
    BY DEF R!LookFailures, MP!R!LookFailures, R!ZeroFailures, MP!R!ZeroFailures, R!CountFailure,
           MP!R!CountFailure, R!Forget, MP!R!Forget, R!Posts, MP!R!Posts
  <1>4. (\A s : R!Restart(s) <=> MP!R!Restart(s)) /\ R!Posts = MP!R!Posts
    BY DEF R!Restart, MP!R!Restart, R!Fault, MP!R!Fault, R!Gone, MP!R!Gone, R!NoOrigin, MP!R!NoOrigin,
           R!Posts, MP!R!Posts
  <1> QED BY <1>1, <1>2, <1>3, <1>4 DEF R!Next, MP!R!Next

LEMMA ImportInit == P!Init <=> MP!P!Init
  BY DEF P!Init, MP!P!Init, P!Imports, MP!P!Imports, P!Unasked, MP!P!Unasked, P!Free, MP!P!Free

LEMMA ImportSteps == P!Next <=> MP!P!Next
  <1>1. \A i : P!Request(i) <=> MP!P!Request(i)
    BY DEF P!Request, MP!P!Request, P!At, MP!P!At
  <1>2. \A i : P!Goroutine(i) <=> MP!P!Goroutine(i)
    BY DEF P!Goroutine, MP!P!Goroutine, P!Begin, MP!P!Begin, P!MarkSuccess, MP!P!MarkSuccess, P!Insert,
           MP!P!Insert, P!Latest, MP!P!Latest, P!At, MP!P!At, P!Fault, MP!P!Fault, P!Cardinality,
           MP!P!Cardinality
  <1>3. (P!PutLastImport <=> MP!P!PutLastImport) /\ (P!KeysExpire <=> MP!P!KeysExpire)
        /\ (P!Tick <=> MP!P!Tick) /\ (P!Complete <=> MP!P!Complete) /\ P!Imports = MP!P!Imports
    BY DEF P!PutLastImport, MP!P!PutLastImport, P!KeysExpire, MP!P!KeysExpire, P!Tick, MP!P!Tick,
           P!Complete, MP!P!Complete, P!Imports, MP!P!Imports, P!At, MP!P!At, P!Fault, MP!P!Fault
  <1>4. P!Worker <=> MP!P!Worker
    <2>1. (P!TakeJob <=> MP!P!TakeJob) /\ (P!StartDays <=> MP!P!StartDays) /\ (P!FetchDay <=> MP!P!FetchDay)
      BY DEF P!TakeJob, MP!P!TakeJob, P!StartDays, MP!P!StartDays, P!FetchDay, MP!P!FetchDay, P!Free,
             MP!P!Free, P!Beats, MP!P!Beats, P!DayOfBeat, MP!P!DayOfBeat, P!Fault, MP!P!Fault
    <2>2. (P!SendOfDay <=> MP!P!SendOfDay) /\ (P!DayDone <=> MP!P!DayDone)
      BY DEF P!SendOfDay, MP!P!SendOfDay, P!DayDone, MP!P!DayDone, P!CanReceive, MP!P!CanReceive, P!At,
             MP!P!At, P!Cardinality, MP!P!Cardinality, P!DayOfBeat, MP!P!DayOfBeat, P!First,
             MP!P!First, P!Free, MP!P!Free
    <2>3. (P!Poll <=> MP!P!Poll) /\ (P!Stream <=> MP!P!Stream)
      BY DEF P!Poll, MP!P!Poll, P!Stream, MP!P!Stream, P!CanReceive, MP!P!CanReceive, P!At, MP!P!At,
             P!Cardinality, MP!P!Cardinality, P!Beats, MP!P!Beats, P!First, MP!P!First, P!Free,
             MP!P!Free, P!Fault, MP!P!Fault
    <2> QED BY <2>1, <2>2, <2>3 DEF P!Worker, MP!P!Worker
  <1> QED BY <1>1, <1>2, <1>3, <1>4 DEF P!Next, MP!P!Next

LEMMA MigrationsInit == M!Init <=> MP!M!Init
  BY DEF M!Init, MP!M!Init, M!Removes, MP!M!Removes, M!Pre, MP!M!Pre, M!Post, MP!M!Post, M!OfMySQL,
         MP!M!OfMySQL, M!Last, MP!M!Last

LEMMA MigrationSteps == M!Next <=> MP!M!Next
  <1>1. (M!Start <=> MP!M!Start) /\ (M!Crash <=> MP!M!Crash) /\ (M!Choose <=> MP!M!Choose)
        /\ (M!Stop <=> MP!M!Stop) /\ (M!AutoMigrate <=> MP!M!AutoMigrate)
    BY DEF M!Start, MP!M!Start, M!Crash, MP!M!Crash, M!Choose, MP!M!Choose, M!Stop, MP!M!Stop,
           M!AutoMigrate, MP!M!AutoMigrate, M!Migrating, MP!M!Migrating, M!Last, MP!M!Last, M!Fields,
           MP!M!Fields, M!Fault, MP!M!Fault, M!Advance, MP!M!Advance
  <1>2. (M!Conditions <=> MP!M!Conditions) /\ (M!Mark <=> MP!M!Mark)
    BY DEF M!Conditions, MP!M!Conditions, M!Mark, MP!M!Mark, M!Migrating, MP!M!Migrating, M!Current,
           MP!M!Current, M!Last, MP!M!Last, M!Fault, MP!M!Fault, M!Advance, MP!M!Advance
  <1>3. M!Execute <=> MP!M!Execute
    BY DEF M!Execute, MP!M!Execute, M!Migrating, MP!M!Migrating, M!Current, MP!M!Current, M!Last,
           MP!M!Last, M!Fault, MP!M!Fault
  <1> QED BY <1>1, <1>2, <1>3 DEF M!Next, MP!M!Next, M!Run, MP!M!Run

\* Each part takes a step of its own, or rests.
LEMMA PartsStep ==
  ASSUME [AllNext]_allVars
  PROVE  /\ [Next]_vars /\ [MP!V!Next]_(MP!V!vars) /\ [MP!Next]_(MP!vars)
         /\ [MP!R!Next]_(MP!R!vars) /\ [MP!P!Next]_(MP!P!vars) /\ [MP!M!Next]_(MP!M!vars)
  <1> USE DEF retrievalVars, viewVars, ingestVars, relayVars, importVars, migrationVars,
              MP!V!vars, MP!vars, MP!R!vars, MP!P!vars, MP!M!vars
  <1>1. CASE Retrieving /\ T!Next
    BY <1>1 DEF Retrieving
  <1>2. CASE Viewing /\ V!Next
    BY <1>2, ViewsSteps DEF Viewing
  <1>3. CASE Ingesting /\ I!Next
    BY <1>3, IngestSteps DEF Ingesting
  <1>4. CASE Relaying /\ R!Next
    BY <1>4, RelaySteps DEF Relaying
  <1>5. CASE Importing /\ P!Next
    BY <1>5, ImportSteps DEF Importing
  <1>6. CASE Serving /\ Next
    BY <1>6 DEF Serving
  <1>7. CASE Migrating /\ M!Next
    BY <1>7, MigrationSteps DEF Migrating
  <1>8. CASE UNCHANGED allVars
    BY <1>8 DEF allVars, vars
  <1> QED BY <1>1, <1>2, <1>3, <1>4, <1>5, <1>6, <1>7, <1>8 DEF AllNext

THEOREM PartsOfServer ==
    AllSpec => Spec /\ MP!V!Spec /\ MP!Spec /\ MP!R!Spec /\ MP!P!Spec /\ MP!M!Spec
  <1>1. AllInit => Init /\ MP!V!Init /\ MP!Init /\ MP!R!Init /\ MP!P!Init /\ MP!M!Init
    BY ViewsInit, IngestInit, RelayInit, ImportInit, MigrationsInit DEF AllInit
  <1>2. [AllNext]_allVars => /\ [Next]_vars /\ [MP!V!Next]_(MP!V!vars) /\ [MP!Next]_(MP!vars)
                             /\ [MP!R!Next]_(MP!R!vars) /\ [MP!P!Next]_(MP!P!vars)
                             /\ [MP!M!Next]_(MP!M!vars)
    BY PartsStep
  <1> QED BY <1>1, <1>2, PTL DEF AllSpec, Spec, MP!V!Spec, MP!Spec, MP!R!Spec, MP!P!Spec, MP!M!Spec

\* A behaviour is of one of the parts.
InSomePart == part \in {"retrieval", "views", "ingest", "relay", "import", "jobs", "migrations"}

\* The server's run: every variable of each part stays within its type, whatever fails and
\* overlaps (but of retrieval, whose rows are what folds return: TLC checks that).
THEOREM PartsTyped ==
    ASSUME MP!Bounds, MP!RelaySizes, MP!ImportSizes, MP!M!ListFits
    PROVE  AllSpec => [](part # "retrieval" => AllTypesOK)
  <1>1. AllInit => InSomePart
    BY DEF AllInit, InSomePart
  <1>2. InSomePart /\ [AllNext]_allVars => InSomePart'
    BY DEF InSomePart, AllNext, allVars, Retrieving, Viewing, Ingesting, Relaying, Importing, Serving,
           Migrating
  <1>3. MP!V!TypeOK => V!TypeOK
    BY DEF V!TypeOK, MP!V!TypeOK, V!Contents, MP!V!Contents, V!Lists, MP!V!Lists
  <1>4. MP!TypeOK => I!TypeOK
    <2>1. I!Posts = MP!Posts /\ I!NoSet = MP!NoSet
      BY DEF I!Posts, MP!Posts, I!NoSet, MP!NoSet
    <2>2. /\ I!Cardinality(Heartbeats) = MP!Cardinality(Heartbeats)
          /\ I!Cardinality(I!Posts) = MP!Cardinality(MP!Posts)
      BY <2>1 DEF I!Cardinality, MP!Cardinality
    <2>3. \A S : I!Projects(S) = MP!Projects(S)
      BY DEF I!Projects, MP!Projects
    <2>4. I!Sets = MP!Sets
      BY <2>1, <2>3 DEF I!Sets, MP!Sets
    <2> QED BY <2>1, <2>2, <2>3, <2>4 DEF I!TypeOK, MP!TypeOK
  <1>5. MP!R!TypeOK => R!TypeOK
    BY DEF R!TypeOK, MP!R!TypeOK, R!Posts, MP!R!Posts
  <1>6. MP!P!TypeOK => P!TypeOK
    <2>1. P!Imports = MP!P!Imports /\ P!Beats = MP!P!Beats /\ \A b : P!DayOfBeat(b) = MP!P!DayOfBeat(b)
      BY DEF P!Imports, MP!P!Imports, P!Beats, MP!P!Beats, P!DayOfBeat, MP!P!DayOfBeat
    <2>2. \A S : P!Cardinality(S) = MP!P!Cardinality(S)
      BY DEF P!Cardinality, MP!P!Cardinality
    <2> QED BY <2>1, <2>2 DEF P!TypeOK, MP!P!TypeOK
  <1>7. MP!M!TypeOK => M!TypeOK
    BY DEF M!TypeOK, MP!M!TypeOK, M!Removes, MP!M!Removes, M!Fields, MP!M!Fields, M!Last, MP!M!Last,
           M!Migrating, MP!M!Migrating
  <1>8. (InSomePart /\ part # "retrieval" /\ TypeOK /\ V!TypeOK /\ I!TypeOK /\ R!TypeOK /\ P!TypeOK
           /\ M!TypeOK) => AllTypesOK
    <2> SUFFICES ASSUME InSomePart, part # "retrieval", TypeOK, V!TypeOK, I!TypeOK, R!TypeOK, P!TypeOK,
                        M!TypeOK
                 PROVE  AllTypesOK
      OBVIOUS
    <2>1. CASE part = "views"
      BY <2>1 DEF AllTypesOK
    <2>2. CASE part = "ingest"
      BY <2>2 DEF AllTypesOK
    <2>3. CASE part = "relay"
      BY <2>3 DEF AllTypesOK
    <2>4. CASE part = "import"
      BY <2>4 DEF AllTypesOK
    <2>5. CASE part = "jobs"
      BY <2>5 DEF AllTypesOK
    <2>6. CASE part = "migrations"
      BY <2>6 DEF AllTypesOK
    <2> QED BY <2>1, <2>2, <2>3, <2>4, <2>5, <2>6 DEF InSomePart
  <1>9. AllSpec => []InSomePart
    BY <1>1, <1>2, PTL DEF AllSpec
  <1> QED BY <1>3, <1>4, <1>5, <1>6, <1>7, <1>8, <1>9, PartsOfServer, TypeCorrect, MP!ViewsTyped,
             MP!HeartbeatsTyped, MP!RelayTyped, MP!ImportTyped, MP!MigrationsTyped, PTL

\* The server's run: as long as no reader overlaps with a change and no query fails, a cached
\* summary and the cached lists are as the tables are.
THEOREM CachesCurrent == AllSpec => []CachedIsCurrent
  <1>1. MP!V!CachedIsCurrent => CachedIsCurrent
    BY DEF CachedIsCurrent, V!CachedIsCurrent, MP!V!CachedIsCurrent, V!Quiet, MP!V!Quiet, V!At, MP!V!At,
           V!Lists, MP!V!Lists
  <1> QED BY <1>1, PartsOfServer, MP!ViewsCurrent, PTL

\* The server's run: as long as reads do not overlap with posts and deletions, the set of
\* projects in memory has every project of the table, and the stats have every project of
\* which they count all heartbeats.
THEOREM ProjectsThere == ASSUME MP!Bounds PROVE AllSpec => []ProjectsComplete
  <1>1. MP!ProjectsComplete => ProjectsComplete
    BY DEF ProjectsComplete, I!ProjectsComplete, MP!ProjectsComplete, I!PostsEnd, MP!PostsEnd,
           I!ReadsEnd, MP!ReadsEnd, I!Posts, MP!Posts, I!NoSet, MP!NoSet, I!Named, MP!Named,
           I!WhollyCounted, MP!WhollyCounted, I!InStats, MP!InStats, I!Projects, MP!Projects
  <1> QED BY <1>1, PartsOfServer, MP!NoProjectMissing, PTL

\* The server's run: when no request was lost or refused and no server restarted, and all posts
\* have ended, what each server handled the one behind it has handled too.
THEOREM RelayedThere == ASSUME MP!RelaySizes PROVE AllSpec => []MP!AllHanded
  BY PartsOfServer, MP!RelayedWhole, PTL

\* The server's run: when nothing failed and all imports have ended, one of them done, the table
\* has all of WakaTime's heartbeats.
THEOREM ImportedThere == ASSUME MP!ImportSizes PROVE AllSpec => []MP!AllImported
  BY PartsOfServer, MP!ImportsWhole, PTL

\* The server's run: when the server serves there is a schema in which nothing is missing, and
\* no start has set again what users have set, but for badges_enabled and lost marks.
THEOREM MigratedWhole ==
    ASSUME MP!M!ListFits PROVE AllSpec => [](MP!ServesWithSchema /\ MP!ChoicesStay)
  BY PartsOfServer, MP!SchemaServed, MP!ChoicesKept, PTL
=============================================================================
