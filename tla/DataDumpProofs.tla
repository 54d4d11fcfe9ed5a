--------------------------- MODULE DataDumpProofs ---------------------------
(***************************************************************************)
(* Proofs about DataDump for every number of users, exports, requests and  *)
(* workers, any threshold and expiry, and any number of failing calls and  *)
(* crashes.                                                                *)
(***************************************************************************)
EXTENDS DataDump, TLAPS

\* An export is queued at most once, and only before its job has begun.
QueuedOnce ==
    /\ \A i \in DOMAIN queue : stage[queue[i]] = "queued"
    /\ \A i, j \in DOMAIN queue : queue[i] = queue[j] => i = j

\* A job that is queued or running has its copy of the row, and the
\* housekeeping job has one of each row it has yet to mark.
CopiesHeld ==
    /\ \A d \in Active : mem[d] \in Row
    /\ hk.pc = "mark" => \A d \in hk.todo : hk.copy[d] \in Row

TInv == TypeOK /\ QueuedOnce /\ CopiesHeld

\* A row is there for each export whose job lives, it is as old as the job's
\* copy, and it has not expired.
JobsHaveRows ==
    \A d \in Active : /\ rows[d] \in Row
                      /\ rows[d].created = mem[d].created
                      /\ clock <= rows[d].created + ExpireAfter

\* What the housekeeping job goes through has its row, as old as the copy...
MarkedHaveRows ==
    hk.pc = "mark" => \A d \in hk.todo : /\ rows[d] \in Row
                                         /\ rows[d].created = hk.copy[d].created

\* ... and what it removes has no living job; a row goes after its file.
CleanedAreDead ==
    /\ hk.pc \in {"clean", "row"} =>
          hk.todo \subseteq Stored \ Active
    /\ hk.current # {} => hk.pc = "row"
    /\ hk.current \subseteq Stored \ (Active \union objects \union hk.todo)

FilesHaveRows == objects \subseteq Stored

FreshHaveNone == \A d \in Dumps : stage[d] = "unused" => rows[d] = NoRow

NobodyClears == \A u \in Users : clearer[u].pc = "idle"

SInv == /\ JobsHaveRows /\ MarkedHaveRows /\ CleanedAreDead
        /\ FilesHaveRows /\ FreshHaveNone /\ NobodyClears

----------------------------------------------------------------------------
LEMMA InitTypes == Init => TInv
  <1>1. NoRows \in [Dumps -> MaybeRow]
    BY DEF NoRows, MaybeRow
  <1> QED
    BY <1>1 DEF Init, TInv, TypeOK, QueuedOnce, CopiesHeld, Active, Running, Stage,
                IdleHk, IdleClearer, NoRows, HkState, ClearState

\* Save leaves the table and the count of failures in their types.
LEMMA SaveTypes ==
  ASSUME TypeOK, NEW d \in Dumps, NEW r \in MaybeRow, Save(d, r)
  PROVE  rows' \in [Dumps -> MaybeRow] /\ faults' \in Nat
  BY DEF Save, TypeOK, Fault

\* A step of a job that is not waiting in the queue.
LEMMA ChangeTypes ==
  ASSUME TInv, NEW d \in Dumps, NEW r \in Row, NEW next \in Stage,
         stage[d] \in Running, Change(d, r, next), UNCHANGED queue
  PROVE  TInv'
  <1>1. TypeOK'
    <2>1. r \in MaybeRow
      BY DEF MaybeRow
    <2>2. rows' \in [Dumps -> MaybeRow] /\ faults' \in Nat
      BY <2>1, SaveTypes DEF Change, TInv
    <2> QED BY <2>1, <2>2 DEF TInv, TypeOK, Change
  <1>2. QueuedOnce'
    BY DEF TInv, TypeOK, QueuedOnce, Change, Running
  <1>3. CopiesHeld'
    BY DEF TInv, TypeOK, CopiesHeld, Change, Active
  <1> QED BY <1>1, <1>2, <1>3 DEF TInv

\* A step of a job that only moves it on.
LEMMA StageTypes ==
  ASSUME TInv, NEW d \in Dumps, NEW next \in Stage, stage[d] \in Running,
         stage' = [stage EXCEPT ![d] = next], objects' \subseteq Dumps, faults' \in Nat,
         UNCHANGED <<clock, rows, req, queue, mem, hk, clearer, crashes, clears>>
  PROVE  TInv'
  <1>1. TypeOK'
    BY DEF TInv, TypeOK
  <1>2. QueuedOnce'
    BY DEF TInv, TypeOK, QueuedOnce, Running
  <1>3. CopiesHeld'
    BY DEF TInv, TypeOK, CopiesHeld, Active
  <1> QED BY <1>1, <1>2, <1>3 DEF TInv

LEMMA BeginTypes == ASSUME TInv, NEW d \in Dumps, Begin(d) PROVE TInv'
  <1> DEFINE r == [mem[d] EXCEPT !.status = "processing"]
  <1>1. queue \in Seq(Dumps) /\ queue # <<>> /\ d = queue[1] /\ stage[d] = "queued"
    BY DEF TInv, TypeOK, Begin, QueuedOnce
  <1>2. mem[d] \in Row /\ r \in Row /\ r \in MaybeRow
    BY <1>1 DEF TInv, CopiesHeld, Active, Row, MaybeRow
  <1>3. /\ queue' \in Seq(Dumps) /\ Len(queue') = Len(queue) - 1
        /\ \A i \in DOMAIN queue' : queue'[i] = queue[i + 1] /\ i + 1 \in DOMAIN queue
    BY <1>1 DEF Begin
  <1> HIDE DEF r
  <1>4. Change(d, r, "started")
    BY DEF Begin, r
  <1>5. TypeOK'
    <2>1. rows' \in [Dumps -> MaybeRow] /\ faults' \in Nat
      BY <1>2, <1>4, SaveTypes DEF Change, TInv
    <2> QED BY <1>2, <1>3, <1>4, <2>1 DEF TInv, TypeOK, Change, Stage, Running
  <1>6. QueuedOnce'
    <2>1. ASSUME NEW i \in DOMAIN queue' PROVE stage'[queue'[i]] = "queued"
      <3>1. queue[i + 1] # queue[1] /\ stage[queue[i + 1]] = "queued" /\ queue[i + 1] \in Dumps
        BY <1>1, <1>3, <2>1 DEF TInv, QueuedOnce
      <3> QED BY <1>1, <1>3, <1>4, <2>1, <3>1 DEF Change, TInv, TypeOK
    <2>2. ASSUME NEW i \in DOMAIN queue', NEW j \in DOMAIN queue', queue'[i] = queue'[j]
          PROVE  i = j
      <3>1. i \in Nat /\ j \in Nat
        BY <1>3
      <3>2. i + 1 = j + 1
        BY <1>3, <2>2 DEF TInv, QueuedOnce
      <3> QED BY <3>1, <3>2
    <2> QED BY <2>1, <2>2 DEF QueuedOnce
  <1>7. CopiesHeld'
    BY <1>2, <1>4 DEF TInv, TypeOK, CopiesHeld, Change, Active
  <1> QED BY <1>5, <1>6, <1>7 DEF TInv

LEMMA JobTypes == ASSUME TInv, NEW d \in Dumps, JobStep(d) PROVE TInv'
  <1>1. CASE Begin(d)
    BY <1>1, BeginTypes
  <1>2. ASSUME stage[d] \in Running
        PROVE  /\ [mem[d] EXCEPT !.status = "uploading"] \in Row
               /\ [mem[d] EXCEPT !.status = "completed", !.processing = FALSE] \in Row
               /\ [mem[d] EXCEPT !.status = "completed", !.processing = FALSE,
                                 !.failed = TRUE] \in Row
    <2>1. mem[d] \in Row
      BY <1>2 DEF TInv, CopiesHeld, Active
    <2> QED BY <2>1 DEF Row
  <1>3. CASE StartUpload(d)
    <2>1. stage[d] \in Running /\ "uploading" \in Stage
      BY <1>3 DEF StartUpload, Running, Stage
    <2> QED BY <1>2, <1>3, <2>1, ChangeTypes DEF StartUpload
  <1>4. CASE CannotUpload(d)
    <2>1. stage[d] \in Running /\ "failing" \in Stage
      BY <1>4 DEF CannotUpload, Running, Stage
    <2>2. faults' \in Nat /\ objects' \subseteq Dumps
      BY <1>4 DEF CannotUpload, Fault, TInv, TypeOK
    <2> QED BY <1>4, <2>1, <2>2, StageTypes DEF CannotUpload
  <1>5. CASE Upload(d)
    <2>1. stage[d] \in Running /\ "uploaded" \in Stage /\ "failing" \in Stage
      BY <1>5 DEF Upload, Running, Stage
    <2>2. faults' \in Nat /\ objects' \subseteq Dumps
      BY <1>5 DEF Upload, Fault, TInv, TypeOK
    <2>3. PICK next \in Stage : stage' = [stage EXCEPT ![d] = next]
      BY <1>5, <2>1 DEF Upload
    <2> QED BY <1>5, <2>1, <2>2, <2>3, StageTypes DEF Upload
  <1>6. CASE Finish(d)
    <2>1. stage[d] \in Running /\ "ended" \in Stage
      BY <1>6 DEF Finish, Running, Stage
    <2> QED BY <1>2, <1>6, <2>1, ChangeTypes DEF Finish
  <1>7. CASE Fail(d)
    <2>1. stage[d] \in Running /\ "ended" \in Stage
      BY <1>7 DEF Fail, Running, Stage
    <2> QED BY <1>2, <1>7, <2>1, ChangeTypes DEF Fail
  <1> QED BY <1>1, <1>3, <1>4, <1>5, <1>6, <1>7 DEF JobStep

LEMMA CreateTypes ==
  ASSUME TInv, NEW r \in Reqs,
         (\E u \in Users : CheckExisting(r, u)) \/ (\E d \in Dumps : InsertDump(r, d))
  PROVE  TInv'
  <1>1. CASE \E u \in Users : CheckExisting(r, u)
    <2> PICK u \in Users : CheckExisting(r, u)
      BY <1>1
    <2>1. TypeOK'
      BY DEF TInv, TypeOK, CheckExisting, used
    <2>2. QueuedOnce' /\ CopiesHeld'
      BY DEF TInv, QueuedOnce, CopiesHeld, Active, CheckExisting
    <2> QED BY <2>1, <2>2 DEF TInv
  <1>2. ASSUME NEW d \in Dumps, InsertDump(r, d) PROVE TInv'
    <2>1. PICK u \in Users :
            /\ clock <= LastPost /\ stage[d] = "unused"
            /\ req' = [req EXCEPT ![r] = {}]
            /\ UNCHANGED <<clock, objects, hk, clearer, crashes, clears>>
            /\ \/ LET new == [user |-> u, status |-> "pending", processing |-> TRUE,
                               stuck |-> FALSE, failed |-> FALSE, created |-> clock]
                  IN /\ rows' = [rows EXCEPT ![d] = new]
                     /\ mem' = [mem EXCEPT ![d] = new]
                     /\ stage' = [stage EXCEPT ![d] = "queued"]
                     /\ queue' = Append(queue, d)
                     /\ UNCHANGED faults
               \/ Fault /\ UNCHANGED <<rows, mem, stage, queue>>
      BY <1>2 DEF InsertDump, TInv, TypeOK
    <2> DEFINE new == [user |-> u, status |-> "pending", processing |-> TRUE,
                       stuck |-> FALSE, failed |-> FALSE, created |-> clock]
    <2>2. new \in Row /\ new \in MaybeRow
      BY DEF TInv, TypeOK, Row, MaybeRow
    <2> HIDE DEF new
    <2>3. CASE UNCHANGED <<rows, mem, stage, queue>> /\ Fault
      <3>1. TypeOK'
        BY <2>1, <2>3 DEF TInv, TypeOK, Fault
      <3>2. QueuedOnce' /\ CopiesHeld'
        BY <2>1, <2>3 DEF TInv, QueuedOnce, CopiesHeld, Active
      <3> QED BY <3>1, <3>2 DEF TInv
    <2>4. CASE /\ rows' = [rows EXCEPT ![d] = new]
               /\ mem' = [mem EXCEPT ![d] = new]
               /\ stage' = [stage EXCEPT ![d] = "queued"]
               /\ queue' = Append(queue, d)
               /\ UNCHANGED faults
      <3>1. TypeOK'
        <4>1. queue' \in Seq(Dumps) /\ stage' \in [Dumps -> Stage] /\ req' \in [Reqs -> SUBSET Users]
          BY <2>1, <2>4 DEF TInv, TypeOK, Stage
        <4> QED BY <2>1, <2>2, <2>4, <4>1 DEF TInv, TypeOK
      <3>2. QueuedOnce'
        <4>1. /\ queue \in Seq(Dumps) /\ stage \in [Dumps -> Stage]
              /\ \A i \in DOMAIN queue : queue[i] # d /\ stage[queue[i]] = "queued"
          BY <2>1 DEF TInv, TypeOK, QueuedOnce
        <4>2. \A i \in DOMAIN queue' :
                 \/ i \in DOMAIN queue /\ queue'[i] = queue[i]
                 \/ i = Len(queue) + 1 /\ queue'[i] = d
          BY <2>4, <4>1
        <4>3. ASSUME NEW i \in DOMAIN queue' PROVE stage'[queue'[i]] = "queued"
          BY <2>4, <4>1, <4>2
        <4>4. ASSUME NEW i \in DOMAIN queue', NEW j \in DOMAIN queue', queue'[i] = queue'[j]
              PROVE  i = j
          BY <4>1, <4>2, <4>4 DEF TInv, QueuedOnce
        <4> QED BY <4>3, <4>4 DEF QueuedOnce
      <3>3. CopiesHeld'
        BY <2>1, <2>2, <2>4 DEF TInv, TypeOK, CopiesHeld, Active
      <3> QED BY <3>1, <3>2, <3>3 DEF TInv
    <2> QED BY <2>1, <2>3, <2>4 DEF new
  <1> QED BY <1>1, <1>2

LEMMA HousekeepingTypes == ASSUME TInv, HousekeepingStep PROVE TInv'
  <1> USE DEF TInv
  <1>1. ASSUME NEW found \in SUBSET Stored, ReadForMarking(found) PROVE TInv'
    <2>1. \A d \in found : d \in Dumps /\ rows[d] \in Row
      BY <1>1 DEF Stored, TypeOK, MaybeRow
    <2> DEFINE copy == [d \in Dumps |-> IF d \in found THEN rows[d] ELSE NoRow]
    <2>2. copy \in [Dumps -> MaybeRow] /\ \A d \in found : copy[d] \in Row
      BY <2>1 DEF MaybeRow
    <2> HIDE DEF copy
    <2>3. hk' = [pc |-> "mark", todo |-> found, current |-> {}, copy |-> copy]
      BY <1>1 DEF ReadForMarking, copy
    <2>4. TypeOK'
      BY <1>1, <2>1, <2>2, <2>3 DEF ReadForMarking, hkRest, TypeOK, HkState
    <2>5. QueuedOnce'
      BY <1>1 DEF ReadForMarking, hkRest, QueuedOnce
    <2>6. CopiesHeld'
      BY <1>1, <2>2, <2>3 DEF ReadForMarking, hkRest, CopiesHeld, Active
    <2> QED BY <2>4, <2>5, <2>6
  <1>2. ASSUME NEW found \in SUBSET Stored, ReadForCleanup(found) PROVE TInv'
    <2>1. hk' = [pc |-> "clean", todo |-> found, current |-> {}, copy |-> NoRows]
      BY <1>2 DEF ReadForCleanup, IdleHk
    <2>2. NoRows \in [Dumps -> MaybeRow] /\ found \subseteq Dumps
      BY DEF NoRows, MaybeRow, Stored
    <2>3. TypeOK'
      BY <1>2, <2>1, <2>2 DEF ReadForCleanup, hkRest, TypeOK, HkState
    <2>4. QueuedOnce'
      BY <1>2 DEF ReadForCleanup, hkRest, QueuedOnce
    <2>5. CopiesHeld'
      BY <1>2, <2>1 DEF ReadForCleanup, hkRest, CopiesHeld, Active
    <2> QED BY <2>3, <2>4, <2>5
  <1>3. ASSUME NEW d \in Dumps, MarkStuck(d) PROVE TInv'
    <2>1. hk.pc = "mark" /\ d \in hk.todo /\ hk.copy[d] \in Row
      BY <1>3 DEF MarkStuck, CopiesHeld
    <2>2. [hk.copy[d] EXCEPT !.stuck = TRUE] \in MaybeRow
      BY <2>1 DEF Row, MaybeRow
    <2>3. NoRows \in [Dumps -> MaybeRow] /\ NoRow \in MaybeRow
      BY DEF NoRows, MaybeRow
    <2>4. hk \in HkState
      BY DEF TypeOK
    <2>5. hk' \in HkState /\ \A e \in hk'.todo : e \in hk.todo /\ hk'.copy[e] = hk.copy[e]
      <3>1. CASE hk' = [hk EXCEPT !.todo = @ \ {d}, !.copy[d] = NoRow]
        <4>1. /\ hk'.pc = hk.pc /\ hk'.todo = hk.todo \ {d} /\ hk'.current = hk.current
              /\ hk'.copy = [hk.copy EXCEPT ![d] = NoRow]
              /\ hk' = [pc |-> hk'.pc, todo |-> hk'.todo, current |-> hk'.current,
                        copy |-> hk'.copy]
          BY <3>1, <2>4 DEF HkState
        <4>2. [hk.copy EXCEPT ![d] = NoRow] \in [Dumps -> MaybeRow]
          BY <2>3, <2>4 DEF HkState
        <4>3. hk' \in HkState
          BY <4>1, <4>2, <2>4 DEF HkState
        <4> QED BY <4>1, <4>3, <2>4 DEF HkState
      <3>2. CASE hk' = [hk EXCEPT !.todo = {}, !.copy = NoRows]
        BY <2>3, <2>4, <3>2 DEF HkState
      <3> QED BY <1>3, <3>1, <3>2 DEF MarkStuck
    <2>6. rows' \in [Dumps -> MaybeRow] /\ faults' \in Nat
      <3>1. Save(d, [hk.copy[d] EXCEPT !.stuck = TRUE])
        BY <1>3 DEF MarkStuck, Save, Fault
      <3> QED BY <2>2, <3>1, SaveTypes
    <2>7. TypeOK'
      BY <1>3, <2>5, <2>6 DEF MarkStuck, hkRest, TypeOK
    <2>8. QueuedOnce'
      BY <1>3 DEF MarkStuck, hkRest, QueuedOnce
    <2>9. CopiesHeld'
      BY <1>3, <2>1, <2>5 DEF MarkStuck, hkRest, CopiesHeld, Active
    <2> QED BY <2>7, <2>8, <2>9
  <1>4. ASSUME NEW d \in Dumps, DeleteExpiredObject(d) PROVE TInv'
    <2>1. TypeOK'
      <3>1. hk \in HkState
        BY DEF TypeOK
      <3>2. [hk EXCEPT !.todo = @ \ {d}] \in HkState
        BY <3>1 DEF HkState
      <3>3. [hk EXCEPT !.pc = "row", !.todo = @ \ {d}, !.current = {d}] \in HkState
        BY <3>1 DEF HkState
      <3>4. hk' \in HkState
        BY <1>4, <3>2, <3>3 DEF DeleteExpiredObject
      <3>5. objects' \subseteq Dumps /\ faults' \in Nat
        BY <1>4 DEF DeleteExpiredObject, Fault, TypeOK
      <3> QED BY <1>4, <3>4, <3>5 DEF DeleteExpiredObject, hkRest, TypeOK
    <2>2. QueuedOnce'
      BY <1>4 DEF DeleteExpiredObject, hkRest, QueuedOnce
    <2>3. CopiesHeld'
      BY <1>4 DEF DeleteExpiredObject, hkRest, CopiesHeld, Active, TypeOK, HkState
    <2> QED BY <2>1, <2>2, <2>3
  <1>5. ASSUME NEW d \in Dumps, DeleteExpiredRow(d) PROVE TInv'
    <2>1. rows' \in [Dumps -> MaybeRow] /\ faults' \in Nat
      BY <1>5, SaveTypes DEF DeleteExpiredRow, MaybeRow
    <2>2. TypeOK'
      BY <1>5, <2>1 DEF DeleteExpiredRow, hkRest, TypeOK, HkState
    <2>3. QueuedOnce'
      BY <1>5 DEF DeleteExpiredRow, hkRest, QueuedOnce
    <2>4. CopiesHeld'
      BY <1>5 DEF DeleteExpiredRow, hkRest, CopiesHeld, Active, TypeOK, HkState
    <2> QED BY <2>2, <2>3, <2>4
  <1>6. CASE HousekeepingEnds
    <2>1. NoRows \in [Dumps -> MaybeRow]
      BY DEF NoRows, MaybeRow
    <2>2. TypeOK'
      BY <1>6, <2>1 DEF HousekeepingEnds, hkRest, TypeOK, IdleHk, HkState
    <2>3. QueuedOnce' /\ CopiesHeld'
      BY <1>6 DEF HousekeepingEnds, hkRest, QueuedOnce, CopiesHeld, Active, IdleHk
    <2> QED BY <2>2, <2>3
  <1>7. CASE FindStuck
    <2>1. {d \in Stored : Overdue(rows[d])} \in SUBSET Stored
      OBVIOUS
    <2> QED BY <1>1, <1>7, <2>1 DEF FindStuck
  <1>8. CASE FindExpired
    <2>1. {d \in Stored : Expired(rows[d])} \in SUBSET Stored
      OBVIOUS
    <2> QED BY <1>2, <1>8, <2>1 DEF FindExpired
  <1> QED BY <1>3, <1>4, <1>5, <1>6, <1>7, <1>8 DEF HousekeepingStep

LEMMA ClearTypes == ASSUME TInv, NEW u \in Users, StartClear(u) \/ ClearStep(u) PROVE TInv'
  <1> USE DEF TInv
  <1>1. CASE StartClear(u)
    <2>1. OfUser(u) \subseteq Dumps
      BY DEF OfUser, Stored
    <2>2. TypeOK'
      BY <1>1, <2>1 DEF StartClear, clearRest, TypeOK, ClearState
    <2>3. QueuedOnce' /\ CopiesHeld'
      BY <1>1 DEF StartClear, clearRest, QueuedOnce, CopiesHeld, Active
    <2> QED BY <2>2, <2>3
  <1>2. ASSUME NEW d \in Dumps, ClearObject(u, d) PROVE TInv'
    <2>1. clearer[u] \in ClearState /\ IdleClearer \in ClearState
      BY DEF TypeOK, IdleClearer, ClearState
    <2>2. [clearer[u] EXCEPT !.todo = @ \ {d}] \in ClearState
      BY <2>1 DEF ClearState
    <2>3. clearer' \in [Users -> ClearState]
      BY <1>2, <2>1, <2>2 DEF ClearObject, TypeOK
    <2>4. TypeOK'
      BY <1>2, <2>3 DEF ClearObject, clearRest, TypeOK, Fault
    <2>5. QueuedOnce' /\ CopiesHeld'
      BY <1>2 DEF ClearObject, clearRest, QueuedOnce, CopiesHeld, Active
    <2> QED BY <2>4, <2>5
  <1>3. CASE ClearRows(u)
    <2>1. TypeOK'
      <3>1. [d \in Dumps |-> IF d \in OfUser(u) THEN NoRow ELSE rows[d]] \in [Dumps -> MaybeRow]
        BY DEF TypeOK, MaybeRow
      <3> QED BY <1>3, <3>1 DEF ClearRows, clearRest, TypeOK, Fault, IdleClearer, ClearState
    <2>2. QueuedOnce' /\ CopiesHeld'
      BY <1>3 DEF ClearRows, clearRest, QueuedOnce, CopiesHeld, Active
    <2> QED BY <2>1, <2>2
  <1> QED BY <1>1, <1>2, <1>3 DEF ClearStep

LEMMA CrashTypes == ASSUME TInv, Crash PROVE TInv'
  <1>1. NoRows \in [Dumps -> MaybeRow]
    BY DEF NoRows, MaybeRow
  <1>2. TypeOK'
    BY <1>1 DEF TInv, TypeOK, Crash, IdleHk, IdleClearer, Stage, HkState, ClearState
  <1>3. QueuedOnce' /\ CopiesHeld'
    BY DEF Crash, QueuedOnce, CopiesHeld, Active, Running, IdleHk
  <1> QED BY <1>2, <1>3 DEF TInv

LEMMA NextTypes == ASSUME TInv, [Next]_vars PROVE TInv'
  <1>1. CASE Tick
    BY <1>1 DEF TInv, TypeOK, QueuedOnce, CopiesHeld, Active, Tick, server, used
  <1>2. CASE UNCHANGED vars
    BY <1>2 DEF TInv, TypeOK, QueuedOnce, CopiesHeld, Active, vars, server, used
  <1> QED
    BY <1>1, <1>2, CrashTypes, HousekeepingTypes, CreateTypes, JobTypes, ClearTypes DEF Next

THEOREM TypesInvariant == Spec => []TInv
  <1> QED BY InitTypes, NextTypes, PTL DEF Spec

\* Every variable stays within its type, which needs that a job has its copy of
\* the row as long as it is queued or running.
THEOREM TypeCorrect == Spec => []TypeOK
  <1>1. TInv => TypeOK
    BY DEF TInv
  <1> QED BY <1>1, TypesInvariant, PTL

----------------------------------------------------------------------------
(***************************************************************************)
(* No file loses its row, as long as nobody deletes exports under way and  *)
(* every job ends before its export expires.                               *)
(***************************************************************************)
LEMMA InitFiles == Init => SInv
  BY DEF Init, SInv, JobsHaveRows, MarkedHaveRows, CleanedAreDead, FilesHaveRows,
         FreshHaveNone, NobodyClears, Active, Running, Stored, IdleHk, IdleClearer, NoRows

LEMMA StoredRow == ASSUME TypeOK, NEW d \in Dumps PROVE d \in Stored <=> rows[d] \in Row
  BY NoRowAssumption DEF TypeOK, Stored, MaybeRow

\* What a job that lives does to its row and its file keeps the invariant.
LEMMA LivingJobFiles ==
  ASSUME TInv, SInv, TInv', NEW d \in Active,
         rows'[d] \in Row, rows'[d].created = rows[d].created,
         \A e \in Dumps \ {d} : rows'[e] = rows[e],
         Active' \subseteq Active,
         \A e \in Active : mem'[e].created = mem[e].created,
         \A e \in Dumps : stage'[e] = "unused" => stage[e] = "unused",
         objects' \subseteq objects \union {d},
         UNCHANGED <<clock, hk, clearer>>
  PROVE  SInv'
  <1>1. d \in Dumps /\ rows[d] \in Row /\ stage[d] # "unused"
    BY DEF Active, Running, SInv, JobsHaveRows
  <1>2. Stored' = Stored
    <2>1. \A e \in Dumps : e \in Stored <=> rows'[e] # NoRow
      BY <1>1, NoRowAssumption DEF Stored
    <2> QED BY <2>1 DEF Stored
  <1>3. JobsHaveRows'
    BY <1>1 DEF SInv, JobsHaveRows, Active
  <1>4. MarkedHaveRows'
    BY <1>1 DEF SInv, MarkedHaveRows, TInv, TypeOK, HkState
  <1>5. CleanedAreDead'
    BY <1>2 DEF SInv, CleanedAreDead
  <1>6. FilesHaveRows'
    BY <1>1, <1>2, NoRowAssumption DEF SInv, FilesHaveRows, Stored
  <1>7. FreshHaveNone' /\ NobodyClears'
    BY <1>1 DEF SInv, FreshHaveNone, NobodyClears
  <1> QED BY <1>3, <1>4, <1>5, <1>6, <1>7 DEF SInv

LEMMA ChangeFiles ==
  ASSUME TInv, SInv, TInv', NEW d \in Active, NEW r \in Row, r.created = mem[d].created,
         NEW next \in Stage \ {"unused"}, Change(d, r, next)
  PROVE  SInv'
  <1>1. d \in Dumps /\ rows[d] \in Row /\ rows[d].created = mem[d].created
    BY DEF Active, SInv, JobsHaveRows
  <1>2. rows'[d] \in Row /\ rows'[d].created = rows[d].created
    BY <1>1 DEF Change, Save, TInv, TypeOK
  <1>3. \A e \in Dumps \ {d} : rows'[e] = rows[e]
    BY <1>1 DEF Change, Save, TInv, TypeOK
  <1>4. Active' \subseteq Active
    BY <1>1 DEF Change, Active, TInv, TypeOK
  <1>5. \A e \in Active : mem'[e].created = mem[e].created
    BY <1>1 DEF Change, Active, TInv, TypeOK
  <1>6. \A e \in Dumps : stage'[e] = "unused" => stage[e] = "unused"
    BY <1>1 DEF Change, TInv, TypeOK
  <1>7. objects' = objects /\ UNCHANGED <<clock, hk, clearer>>
    BY DEF Change
  <1> QED BY <1>2, <1>3, <1>4, <1>5, <1>6, <1>7, LivingJobFiles

LEMMA StageFiles ==
  ASSUME TInv, SInv, TInv', NEW d \in Active, NEW next \in Stage \ {"unused"},
         stage' = [stage EXCEPT ![d] = next], objects' \subseteq objects \union {d},
         UNCHANGED <<clock, rows, mem, hk, clearer>>
  PROVE  SInv'
  <1>1. d \in Dumps /\ rows[d] \in Row
    BY DEF Active, SInv, JobsHaveRows
  <1>2. Active' \subseteq Active
    BY <1>1 DEF Active, TInv, TypeOK
  <1>3. \A e \in Dumps : stage'[e] = "unused" => stage[e] = "unused"
    BY <1>1 DEF TInv, TypeOK
  <1> QED BY <1>1, <1>2, <1>3, LivingJobFiles

LEMMA JobFiles == ASSUME TInv, SInv, TInv', NEW d \in Dumps, JobStep(d) PROVE SInv'
  <1>1. ASSUME d \in Active
        PROVE  \A r \in {[mem[d] EXCEPT !.status = "processing"],
                          [mem[d] EXCEPT !.status = "uploading"],
                          [mem[d] EXCEPT !.status = "completed", !.processing = FALSE],
                          [mem[d] EXCEPT !.status = "completed", !.processing = FALSE,
                                         !.failed = TRUE]} :
                  r \in Row /\ r.created = mem[d].created
    <2>1. mem[d] \in Row
      BY <1>1 DEF TInv, CopiesHeld
    <2> QED BY <2>1 DEF Row
  <1>2. CASE Begin(d)
    <2>1. d \in Active /\ "started" \in Stage \ {"unused"}
      BY <1>2 DEF Begin, TInv, TypeOK, QueuedOnce, Active, Stage, Running
    <2>2. Change(d, [mem[d] EXCEPT !.status = "processing"], "started")
      BY <1>2 DEF Begin
    <2> QED BY <1>1, <2>1, <2>2, ChangeFiles
  <1>3. CASE StartUpload(d)
    <2>1. d \in Active /\ "uploading" \in Stage \ {"unused"}
      BY <1>3 DEF StartUpload, Active, Stage, Running
    <2>2. Change(d, [mem[d] EXCEPT !.status = "uploading"], "uploading")
      BY <1>3 DEF StartUpload
    <2> QED BY <1>1, <2>1, <2>2, ChangeFiles
  <1>4. CASE CannotUpload(d)
    <2>1. d \in Active /\ "failing" \in Stage \ {"unused"}
      BY <1>4 DEF CannotUpload, Active, Stage, Running
    <2> QED BY <1>4, <2>1, StageFiles DEF CannotUpload
  <1>5. CASE Upload(d)
    <2>1. d \in Active /\ {"uploaded", "failing"} \subseteq Stage \ {"unused"}
      BY <1>5 DEF Upload, Active, Stage, Running
    <2>2. PICK next \in Stage \ {"unused"} : stage' = [stage EXCEPT ![d] = next]
      BY <1>5, <2>1 DEF Upload
    <2>3. objects' \subseteq objects \union {d} /\ UNCHANGED <<clock, rows, mem, hk, clearer>>
      BY <1>5 DEF Upload
    <2> QED BY <2>1, <2>2, <2>3, StageFiles
  <1>6. CASE Finish(d)
    <2>1. d \in Active /\ "ended" \in Stage \ {"unused"}
      BY <1>6 DEF Finish, Active, Stage, Running
    <2>2. Change(d, [mem[d] EXCEPT !.status = "completed", !.processing = FALSE], "ended")
      BY <1>6 DEF Finish
    <2> QED BY <1>1, <2>1, <2>2, ChangeFiles
  <1>7. CASE Fail(d)
    <2>1. d \in Active /\ "ended" \in Stage \ {"unused"}
      BY <1>7 DEF Fail, Active, Stage, Running
    <2>2. Change(d, [mem[d] EXCEPT !.status = "completed", !.processing = FALSE,
                                   !.failed = TRUE], "ended")
      BY <1>7 DEF Fail
    <2> QED BY <1>1, <2>1, <2>2, ChangeFiles
  <1> QED BY <1>2, <1>3, <1>4, <1>5, <1>6, <1>7 DEF JobStep

LEMMA CreateFiles ==
  ASSUME TInv, SInv, TInv', NEW r \in Reqs,
         (\E u \in Users : CheckExisting(r, u)) \/ (\E d \in Dumps : InsertDump(r, d))
  PROVE  SInv'
  <1>1. CASE UNCHANGED <<clock, rows, objects, stage, mem, hk, clearer>>
    BY <1>1 DEF SInv, JobsHaveRows, MarkedHaveRows, CleanedAreDead, FilesHaveRows,
                FreshHaveNone, NobodyClears, Stored, Active
  <1>2. CASE \E u \in Users : CheckExisting(r, u)
    BY <1>1, <1>2 DEF CheckExisting
  <1>3. ASSUME NEW d \in Dumps, InsertDump(r, d),
               ~ UNCHANGED <<clock, rows, objects, stage, mem, hk, clearer>>
        PROVE  SInv'
    <2>1. PICK u \in Users :
            /\ stage[d] = "unused"
            /\ stage' = [stage EXCEPT ![d] = "queued"]
            /\ rows'  = [rows EXCEPT ![d] =
                           [user |-> u, status |-> "pending", processing |-> TRUE,
                            stuck |-> FALSE, failed |-> FALSE, created |-> clock]]
            /\ mem'   = [mem EXCEPT ![d] = rows'[d]]
            /\ UNCHANGED <<clock, objects, hk, clearer>>
      BY <1>3 DEF InsertDump, TInv, TypeOK
    <2>2. rows'[d] \in Row /\ rows'[d].created = clock /\ mem'[d] = rows'[d]
      BY <2>1 DEF TInv, TypeOK, Row
    <2>3. \A e \in Dumps \ {d} : rows'[e] = rows[e] /\ mem'[e] = mem[e] /\ stage'[e] = stage[e]
      BY <2>1 DEF TInv, TypeOK
    <2>4. /\ d \notin Stored /\ d \notin Active
          /\ Stored' = Stored \union {d} /\ Active' = Active \union {d}
      <3>1. rows[d] = NoRow /\ rows'[d] # NoRow
        BY <2>1, <2>2, NoRowAssumption DEF SInv, FreshHaveNone
      <3>2. stage'[d] = "queued"
        BY <2>1 DEF TInv, TypeOK
      <3> QED BY <2>1, <2>3, <3>1, <3>2 DEF Stored, Active, Running
    <2>5. JobsHaveRows'
      <3>1. clock \in Nat /\ ExpireAfter \in Nat
        BY ConstantsAssumption DEF TInv, TypeOK
      <3>2. clock <= clock + ExpireAfter
        BY <3>1
      <3>3. \A e \in Active : e # d /\ e \in Dumps
        BY <2>4 DEF Active
      <3> QED BY <2>1, <2>2, <2>3, <2>4, <3>2, <3>3 DEF SInv, JobsHaveRows
    <2>6. MarkedHaveRows'
      <3>1. hk.pc = "mark" => \A e \in hk.todo : e \in Dumps /\ e # d
        BY <2>4, NoRowAssumption DEF SInv, MarkedHaveRows, TInv, TypeOK, HkState, Stored
      <3> QED BY <2>1, <2>3, <3>1 DEF SInv, MarkedHaveRows
    <2>7. CleanedAreDead'
      BY <2>1, <2>4 DEF SInv, CleanedAreDead
    <2>8. FilesHaveRows' /\ FreshHaveNone' /\ NobodyClears'
      BY <2>1, <2>3, <2>4 DEF SInv, FilesHaveRows, FreshHaveNone, NobodyClears, Active, Running
    <2> QED BY <2>5, <2>6, <2>7, <2>8 DEF SInv
  <1> QED BY <1>1, <1>2, <1>3

\* Only the housekeeping job marks and removes rows, and it removes none whose
\* job lives: such an export has not expired.
LEMMA HousekeepingFiles == ASSUME TInv, SInv, TInv', HousekeepingStep PROVE SInv'
  <1>1. CASE FindStuck
    <2> DEFINE found == {d \in Stored : Overdue(rows[d])}
    <2>1. /\ hk'.pc = "mark" /\ hk'.todo = found /\ hk'.current = {}
          /\ \A d \in found : hk'.copy[d] = rows[d]
          /\ UNCHANGED <<clock, rows, objects, stage, mem, clearer>>
      BY <1>1 DEF FindStuck, ReadForMarking, hkRest, Stored
    <2>2. \A d \in found : rows[d] \in Row
      BY StoredRow DEF TInv, Stored
    <2> QED BY <2>1, <2>2 DEF SInv, JobsHaveRows, MarkedHaveRows, CleanedAreDead, FilesHaveRows,
                              FreshHaveNone, NobodyClears, Stored, Active
  <1>2. CASE FindExpired
    <2> DEFINE found == {d \in Stored : Expired(rows[d])}
    <2>1. /\ hk'.pc = "clean" /\ hk'.todo = found /\ hk'.current = {}
          /\ UNCHANGED <<clock, rows, objects, stage, mem, clearer>>
      BY <1>2 DEF FindExpired, ReadForCleanup, IdleHk, hkRest
    <2>2. found \intersect Active = {}
      <3>1. ASSUME NEW d \in Active, rows[d].created + ExpireAfter < clock PROVE FALSE
        <4>1. rows[d].created \in Nat /\ clock \in Nat /\ ExpireAfter \in Nat
          BY ConstantsAssumption DEF SInv, JobsHaveRows, Row, TInv, TypeOK
        <4>2. clock <= rows[d].created + ExpireAfter
          BY DEF SInv, JobsHaveRows
        <4> QED BY <3>1, <4>1, <4>2
      <3> QED BY <3>1 DEF Expired
    <2> QED BY <2>1, <2>2 DEF SInv, JobsHaveRows, MarkedHaveRows, CleanedAreDead, FilesHaveRows,
                              FreshHaveNone, NobodyClears, Stored, Active
  <1>3. CASE HousekeepingEnds
    <2>1. /\ hk'.pc = "idle" /\ hk'.todo = {} /\ hk'.current = {}
          /\ UNCHANGED <<clock, rows, objects, stage, mem, clearer>>
      BY <1>3 DEF HousekeepingEnds, IdleHk, hkRest
    <2> QED BY <2>1 DEF SInv, JobsHaveRows, MarkedHaveRows, CleanedAreDead, FilesHaveRows,
                        FreshHaveNone, NobodyClears, Stored, Active
  <1>4. ASSUME NEW d \in Dumps, MarkStuck(d) PROVE SInv'
    <2>1. /\ hk.pc = "mark" /\ d \in hk.todo /\ hk.copy[d] \in Row
          /\ rows[d] \in Row /\ rows[d].created = hk.copy[d].created
      BY <1>4 DEF MarkStuck, TInv, CopiesHeld, SInv, MarkedHaveRows
    <2>2. /\ UNCHANGED <<clock, objects, stage, mem, clearer>>
          /\ hk'.pc = "mark" /\ hk'.current = hk.current /\ hk'.todo \subseteq hk.todo
          /\ \A e \in hk'.todo : hk'.copy[e] = hk.copy[e]
      <3>1. hk \in HkState
        BY DEF TInv, TypeOK
      <3>2. CASE hk' = [hk EXCEPT !.todo = @ \ {d}, !.copy[d] = NoRow]
        <4>1. /\ hk'.pc = hk.pc /\ hk'.todo = hk.todo \ {d} /\ hk'.current = hk.current
              /\ hk'.copy = [hk.copy EXCEPT ![d] = NoRow]
          BY <3>1, <3>2 DEF HkState
        <4> QED BY <1>4, <2>1, <3>1, <4>1 DEF MarkStuck, hkRest, HkState
      <3>3. CASE hk' = [hk EXCEPT !.todo = {}, !.copy = NoRows]
        BY <1>4, <2>1, <3>1, <3>3 DEF MarkStuck, hkRest, HkState
      <3> QED BY <1>4, <3>2, <3>3 DEF MarkStuck
    <2>3. /\ rows'[d] \in Row /\ rows'[d].created = rows[d].created
          /\ \A e \in Dumps \ {d} : rows'[e] = rows[e]
      <3>1. [hk.copy[d] EXCEPT !.stuck = TRUE] \in Row
        BY <2>1 DEF Row
      <3>2. [hk.copy[d] EXCEPT !.stuck = TRUE].created = hk.copy[d].created
        BY <2>1 DEF Row
      <3> QED BY <1>4, <2>1, <3>1, <3>2 DEF MarkStuck, TInv, TypeOK
    <2>4. Stored' = Stored /\ Active' = Active
      <3>1. \A e \in Dumps : e \in Stored <=> rows'[e] # NoRow
        BY <2>1, <2>3, NoRowAssumption DEF Stored
      <3> QED BY <2>2, <3>1 DEF Stored, Active
    <2>5. JobsHaveRows'
      BY <2>2, <2>3, <2>4 DEF SInv, JobsHaveRows, Active
    <2>6. MarkedHaveRows'
      <3>1. \A e \in hk'.todo : /\ e \in Dumps /\ rows[e] \in Row
                                /\ rows[e].created = hk'.copy[e].created
        BY <2>1, <2>2 DEF SInv, MarkedHaveRows, TInv, TypeOK, HkState
      <3> QED BY <2>3, <3>1 DEF MarkedHaveRows
    <2>7. CleanedAreDead' /\ FilesHaveRows' /\ NobodyClears'
      BY <2>1, <2>2, <2>4 DEF SInv, CleanedAreDead, FilesHaveRows, NobodyClears
    <2>8. FreshHaveNone'
      BY <2>1, <2>2, <2>3, NoRowAssumption DEF SInv, FreshHaveNone
    <2> QED BY <2>5, <2>6, <2>7, <2>8 DEF SInv
  <1>5. ASSUME NEW d \in Dumps, DeleteExpiredObject(d) PROVE SInv'
    <2>1. /\ hk.pc = "clean" /\ d \in hk.todo /\ hk.current = {}
          /\ UNCHANGED <<clock, rows, stage, mem, clearer>>
      BY <1>5 DEF DeleteExpiredObject, hkRest, SInv, CleanedAreDead
    <2>2. \/ /\ objects' = objects \ {d} /\ hk'.pc = "row"
             /\ hk'.todo = hk.todo \ {d} /\ hk'.current = {d}
          \/ /\ objects' = objects /\ hk'.pc = "clean"
             /\ hk'.todo = hk.todo \ {d} /\ hk'.current = {}
      BY <1>5, <2>1 DEF DeleteExpiredObject, TInv, TypeOK, HkState
    <2>3. Stored' = Stored /\ Active' = Active
      BY <2>1 DEF Stored, Active
    <2>4. JobsHaveRows' /\ FreshHaveNone' /\ NobodyClears' /\ MarkedHaveRows'
      BY <2>1, <2>2, <2>3 DEF SInv, JobsHaveRows, FreshHaveNone, NobodyClears, MarkedHaveRows
    <2>5. CleanedAreDead' /\ FilesHaveRows'
      BY <2>1, <2>2, <2>3 DEF SInv, CleanedAreDead, FilesHaveRows
    <2> QED BY <2>4, <2>5 DEF SInv
  <1>6. ASSUME NEW d \in Dumps, DeleteExpiredRow(d) PROVE SInv'
    <2>1. /\ hk.pc = "row" /\ d \in hk.current /\ UNCHANGED <<clock, objects, stage, mem, clearer>>
          /\ d \notin Active /\ d \notin objects /\ d \notin hk.todo
      BY <1>6 DEF DeleteExpiredRow, hkRest, SInv, CleanedAreDead
    <2>2. hk'.pc = "clean" /\ hk'.todo = hk.todo /\ hk'.current = {}
      BY <1>6 DEF DeleteExpiredRow, TInv, TypeOK, HkState
    <2>3. /\ \A e \in Dumps \ {d} : rows'[e] = rows[e]
          /\ rows'[d] \in {rows[d], NoRow}
      BY <1>6 DEF DeleteExpiredRow, Save, TInv, TypeOK
    <2>4. Active' = Active /\ Active \subseteq Dumps \ {d} /\ Stored \ {d} \subseteq Stored'
      BY <2>1, <2>3 DEF Stored, Active
    <2>5. JobsHaveRows' /\ MarkedHaveRows'
      BY <2>1, <2>2, <2>3, <2>4 DEF SInv, JobsHaveRows, MarkedHaveRows
    <2>6. CleanedAreDead' /\ FilesHaveRows'
      BY <2>1, <2>2, <2>4 DEF SInv, CleanedAreDead, FilesHaveRows
    <2>7. FreshHaveNone' /\ NobodyClears'
      BY <2>1, <2>3 DEF SInv, FreshHaveNone, NobodyClears
    <2> QED BY <2>5, <2>6, <2>7 DEF SInv
  <1> QED BY <1>1, <1>2, <1>3, <1>4, <1>5, <1>6 DEF HousekeepingStep

LEMMA CrashFiles == ASSUME TInv, SInv, Crash PROVE SInv'
  <1>1. /\ Active' = {} /\ Stored' = Stored
        /\ hk'.pc = "idle" /\ hk'.current = {}
        /\ UNCHANGED <<clock, rows, objects>>
    BY DEF Crash, Active, Running, Stored, IdleHk
  <1>2. FreshHaveNone' /\ NobodyClears'
    BY DEF Crash, SInv, FreshHaveNone, NobodyClears, IdleClearer
  <1> QED BY <1>1, <1>2 DEF SInv, JobsHaveRows, MarkedHaveRows, CleanedAreDead, FilesHaveRows

\* Time does not take an export past its expiry while its job lives.
LEMMA TickFiles == ASSUME TInv, SInv, Prompt, Tick PROVE SInv'
  <1>1. Active' = Active /\ Stored' = Stored /\ UNCHANGED <<rows, objects, stage, mem, hk, clearer>>
    BY DEF Tick, Active, Stored, server
  <1>2. ASSUME NEW d \in Active PROVE clock' <= rows[d].created + ExpireAfter
    <2>1. rows[d].created \in Nat /\ clock \in Nat /\ ExpireAfter \in Nat
      BY ConstantsAssumption DEF SInv, JobsHaveRows, Row, TInv, TypeOK
    <2>2. rows[d].created + ExpireAfter > clock /\ clock' = clock + 1
      BY DEF Tick, SInv, JobsHaveRows
    <2> QED BY <2>1, <2>2
  <1> QED BY <1>1, <1>2 DEF SInv, JobsHaveRows, MarkedHaveRows, CleanedAreDead, FilesHaveRows,
                            FreshHaveNone, NobodyClears

LEMMA NextFiles ==
  ASSUME Prompt, Clearers = {}, TInv, SInv, TInv', [Next]_vars
  PROVE  SInv'
  <1>1. CASE \E u \in Users : StartClear(u) \/ ClearStep(u)
    <2>1. PICK u \in Users : StartClear(u) \/ ClearStep(u)
      BY <1>1
    <2>2. ~ StartClear(u)
      BY DEF StartClear
    <2>3. ~ ClearStep(u)
      <3>1. clearer[u].pc = "idle"
        BY DEF SInv, NobodyClears
      <3>2. ~ ClearRows(u)
        BY <3>1 DEF ClearRows
      <3>3. \A d \in Dumps : ~ ClearObject(u, d)
        BY <3>1 DEF ClearObject
      <3> QED BY <3>2, <3>3 DEF ClearStep
    <2> QED BY <2>1, <2>2, <2>3
  <1>2. CASE UNCHANGED vars
    BY <1>2 DEF vars, server, SInv, JobsHaveRows, MarkedHaveRows, CleanedAreDead, FilesHaveRows,
                FreshHaveNone, NobodyClears, Stored, Active
  <1> QED
    BY <1>1, <1>2, TickFiles, CrashFiles, HousekeepingFiles, CreateFiles, JobFiles DEF Next

\* A stored file has its row for ever, so that the cleanup finds it: whatever
\* fails or crashes, provided that nobody deletes their exports (Clearers) and
\* that each job ends before its export has expired (Prompt).
THEOREM NoFileLosesItsRow ==
  ASSUME Prompt, Clearers = {}
  PROVE  Spec => []NoOrphanFile
  <1>1. TInv /\ SInv /\ [Next]_vars /\ TInv' => SInv'
    BY NextFiles
  <1>2. SInv => NoOrphanFile
    BY DEF SInv, FilesHaveRows, NoOrphanFile
  <1> QED BY <1>1, <1>2, InitFiles, TypesInvariant, PTL DEF Spec

----------------------------------------------------------------------------
(***************************************************************************)
(* A completed export has its file, as long as nobody deletes exports      *)
(* under way; jobs may outlast their exports.                              *)
(***************************************************************************)
\* The row, the job's copy and the copy of the housekeeping job are equally old.
OneAge ==
    /\ \A d \in Active : d \in Stored => rows[d].created = mem[d].created
    /\ hk.pc = "mark" => \A d \in hk.todo :
          /\ stage[d] # "unused"
          /\ d \in Stored => rows[d].created = hk.copy[d].created
          /\ d \in Active => mem[d].created = hk.copy[d].created

\* Files are removed of exports that have expired; a job that still lives writes no younger row.
RemovedOld ==
    hk.pc \in {"clean", "row"} => \A d \in hk.todo :
          /\ stage[d] # "unused"
          /\ d \in Stored => Expired(rows[d])
          /\ d \in Active => Expired(mem[d])

\* Neither a row that may be marked nor a copy that may still be saved says "completed".
EndedOnce ==
    /\ \A d \in Stored : rows[d].processing => rows[d].status # "completed"
    /\ \A d \in Active : mem[d].status # "completed"
    /\ hk.pc = "mark" => \A d \in hk.todo : hk.copy[d].status # "completed"

UploadedHasFile == \A d \in Dumps : stage[d] = "uploaded" /\ ~ Expired(mem[d]) => d \in objects

FInv == /\ OneAge /\ RemovedOld /\ EndedOnce /\ UploadedHasFile /\ CompletedHasFile
        /\ FreshHaveNone /\ NobodyClears

LEMMA InitDone == Init => FInv
  BY DEF Init, FInv, OneAge, RemovedOld, EndedOnce, UploadedHasFile, CompletedHasFile,
         FreshHaveNone, NobodyClears, Active, Running, Stored, IdleHk, IdleClearer, NoRows

\* A job writes its copy of the row, or moves on without.
LEMMA ChangeDone ==
  ASSUME TInv, FInv, NEW d \in Active, NEW r \in Row, NEW next \in Stage \ {"unused", "uploaded"},
         r.created = mem[d].created, r.processing => r.status # "completed",
         r.status = "completed" => next = "ended" /\ (r.failed \/ stage[d] = "uploaded"),
         Change(d, r, next)
  PROVE  FInv'
  <1>1. d \in Dumps /\ stage[d] # "unused"
    BY DEF Active, Running
  <1>2. /\ UNCHANGED <<clock, objects, hk, clearer>>
        /\ mem'[d] = r /\ stage'[d] = next
        /\ \A e \in Dumps \ {d} : mem'[e] = mem[e] /\ stage'[e] = stage[e] /\ rows'[e] = rows[e]
        /\ rows'[d] = r \/ rows'[d] = rows[d]
    BY <1>1 DEF Change, Save, TInv, TypeOK
  <1>3. Active' \subseteq Active /\ (d \in Active' => next # "ended")
    BY <1>2 DEF Active, Running
  <1>4. \A e \in Stored' : \/ e = d /\ rows'[e] = r
                           \/ e \in Stored /\ rows'[e] = rows[e]
    BY <1>2 DEF Stored
  <1>5. \A e \in Active' : mem'[e].created = mem[e].created
    BY <1>2, <1>3 DEF Active
  <1>6. OneAge'
    <2>1. \A e \in Active' : e \in Stored' => rows'[e].created = mem'[e].created
      BY <1>3, <1>4, <1>5 DEF FInv, OneAge
    <2>2. ASSUME hk.pc = "mark", NEW e \in hk.todo
          PROVE  /\ stage'[e] # "unused"
                 /\ e \in Stored' => rows'[e].created = hk.copy[e].created
                 /\ e \in Active' => mem'[e].created = hk.copy[e].created
      <3>1. e \in Dumps
        BY DEF TInv, TypeOK, HkState
      <3> QED BY <1>2, <1>3, <1>4, <1>5, <2>2, <3>1 DEF FInv, OneAge
    <2> QED BY <1>2, <2>1, <2>2 DEF OneAge
  <1>7. RemovedOld'
    <2>1. ASSUME hk.pc \in {"clean", "row"}, NEW e \in hk.todo
          PROVE  /\ stage'[e] # "unused"
                 /\ e \in Stored' => rows'[e].created + ExpireAfter < clock
                 /\ e \in Active' => mem'[e].created + ExpireAfter < clock
      <3>1. e \in Dumps
        BY DEF TInv, TypeOK, HkState
      <3> QED BY <1>2, <1>3, <1>4, <1>5, <2>1, <3>1 DEF FInv, RemovedOld, Expired
    <2> QED BY <1>2, <2>1 DEF RemovedOld, Expired
  <1>8. EndedOnce'
    BY <1>2, <1>3, <1>4 DEF FInv, EndedOnce, Active
  <1>9. UploadedHasFile'
    BY <1>2 DEF FInv, UploadedHasFile, Expired
  <1>10. CompletedHasFile'
    BY <1>1, <1>2, <1>4 DEF FInv, CompletedHasFile, UploadedHasFile, Expired
  <1>11. FreshHaveNone' /\ NobodyClears'
    BY <1>1, <1>2 DEF FInv, FreshHaveNone, NobodyClears
  <1> QED BY <1>6, <1>7, <1>8, <1>9, <1>10, <1>11 DEF FInv

LEMMA StageDone ==
  ASSUME TInv, FInv, NEW d \in Active, NEW next \in Stage \ {"unused"},
         stage' = [stage EXCEPT ![d] = next], objects \subseteq objects',
         next = "uploaded" => d \in objects',
         UNCHANGED <<clock, rows, mem, hk, clearer>>
  PROVE  FInv'
  <1>1. d \in Dumps /\ stage[d] # "unused"
    BY DEF Active, Running
  <1>2. stage'[d] = next /\ \A e \in Dumps \ {d} : stage'[e] = stage[e]
    BY <1>1 DEF TInv, TypeOK
  <1>3. Active' \subseteq Active /\ Stored' = Stored
    BY <1>2 DEF Active, Stored
  <1>4. \A e \in Dumps : stage'[e] = "unused" <=> stage[e] = "unused"
    BY <1>1, <1>2
  <1>5. hk.todo \subseteq Dumps
    BY DEF TInv, TypeOK, HkState
  <1>6. OneAge' /\ RemovedOld' /\ EndedOnce'
    BY <1>3, <1>4, <1>5 DEF FInv, OneAge, RemovedOld, EndedOnce, Expired
  <1>7. UploadedHasFile' /\ CompletedHasFile'
    BY <1>2, <1>3 DEF FInv, UploadedHasFile, CompletedHasFile, Expired
  <1>8. FreshHaveNone' /\ NobodyClears'
    BY <1>4 DEF FInv, FreshHaveNone, NobodyClears
  <1> QED BY <1>6, <1>7, <1>8 DEF FInv

LEMMA JobDone == ASSUME TInv, FInv, NEW d \in Dumps, JobStep(d) PROVE FInv'
  <1>1. ASSUME d \in Active
        PROVE  /\ \A st \in {"processing", "uploading"} :
                     LET r == [mem[d] EXCEPT !.status = st]
                     IN  r \in Row /\ r.created = mem[d].created /\ r.status # "completed"
               /\ LET r == [mem[d] EXCEPT !.status = "completed", !.processing = FALSE]
                  IN  r \in Row /\ r.created = mem[d].created /\ ~ r.processing
               /\ LET r == [mem[d] EXCEPT !.status = "completed", !.processing = FALSE, !.failed = TRUE]
                  IN  r \in Row /\ r.created = mem[d].created /\ ~ r.processing /\ r.failed
    <2>1. mem[d] \in Row
      BY <1>1 DEF TInv, CopiesHeld
    <2> QED BY <2>1 DEF Row
  <1>2. CASE Begin(d)
    <2>1. d \in Active /\ "started" \in Stage \ {"unused", "uploaded"}
      BY <1>2 DEF Begin, TInv, TypeOK, QueuedOnce, Active, Stage, Running
    <2>2. Change(d, [mem[d] EXCEPT !.status = "processing"], "started")
      BY <1>2 DEF Begin
    <2> QED BY <1>1, <2>1, <2>2, ChangeDone
  <1>3. CASE StartUpload(d)
    <2>1. d \in Active /\ "uploading" \in Stage \ {"unused", "uploaded"}
      BY <1>3 DEF StartUpload, Active, Stage, Running
    <2>2. Change(d, [mem[d] EXCEPT !.status = "uploading"], "uploading")
      BY <1>3 DEF StartUpload
    <2> QED BY <1>1, <2>1, <2>2, ChangeDone
  <1>4. CASE CannotUpload(d)
    <2>1. d \in Active /\ "failing" \in Stage \ {"unused"}
      BY <1>4 DEF CannotUpload, Active, Stage, Running
    <2> QED BY <1>4, <2>1, StageDone DEF CannotUpload
  <1>5. CASE Upload(d)
    <2>1. d \in Active /\ {"uploaded", "failing"} \subseteq Stage \ {"unused"}
      BY <1>5 DEF Upload, Active, Stage, Running
    <2>2. PICK next \in Stage \ {"unused"} : /\ stage' = [stage EXCEPT ![d] = next]
                                             /\ objects \subseteq objects'
                                             /\ next = "uploaded" => d \in objects'
      BY <1>5, <2>1 DEF Upload
    <2>3. UNCHANGED <<clock, rows, mem, hk, clearer>>
      BY <1>5 DEF Upload
    <2> QED BY <2>1, <2>2, <2>3, StageDone
  <1>6. CASE Finish(d)
    <2>1. d \in Active /\ "ended" \in Stage \ {"unused", "uploaded"} /\ stage[d] = "uploaded"
      BY <1>6 DEF Finish, Active, Stage, Running
    <2>2. Change(d, [mem[d] EXCEPT !.status = "completed", !.processing = FALSE], "ended")
      BY <1>6 DEF Finish
    <2> QED BY <1>1, <2>1, <2>2, ChangeDone
  <1>7. CASE Fail(d)
    <2>1. d \in Active /\ "ended" \in Stage \ {"unused", "uploaded"}
      BY <1>7 DEF Fail, Active, Stage, Running
    <2>2. Change(d, [mem[d] EXCEPT !.status = "completed", !.processing = FALSE,
                                   !.failed = TRUE], "ended")
      BY <1>7 DEF Fail
    <2> QED BY <1>1, <2>1, <2>2, ChangeDone
  <1> QED BY <1>2, <1>3, <1>4, <1>5, <1>6, <1>7 DEF JobStep

LEMMA CreateDone ==
  ASSUME TInv, FInv, NEW r \in Reqs,
         (\E u \in Users : CheckExisting(r, u)) \/ (\E d \in Dumps : InsertDump(r, d))
  PROVE  FInv'
  <1>1. CASE UNCHANGED <<clock, rows, objects, stage, mem, hk, clearer>>
    BY <1>1 DEF FInv, OneAge, RemovedOld, EndedOnce, UploadedHasFile, CompletedHasFile,
                FreshHaveNone, NobodyClears, Stored, Active, Expired
  <1>2. CASE \E u \in Users : CheckExisting(r, u)
    BY <1>1, <1>2 DEF CheckExisting
  <1>3. ASSUME NEW d \in Dumps, InsertDump(r, d),
               ~ UNCHANGED <<clock, rows, objects, stage, mem, hk, clearer>>
        PROVE  FInv'
    <2>1. PICK u \in Users :
            /\ stage[d] = "unused"
            /\ stage' = [stage EXCEPT ![d] = "queued"]
            /\ rows'  = [rows EXCEPT ![d] =
                           [user |-> u, status |-> "pending", processing |-> TRUE,
                            stuck |-> FALSE, failed |-> FALSE, created |-> clock]]
            /\ mem'   = [mem EXCEPT ![d] = rows'[d]]
            /\ UNCHANGED <<clock, objects, hk, clearer>>
      BY <1>3 DEF InsertDump, TInv, TypeOK
    <2>2. rows'[d].status = "pending" /\ mem'[d] = rows'[d] /\ stage'[d] = "queued"
      BY <2>1 DEF TInv, TypeOK
    <2>3. \A e \in Dumps \ {d} : rows'[e] = rows[e] /\ mem'[e] = mem[e] /\ stage'[e] = stage[e]
      BY <2>1 DEF TInv, TypeOK
    <2>4. Stored' \subseteq Stored \union {d} /\ Active' \subseteq Active \union {d} /\ d \notin Active
      BY <2>1, <2>3 DEF Stored, Active, Running
    <2>5. hk.pc \in {"mark", "clean", "row"} => hk.todo \subseteq Dumps \ {d}
      BY <2>1 DEF FInv, OneAge, RemovedOld, TInv, TypeOK, HkState
    <2>6. Stored \subseteq Dumps /\ Active \subseteq Dumps
      BY DEF Stored, Active
    <2>7. OneAge'
      BY <2>1, <2>2, <2>3, <2>4, <2>5, <2>6 DEF FInv, OneAge
    <2>8. RemovedOld'
      BY <2>1, <2>3, <2>4, <2>5, <2>6 DEF FInv, RemovedOld, Expired
    <2>9. EndedOnce'
      BY <2>1, <2>2, <2>3, <2>4, <2>5, <2>6 DEF FInv, EndedOnce
    <2>10. UploadedHasFile' /\ CompletedHasFile'
      BY <2>1, <2>2, <2>3, <2>4, <2>6 DEF FInv, UploadedHasFile, CompletedHasFile, Expired
    <2>11. FreshHaveNone' /\ NobodyClears'
      BY <2>1, <2>2, <2>3 DEF FInv, FreshHaveNone, NobodyClears
    <2> QED BY <2>7, <2>8, <2>9, <2>10, <2>11 DEF FInv
  <1> QED BY <1>1, <1>2, <1>3

LEMMA HousekeepingDone == ASSUME TInv, FInv, HousekeepingStep PROVE FInv'
  <1>1. CASE FindStuck
    <2> DEFINE found == {d \in Stored : Overdue(rows[d])}
    <2>1. /\ hk'.pc = "mark" /\ hk'.todo = found
          /\ \A d \in found : hk'.copy[d] = rows[d]
          /\ UNCHANGED <<clock, rows, objects, stage, mem, clearer>>
      BY <1>1 DEF FindStuck, ReadForMarking, hkRest, Stored
    <2>2. \A d \in found : rows[d].processing /\ d \in Stored /\ d \in Dumps /\ rows[d] # NoRow
      BY DEF Overdue, Stored
    <2>3. \A d \in found : stage[d] # "unused" /\ rows[d].status # "completed"
      BY <2>2 DEF FInv, FreshHaveNone, EndedOnce
    <2>4. Stored' = Stored /\ Active' = Active
      BY <2>1 DEF Stored, Active
    <2> HIDE DEF found
    <2>5. OneAge' /\ RemovedOld' /\ EndedOnce'
      BY <2>1, <2>2, <2>3, <2>4 DEF FInv, OneAge, RemovedOld, EndedOnce
    <2> QED BY <2>1, <2>4, <2>5 DEF FInv, UploadedHasFile, CompletedHasFile, FreshHaveNone,
                                    NobodyClears, Expired
  <1>2. CASE FindExpired
    <2> DEFINE found == {d \in Stored : Expired(rows[d])}
    <2>1. /\ hk'.pc = "clean" /\ hk'.todo = found
          /\ UNCHANGED <<clock, rows, objects, stage, mem, clearer>>
      BY <1>2 DEF FindExpired, ReadForCleanup, IdleHk, hkRest
    <2>2. Stored' = Stored /\ Active' = Active
      BY <2>1 DEF Stored, Active
    <2>3. \A d \in found : stage[d] # "unused"
      BY DEF FInv, FreshHaveNone, Stored
    <2>4. OneAge' /\ RemovedOld' /\ EndedOnce'
      BY <2>1, <2>2, <2>3 DEF FInv, OneAge, RemovedOld, EndedOnce, Expired
    <2> QED BY <2>1, <2>2, <2>4 DEF FInv, UploadedHasFile, CompletedHasFile, FreshHaveNone,
                                    NobodyClears, Expired
  <1>3. CASE HousekeepingEnds
    <2>1. /\ hk'.pc = "idle"
          /\ UNCHANGED <<clock, rows, objects, stage, mem, clearer>>
      BY <1>3 DEF HousekeepingEnds, IdleHk, hkRest
    <2> QED BY <2>1 DEF FInv, OneAge, RemovedOld, EndedOnce, UploadedHasFile, CompletedHasFile,
                        FreshHaveNone, NobodyClears, Stored, Active, Expired
  <1>4. ASSUME NEW d \in Dumps, MarkStuck(d) PROVE FInv'
    <2>1. hk.pc = "mark" /\ d \in hk.todo /\ hk.copy[d] \in Row /\ hk \in HkState
      BY <1>4 DEF MarkStuck, TInv, CopiesHeld, TypeOK
    <2>2. /\ UNCHANGED <<clock, objects, stage, mem, clearer>>
          /\ hk'.pc = "mark" /\ hk'.todo \subseteq hk.todo
          /\ \A e \in hk'.todo : hk'.copy[e] = hk.copy[e]
      <3>1. CASE hk' = [hk EXCEPT !.todo = @ \ {d}, !.copy[d] = NoRow]
        <4>1. hk'.pc = hk.pc /\ hk'.todo = hk.todo \ {d} /\ hk'.copy = [hk.copy EXCEPT ![d] = NoRow]
          BY <2>1, <3>1 DEF HkState
        <4> QED BY <1>4, <2>1, <4>1 DEF MarkStuck, hkRest, HkState
      <3>2. CASE hk' = [hk EXCEPT !.todo = {}, !.copy = NoRows]
        BY <1>4, <2>1, <3>2 DEF MarkStuck, hkRest, HkState
      <3> QED BY <1>4, <3>1, <3>2 DEF MarkStuck
    <2> DEFINE r == [hk.copy[d] EXCEPT !.stuck = TRUE]
    <2>3. r.created = hk.copy[d].created /\ r.status = hk.copy[d].status
      BY <2>1 DEF Row
    <2>4. rows'[d] \in {r, rows[d]} /\ \A e \in Dumps \ {d} : rows'[e] = rows[e]
      BY <1>4 DEF MarkStuck, TInv, TypeOK
    <2> HIDE DEF r
    <2>5. \A e \in Stored' : \/ e = d /\ rows'[e] = r
                             \/ e \in Stored /\ rows'[e] = rows[e]
      BY <2>4 DEF Stored
    <2>6. Active' = Active /\ r.status # "completed"
      BY <2>1, <2>2, <2>3 DEF Active, FInv, EndedOnce
    <2>7. OneAge'
      BY <2>1, <2>2, <2>3, <2>5, <2>6 DEF FInv, OneAge
    <2>8. RemovedOld' /\ EndedOnce'
      BY <2>1, <2>2, <2>3, <2>5, <2>6 DEF FInv, RemovedOld, EndedOnce
    <2>9. UploadedHasFile' /\ CompletedHasFile'
      BY <2>2, <2>5, <2>6 DEF FInv, UploadedHasFile, CompletedHasFile, Expired
    <2>10. FreshHaveNone' /\ NobodyClears'
      BY <2>1, <2>2, <2>4 DEF FInv, FreshHaveNone, NobodyClears, OneAge
    <2> QED BY <2>7, <2>8, <2>9, <2>10 DEF FInv
  <1>5. ASSUME NEW d \in Dumps, DeleteExpiredObject(d) PROVE FInv'
    <2>1. /\ hk.pc = "clean" /\ d \in hk.todo
          /\ UNCHANGED <<clock, rows, stage, mem, clearer>>
          /\ objects \ {d} \subseteq objects'
          /\ hk'.pc \in {"clean", "row"} /\ hk'.todo = hk.todo \ {d}
      BY <1>5 DEF DeleteExpiredObject, hkRest, TInv, TypeOK, HkState
    <2>2. Stored' = Stored /\ Active' = Active
      BY <2>1 DEF Stored, Active
    <2>3. /\ d \in Stored => Expired(rows[d])
          /\ d \in Active => Expired(mem[d])
      BY <2>1 DEF FInv, RemovedOld
    <2>4. UploadedHasFile' /\ CompletedHasFile'
      BY <2>1, <2>2, <2>3 DEF FInv, UploadedHasFile, CompletedHasFile, Expired, Active, Running
    <2> QED BY <2>1, <2>2, <2>4 DEF FInv, OneAge, RemovedOld, EndedOnce, FreshHaveNone, NobodyClears,
                                    Expired
  <1>6. ASSUME NEW d \in Dumps, DeleteExpiredRow(d) PROVE FInv'
    <2>1. /\ UNCHANGED <<clock, objects, stage, mem, clearer>>
          /\ hk.pc = "row" /\ hk'.pc = "clean" /\ hk'.todo = hk.todo
      BY <1>6 DEF DeleteExpiredRow, hkRest, TInv, TypeOK, HkState
    <2>2. \A e \in Dumps : rows'[e] = rows[e] \/ rows'[e] = NoRow
      BY <1>6 DEF DeleteExpiredRow, Save, TInv, TypeOK
    <2>3. Active' = Active /\ \A e \in Stored' : e \in Stored /\ rows'[e] = rows[e]
      BY <2>1, <2>2 DEF Stored, Active
    <2> QED BY <2>1, <2>2, <2>3 DEF FInv, OneAge, RemovedOld, EndedOnce, UploadedHasFile,
                                    CompletedHasFile, FreshHaveNone, NobodyClears, Expired
  <1> QED BY <1>1, <1>2, <1>3, <1>4, <1>5, <1>6 DEF HousekeepingStep

LEMMA CrashDone == ASSUME TInv, FInv, Crash PROVE FInv'
  <1>1. /\ Active' = {} /\ Stored' = Stored /\ hk'.pc = "idle"
        /\ UNCHANGED <<clock, rows, objects>>
        /\ \A d \in Dumps : stage'[d] # "uploaded"
    BY DEF Crash, Active, Running, Stored, IdleHk
  <1>2. FreshHaveNone' /\ NobodyClears'
    BY DEF Crash, FInv, FreshHaveNone, NobodyClears, IdleClearer
  <1> QED BY <1>1, <1>2 DEF FInv, OneAge, RemovedOld, EndedOnce, UploadedHasFile, CompletedHasFile, Expired

LEMMA TickDone == ASSUME TInv, FInv, Tick PROVE FInv'
  <1>1. Active' = Active /\ Stored' = Stored /\ UNCHANGED <<rows, objects, stage, mem, hk, clearer>>
    BY DEF Tick, Active, Stored, server
  <1>2. ASSUME NEW r \in Row, r.created + ExpireAfter < clock PROVE r.created + ExpireAfter < clock'
    BY <1>2, ConstantsAssumption DEF Tick, Row, TInv, TypeOK
  <1>3. \A d \in Stored : rows[d] \in Row
    BY StoredRow DEF TInv, Stored
  <1>4. \A d \in Active : mem[d] \in Row
    BY DEF TInv, CopiesHeld
  <1>5. RemovedOld'
    BY <1>1, <1>2, <1>3, <1>4 DEF FInv, RemovedOld, Expired
  <1>6. CompletedHasFile'
    BY <1>1, <1>2, <1>3 DEF FInv, CompletedHasFile, Expired
  <1>7. UploadedHasFile'
    BY <1>1, <1>2, <1>4 DEF FInv, UploadedHasFile, Expired, Active, Running
  <1> QED BY <1>1, <1>5, <1>6, <1>7 DEF FInv, OneAge, EndedOnce, FreshHaveNone, NobodyClears

LEMMA NextDone == ASSUME Clearers = {}, TInv, FInv, [Next]_vars PROVE FInv'
  <1>1. ASSUME NEW u \in Users PROVE ~ (StartClear(u) \/ ClearStep(u))
    <2>1. clearer[u].pc = "idle"
      BY DEF FInv, NobodyClears
    <2> QED BY <2>1 DEF StartClear, ClearStep, ClearRows, ClearObject
  <1>2. CASE UNCHANGED vars
    BY <1>2 DEF vars, server, FInv, OneAge, RemovedOld, EndedOnce, UploadedHasFile, CompletedHasFile,
                FreshHaveNone, NobodyClears, Stored, Active, Expired
  <1> QED BY <1>1, <1>2, TickDone, CrashDone, HousekeepingDone, CreateDone, JobDone DEF Next

\* What is reported as completed can be downloaded until it expires, whatever fails, crashes or
\* is late, provided that nobody deletes their exports (Clearers).
THEOREM CompletedIsThere ==
  ASSUME Clearers = {}
  PROVE  Spec => []CompletedHasFile
  <1>1. TInv /\ FInv /\ [Next]_vars => FInv'
    BY NextDone
  <1>2. FInv => CompletedHasFile
    BY DEF FInv
  <1> QED BY <1>1, <1>2, InitDone, TypesInvariant, PTL DEF Spec

=============================================================================
