--------------------------- MODULE SignupProofs ---------------------------
(***************************************************************************)
(* Proofs about Signup for any number of requests, names, invite codes and *)
(* failing queries, whether sign-up is open or not.                        *)
(***************************************************************************)
EXTENDS Signup, FiniteSetTheorems, TLAPS

Past == {"validate", "count", "find", "insert"}   \* past the invite code
ReqState == [pc : Past \union {"idle", "code", "revoke", "revokeOld", "created", "exists", "refused"},
             name : Names \union {""}, code : Codes \union {NoCode}, token : BOOLEAN,
             by : Codes \union {NoCode}, first : BOOLEAN]

\* Every request is a request, and one that has arrived asks for a name.
ReqsTyped ==
    /\ req \in [Reqs -> ReqState]
    /\ \A r \in Reqs : At(r, "idle") \/ req[r].name \in Names

TInv == TypeOK /\ ReqsTyped

\* Who was told that the account was created has one.
CreatedHasAccount == \A r \in Reqs : At(r, "created") => \E u \in users : u.name = req[r].name

\* Codes that open the door, and inviters that requests have found, were generated; who has
\* no inviter came in by open sign-up or with the administrator's token.
EntryPaid ==
    /\ \A k \in codes : k.code \in given
    /\ \A u \in users : u.by \in given \union {NoCode}
    /\ \A u \in users : ~ u.open => u.by \in given
    /\ \A r \in Reqs :
          /\ req[r].by \in given \union {NoCode}
          /\ At(r, "code") => req[r].by = NoCode /\ (req[r].token \/ config.allow \/ req[r].code # NoCode)
          /\ At(r, "revoke") => req[r].by = req[r].code /\ req[r].by \in given
          /\ req[r].pc \in Past => req[r].token \/ config.allow \/ req[r].by \in given

\* Requests come one by one.
OneByOne == \A q, r \in Reqs : At(q, "idle") \/ Done(q) \/ At(r, "idle") \/ Done(r) \/ q = r

\* A code is in one place: still to be used, in the hands of a request, or an account's.
CodeUsedOnce ==
    /\ \A u, v \in users : u.by = v.by /\ u.by # NoCode => u = v
    /\ \A k \in codes, u \in users : u.by # k.code
    /\ \A r \in Reqs, u \in users :
          At(r, "revoke") \/ req[r].pc \in Past => req[r].by = NoCode \/ u.by # req[r].by
    /\ \A r \in Reqs, k \in codes : req[r].pc \in Past => req[r].by # k.code

\* The count that a request has made is still right when its row is inserted.
CountStillRight ==
    /\ users = {} \/ \E u \in users : {v \in users : v.admin} = {u}
    /\ \A r \in Reqs : req[r].pc \in {"find", "insert"} => (req[r].first <=> users = {})

\* When requests come one by one and no query fails.
Calm    == ~ overlap /\ faults = 0
CalmInv == ~ overlap => OneByOne /\ (faults = 0 => CodeUsedOnce /\ CountStillRight)

----------------------------------------------------------------------------
(***************************************************************************)
(* Types.                                                                  *)
(***************************************************************************)
LEMMA InitTypes == ASSUME Init PROVE TInv
  <1>1. Idle \in ReqState
    BY DEF Idle, ReqState, Past
  <1>2. ReqsTyped
    BY <1>1 DEF Init, ReqsTyped, At, Idle
  <1>3. users \subseteq Accounts /\ \A u, v \in users : u.name = v.name => u = v
    <2>1. [name |-> Founder, admin |-> TRUE, by |-> NoCode, open |-> TRUE] \in Accounts
      BY DEF Accounts
    <2> QED BY <2>1 DEF Init
  <1>4. \A r \in Reqs : req[r].code \in Codes \union {NoCode}
    BY <1>2 DEF ReqsTyped, ReqState
  <1> QED BY <1>2, <1>3, <1>4 DEF Init, TInv, TypeOK

LEMMA FaultTypes == ASSUME faults \in Nat, Fault \/ UNCHANGED faults PROVE faults' \in Nat
  BY DEF Fault

\* A step of the form To keeps the requests' types.
LEMMA ToTypes ==
  ASSUME TInv, NEW r \in Reqs, ~ At(r, "idle"),
         NEW pc \in {"code", "created", "exists", "refused", "validate", "count", "find", "insert"},
         To(r, pc)
  PROVE  ReqsTyped' /\ \A q \in Reqs : req'[q].code = req[q].code
  <1>1. req[r] \in ReqState
    BY DEF TInv, ReqsTyped
  <1>2. [req[r] EXCEPT !.pc = pc] \in ReqState
    BY <1>1 DEF ReqState, Past
  <1> QED BY <1>1, <1>2 DEF To, TInv, ReqsTyped, At

LEMMA ArriveTypes == ASSUME TInv, NEW r \in Reqs, Arrive(r) PROVE TInv'
  <1>1. PICK n \in Names, c \in Codes \union {NoCode}, t \in BOOLEAN :
          req' = [req EXCEPT ![r] = [Idle EXCEPT !.name = n, !.code = c, !.token = t,
              !.pc = IF t \/ config.allow \/ (config.invites /\ c # NoCode)
                     THEN "code" ELSE "refused"]]
    BY DEF Arrive
  <1>2. req'[r] \in ReqState /\ req'[r].name \in Names
    BY <1>1 DEF Idle, ReqState, Past, TInv, ReqsTyped
  <1>3. ReqsTyped'
    BY <1>1, <1>2 DEF ReqsTyped, TInv, At
  <1> QED BY <1>2, <1>3 DEF TInv, TypeOK, ReqsTyped, Arrive, ReqState

LEMMA ReadCodeTypes == ASSUME TInv, NEW r \in Reqs, ReadCode(r) PROVE TInv'
  <1>1. faults' \in Nat
    BY FaultTypes DEF ReadCode, TInv, TypeOK
  <1>2. ReqsTyped'
    <2>1. ASSUME NEW k \in codes,
                 req' = [req EXCEPT ![r].pc = IF k.old THEN "revokeOld" ELSE "revoke",
                                    ![r].by = k.code]
          PROVE  ReqsTyped'
      <3>1. req[r] \in ReqState /\ k.code \in Codes /\ req[r].name \in Names
        BY DEF TInv, ReqsTyped, TypeOK, At, ReadCode
      <3>2. req'[r] \in ReqState /\ req'[r].name = req[r].name
        BY <2>1, <3>1 DEF ReqState, Past, TInv, ReqsTyped
      <3> QED BY <2>1, <3>1, <3>2 DEF ReqsTyped, TInv, At
    <2>2. CASE To(r, IF req[r].code = NoCode THEN "validate" ELSE "refused")
      BY <2>2, ToTypes DEF ReadCode, At
    <2> QED BY <2>1, <2>2 DEF ReadCode
  <1> QED BY <1>1, <1>2 DEF TInv, TypeOK, ReqsTyped, ReadCode, ReqState

LEMMA RevokeCodeTypes == ASSUME TInv, NEW r \in Reqs, RevokeCode(r) PROVE TInv'
  <1>1. faults' \in Nat
    BY FaultTypes DEF RevokeCode, TInv, TypeOK
  <1>2. ReqsTyped'
    BY ToTypes DEF RevokeCode, At
  <1> QED BY <1>1, <1>2 DEF TInv, TypeOK, ReqsTyped, RevokeCode, ReqState

LEMMA ValidateTypes == ASSUME TInv, NEW r \in Reqs, Validate(r) PROVE TInv'
  <1>1. ReqsTyped'
    BY ToTypes DEF Validate, At
  <1> QED BY <1>1 DEF TInv, TypeOK, ReqsTyped, Validate, ReqState

LEMMA CountUsersTypes == ASSUME TInv, NEW r \in Reqs, CountUsers(r) PROVE TInv'
  <1>1. faults' \in Nat
    BY FaultTypes DEF CountUsers, TInv, TypeOK
  <1>2. PICK f \in BOOLEAN : req' = [req EXCEPT ![r].pc = "find", ![r].first = f]
    BY DEF CountUsers
  <1>3. req[r] \in ReqState /\ req[r].name \in Names
    BY DEF TInv, ReqsTyped, CountUsers, At
  <1>4. req'[r] \in ReqState /\ req'[r].name = req[r].name
    BY <1>2, <1>3 DEF ReqState, Past, TInv, ReqsTyped
  <1>5. ReqsTyped'
    BY <1>2, <1>3, <1>4 DEF ReqsTyped, TInv, At
  <1> QED BY <1>1, <1>5 DEF TInv, TypeOK, ReqsTyped, CountUsers, ReqState

LEMMA FindOneTypes == ASSUME TInv, NEW r \in Reqs, FindOne(r) PROVE TInv'
  <1>1. faults' \in Nat
    BY FaultTypes DEF FindOne, TInv, TypeOK
  <1>2. ReqsTyped'
    BY ToTypes DEF FindOne, At
  <1> QED BY <1>1, <1>2 DEF TInv, TypeOK, ReqsTyped, FindOne, ReqState

\* The account that a request inserts.
NewAccount(r) == [name |-> req[r].name, admin |-> req[r].first, by |-> req[r].by,
                  open |-> req[r].token \/ config.allow]

LEMMA CreateTypes == ASSUME TInv, NEW r \in Reqs, Create(r) PROVE TInv'
  <1>1. faults' \in Nat
    BY FaultTypes DEF Create, TInv, TypeOK
  <1>2. ReqsTyped'
    BY ToTypes DEF Create, At
  <1>3. users' \subseteq Accounts /\ \A u, v \in users' : u.name = v.name => u = v
    <2>1. CASE UNCHANGED users
      BY <2>1 DEF TInv, TypeOK
    <2>2. CASE users' = users \union {NewAccount(r)} /\ \A u \in users : u.name # req[r].name
      <3>1. req[r] \in ReqState /\ req[r].name \in Names /\ config.allow \in BOOLEAN
        BY DEF TInv, ReqsTyped, TypeOK, Create, At
      <3>2. NewAccount(r) \in Accounts /\ NewAccount(r).name = req[r].name
        BY <3>1 DEF NewAccount, Accounts, ReqState
      <3> QED BY <2>2, <3>2 DEF TInv, TypeOK
    <2> QED BY <2>1, <2>2 DEF Create, NewAccount
  <1> QED BY <1>1, <1>2, <1>3 DEF TInv, TypeOK, ReqsTyped, Create, ReqState

LEMMA CodeTypes == ASSUME TInv, GenerateInvite \/ CodeAges PROVE TInv'
  <1>1. CASE GenerateInvite
    <2>1. PICK c \in Codes : /\ codes' = codes \union {[code |-> c, old |-> FALSE]}
                            /\ given' = given \union {c}
      BY <1>1 DEF GenerateInvite
    <2>2. [code |-> c, old |-> FALSE] \in [code : Codes, old : BOOLEAN]
      OBVIOUS
    <2> QED BY <1>1, <2>1, <2>2 DEF GenerateInvite, TInv, TypeOK, ReqsTyped, At
  <1>2. CASE CodeAges
    <2>1. PICK k \in codes : codes' = (codes \ {k}) \union {[k EXCEPT !.old = TRUE]}
      BY <1>2 DEF CodeAges
    <2>2. [k EXCEPT !.old = TRUE] \in [code : Codes, old : BOOLEAN]
      BY DEF TInv, TypeOK
    <2> QED BY <1>2, <2>1, <2>2 DEF CodeAges, TInv, TypeOK, ReqsTyped, At
  <1> QED BY <1>1, <1>2

LEMMA NextTypes == ASSUME TInv, [Next]_vars PROVE TInv'
  <1>1. CASE UNCHANGED vars
    BY <1>1 DEF vars, TInv, TypeOK, ReqsTyped, At
  <1> QED
    BY <1>1, ArriveTypes, ReadCodeTypes, RevokeCodeTypes, ValidateTypes, CountUsersTypes,
       FindOneTypes, CreateTypes, CodeTypes DEF Next, ReqStep

THEOREM TypesInvariant == Spec => []TInv
  BY InitTypes, NextTypes, PTL DEF Spec

\* Every variable of sign-up keeps its type, and no two accounts share a name, however
\* requests overlap (the users' table has the name as its key).
THEOREM TypeCorrect == Spec => []TypeOK
  <1>1. TInv => TypeOK
    BY DEF TInv
  <1> QED BY <1>1, TypesInvariant, PTL

----------------------------------------------------------------------------
(***************************************************************************)
(* What the steps of a request do to the requests.                         *)
(***************************************************************************)
\* The step keeps what the request asks for and who invited it.
SameRequest(r) ==
    /\ req'[r].name = req[r].name /\ req'[r].code = req[r].code
    /\ req'[r].token = req[r].token /\ req'[r].by = req[r].by

LEMMA ToOnly ==
  ASSUME TInv, NEW r \in Reqs, NEW pc, To(r, pc)
  PROVE  /\ req'[r].pc = pc /\ SameRequest(r) /\ req'[r].first = req[r].first
         /\ \A q \in Reqs : q # r => req'[q] = req[q]
  <1>1. req \in [Reqs -> ReqState] /\ req[r] \in ReqState
    BY DEF TInv, ReqsTyped
  <1>2. req' = [req EXCEPT ![r] = [req[r] EXCEPT !.pc = pc]]
    BY DEF To
  <1>3. req'[r] = [req[r] EXCEPT !.pc = pc]
    BY <1>1, <1>2
  <1> QED BY <1>1, <1>2, <1>3 DEF ReqState, SameRequest

LEMMA CountOnly ==
  ASSUME TInv, NEW r \in Reqs, CountUsers(r)
  PROVE  /\ req'[r].pc = "find" /\ SameRequest(r)
         /\ \A q \in Reqs : q # r => req'[q] = req[q]
         /\ faults' = faults => req'[r].first = (users = {})
  <1>1. req \in [Reqs -> ReqState] /\ req[r] \in ReqState /\ faults \in Nat
    BY DEF TInv, ReqsTyped, TypeOK
  <1>2. CASE req' = [req EXCEPT ![r].pc = "find", ![r].first = (users = {})]
    <2>1. req'[r] = [req[r] EXCEPT !.pc = "find", !.first = (users = {})]
      BY <1>1, <1>2
    <2> QED BY <1>1, <1>2, <2>1 DEF ReqState, SameRequest
  <1>3. CASE Fault /\ req' = [req EXCEPT ![r].pc = "find", ![r].first = TRUE]
    <2>1. req'[r] = [req[r] EXCEPT !.pc = "find", !.first = TRUE]
      BY <1>1, <1>3
    <2>2. faults' # faults
      BY <1>1, <1>3 DEF Fault
    <2> QED BY <1>1, <1>3, <2>1, <2>2 DEF ReqState, SameRequest
  <1> QED BY <1>2, <1>3 DEF CountUsers

\* A request that finds its code in the store has it as its inviter.
LEMMA ReadOnly ==
  ASSUME TInv, NEW r \in Reqs, ReadCode(r)
  PROVE  /\ \A q \in Reqs : q # r => req'[q] = req[q]
         /\ \/ /\ \E k \in codes : k.code = req[r].code
               /\ req'[r].pc \in {"revoke", "revokeOld"} /\ req'[r].by = req[r].code
               /\ req'[r].code = req[r].code
            \/ /\ req'[r].pc = "validate" /\ req[r].code = NoCode /\ SameRequest(r)
            \/ /\ req'[r].pc = "refused" /\ SameRequest(r)
  <1>1. req \in [Reqs -> ReqState] /\ req[r] \in ReqState
    BY DEF TInv, ReqsTyped
  <1>2. ASSUME NEW k \in codes, k.code = req[r].code,
               req' = [req EXCEPT ![r].pc = IF k.old THEN "revokeOld" ELSE "revoke",
                                  ![r].by = k.code]
        PROVE  /\ \A q \in Reqs : q # r => req'[q] = req[q]
               /\ req'[r].pc \in {"revoke", "revokeOld"} /\ req'[r].by = req[r].code
               /\ req'[r].code = req[r].code
    <2>1. PICK pc \in {"revoke", "revokeOld"} : req' = [req EXCEPT ![r].pc = pc, ![r].by = k.code]
      BY <1>2
    <2>2. req'[r] = [req[r] EXCEPT !.pc = pc, !.by = k.code]
      BY <1>1, <2>1
    <2> QED BY <1>1, <1>2, <2>1, <2>2 DEF ReqState
  <1>3. CASE To(r, IF req[r].code = NoCode THEN "validate" ELSE "refused")
    <2>1. PICK pc \in {"validate", "refused"} : To(r, pc) /\ (pc = "validate" => req[r].code = NoCode)
      BY <1>3
    <2> QED BY <2>1, ToOnly
  <1> QED BY <1>2, <1>3 DEF ReadCode

LEMMA ArriveOnly ==
  ASSUME TInv, NEW r \in Reqs, Arrive(r)
  PROVE  /\ \A q \in Reqs : q # r => req'[q] = req[q]
         /\ req'[r].by = NoCode /\ req'[r].pc \in {"code", "refused"}
         /\ req'[r].pc = "code" => req'[r].token \/ config.allow \/ req'[r].code # NoCode
  <1>1. req \in [Reqs -> ReqState]
    BY DEF TInv, ReqsTyped
  <1>2. PICK n \in Names, c \in Codes \union {NoCode}, t \in BOOLEAN :
          req' = [req EXCEPT ![r] = [Idle EXCEPT !.name = n, !.code = c, !.token = t,
              !.pc = IF t \/ config.allow \/ (config.invites /\ c # NoCode)
                     THEN "code" ELSE "refused"]]
    BY DEF Arrive
  <1> QED BY <1>1, <1>2 DEF Idle

----------------------------------------------------------------------------
(***************************************************************************)
(* One request per name is told that it created the account.               *)
(***************************************************************************)
LEMMA InitIdle == ASSUME Init, NEW r \in Reqs PROVE req[r].pc = "idle" /\ req[r].by = NoCode
  BY DEF Init, Idle

LEMMA InitCreated == ASSUME Init PROVE CreatedHasAccount /\ CreatedOnce
  BY InitIdle DEF CreatedHasAccount, CreatedOnce, At

\* Only Create answers "created", and the account that it inserts was not there; no account
\* is lost.
LEMMA NextCreated ==
  ASSUME TInv, CreatedHasAccount, CreatedOnce, [Next]_vars
  PROVE  CreatedHasAccount' /\ CreatedOnce'
  <1> USE DEF CreatedHasAccount, CreatedOnce, At
  <1>1. ASSUME NEW r \in Reqs,
               Arrive(r) \/ ReadCode(r) \/ RevokeCode(r) \/ Validate(r) \/ CountUsers(r) \/ FindOne(r)
        PROVE  CreatedHasAccount' /\ CreatedOnce'
    <2>1. (\A q \in Reqs : q # r => req'[q] = req[q]) /\ req'[r].pc # "created"
      <3>1. CASE Arrive(r)
        BY <3>1, ArriveOnly
      <3>2. CASE ReadCode(r)
        BY <3>2, ReadOnly
      <3>3. CASE CountUsers(r)
        BY <3>3, CountOnly
      <3>4. CASE RevokeCode(r)
        BY <3>4, ToOnly DEF RevokeCode
      <3>5. CASE Validate(r)
        BY <3>5, ToOnly DEF Validate
      <3>6. CASE FindOne(r)
        BY <3>6, ToOnly DEF FindOne
      <3> QED BY <1>1, <3>1, <3>2, <3>3, <3>4, <3>5, <3>6
    <2>2. users' = users
      BY <1>1 DEF Arrive, ReadCode, RevokeCode, Validate, CountUsers, FindOne
    <2> QED BY <2>1, <2>2
  <1>2. ASSUME NEW r \in Reqs, Create(r) PROVE CreatedHasAccount' /\ CreatedOnce'
    <2>1. req'[r].name = req[r].name /\ \A q \in Reqs : q # r => req'[q] = req[q]
      BY <1>2, ToOnly DEF Create, SameRequest
    <2>2. CASE To(r, "refused") /\ users' = users
      BY <2>1, <2>2, ToOnly
    <2>3. CASE users' = users \union {NewAccount(r)} /\ \A u \in users : u.name # req[r].name
      <3>1. NewAccount(r).name = req[r].name /\ NewAccount(r) \in users'
        BY <2>3 DEF NewAccount
      <3>2. \A q \in Reqs : q # r /\ req[q].name = req[r].name => req[q].pc # "created"
        BY <2>3
      <3> QED BY <2>1, <2>3, <3>1, <3>2
    <2> QED BY <1>2, <2>2, <2>3 DEF Create, NewAccount
  <1>3. CASE GenerateInvite \/ CodeAges \/ UNCHANGED vars
    BY <1>3 DEF GenerateInvite, CodeAges, vars
  <1> QED BY <1>1, <1>2, <1>3 DEF Next, ReqStep

\* "account created successfully" is answered to one request for a name, however requests
\* overlap between the lookup and the insertion, and whatever queries fail.
THEOREM OneCreator == Spec => []CreatedOnce
  <1>2. TInv /\ CreatedHasAccount /\ CreatedOnce /\ [Next]_vars => CreatedHasAccount' /\ CreatedOnce'
    BY NextCreated
  <1> QED BY <1>2, InitCreated, TypesInvariant, PTL DEF Spec

----------------------------------------------------------------------------
(***************************************************************************)
(* An invite code admits one account.                                      *)
(***************************************************************************)
LEMMA InitEntry == ASSUME Init PROVE EntryPaid
  <1>1. users = {} \/ users = {[name |-> Founder, admin |-> TRUE, by |-> NoCode, open |-> TRUE]}
    BY DEF Init
  <1>2. \A u \in users : u.by = NoCode /\ u.open
    BY <1>1
  <1> QED BY <1>2, InitIdle DEF Init, EntryPaid, At, Past

\* Who gets past the code has shown the token, has come by open sign-up, or has read a code
\* that was stored.
LEMMA NextEntry == ASSUME TInv, EntryPaid, [Next]_vars PROVE EntryPaid'
  <1> USE DEF EntryPaid, At, Past
  <1>1. ASSUME NEW r \in Reqs, Arrive(r) PROVE EntryPaid'
    <2>1. UNCHANGED <<codes, given, users, config>>
      BY <1>1 DEF Arrive
    <2> QED BY <1>1, <2>1, ArriveOnly
  <1>2. ASSUME NEW r \in Reqs, ReadCode(r) PROVE EntryPaid'
    <2>1. UNCHANGED <<codes, given, users, config>> /\ At(r, "code")
      BY <1>2 DEF ReadCode
    <2>2. \A q \in Reqs : q # r => req'[q] = req[q]
      BY <1>2, ReadOnly
    <2>3. CASE /\ \E k \in codes : k.code = req[r].code
               /\ req'[r].pc \in {"revoke", "revokeOld"} /\ req'[r].by = req[r].code
               /\ req'[r].code = req[r].code
      BY <2>1, <2>2, <2>3
    <2>4. CASE req'[r].pc = "validate" /\ req[r].code = NoCode /\ SameRequest(r)
      BY <2>1, <2>2, <2>4 DEF SameRequest
    <2>5. CASE req'[r].pc = "refused" /\ SameRequest(r)
      BY <2>1, <2>2, <2>5 DEF SameRequest
    <2> QED BY <1>2, <2>3, <2>4, <2>5, ReadOnly
  <1>3. ASSUME NEW r \in Reqs, RevokeCode(r) \/ Validate(r) \/ CountUsers(r) \/ FindOne(r)
        PROVE  EntryPaid'
    <2>1. /\ \A q \in Reqs : q # r => req'[q] = req[q]
          /\ req'[r].by = req[r].by /\ req'[r].token = req[r].token
          /\ req'[r].pc \in Past \union {"exists", "refused"}
          /\ req'[r].pc \in Past => req[r].pc = "revoke" \/ req[r].pc \in Past
      <3>1. CASE RevokeCode(r)
        BY <3>1, ToOnly DEF RevokeCode, SameRequest
      <3>2. CASE Validate(r)
        BY <3>2, ToOnly DEF Validate, SameRequest
      <3>3. CASE CountUsers(r)
        BY <3>3, CountOnly DEF CountUsers, SameRequest
      <3>4. CASE FindOne(r)
        BY <3>4, ToOnly DEF FindOne, SameRequest
      <3> QED BY <1>3, <3>1, <3>2, <3>3, <3>4
    <2>2. codes' \subseteq codes /\ UNCHANGED <<users, given, config>>
      BY <1>3 DEF RevokeCode, Validate, CountUsers, FindOne
    <2> QED BY <2>1, <2>2
  <1>4. ASSUME NEW r \in Reqs, Create(r) PROVE EntryPaid'
    <2>1. /\ \A q \in Reqs : q # r => req'[q] = req[q]
          /\ req'[r].by = req[r].by /\ req'[r].pc \in {"created", "refused"} /\ req[r].pc \in Past
      BY <1>4, ToOnly DEF Create, SameRequest
    <2>2. users' \subseteq users \union {NewAccount(r)} /\ UNCHANGED <<codes, given, config>>
      BY <1>4 DEF Create, NewAccount
    <2>3. NewAccount(r).by = req[r].by /\ (~ NewAccount(r).open => req[r].by \in given)
      BY <2>1 DEF NewAccount
    <2> QED BY <2>1, <2>2, <2>3
  <1>5. CASE GenerateInvite
    <2>1. PICK c \in Codes : /\ codes' = codes \union {[code |-> c, old |-> FALSE]}
                            /\ given' = given \union {c}
      BY <1>5 DEF GenerateInvite
    <2> QED BY <1>5, <2>1 DEF GenerateInvite
  <1>6. CASE CodeAges
    <2>1. PICK k \in codes : codes' = (codes \ {k}) \union {[k EXCEPT !.old = TRUE]}
      BY <1>6 DEF CodeAges
    <2>2. [k EXCEPT !.old = TRUE].code = k.code
      BY DEF TInv, TypeOK
    <2> QED BY <1>6, <2>1, <2>2 DEF CodeAges
  <1>7. CASE UNCHANGED vars
    BY <1>7 DEF vars
  <1> QED BY <1>1, <1>2, <1>3, <1>4, <1>5, <1>6, <1>7 DEF Next, ReqStep

----------------------------------------------------------------------------
(***************************************************************************)
(* Requests one by one: who is past a step is the only one under way.      *)
(***************************************************************************)
\* A step ends a request or lets it go on; the others that are under way are none.
LEMMA StepAlone ==
  ASSUME TInv, OneByOne, ~ overlap, NEW r \in Reqs, Arrive(r) \/ ReqStep(r)
  PROVE  /\ OneByOne'
         /\ \A q \in Reqs : q # r => req'[q] = req[q] /\ (At(q, "idle") \/ Done(q))
  <1> USE DEF OneByOne, At, Done
  <1>1. \A q \in Reqs : q # r => req'[q] = req[q]
    BY ArriveOnly, ReadOnly, CountOnly, ToOnly DEF ReqStep, RevokeCode, Validate, FindOne, Create
  <1>2. \A q \in Reqs : q # r => At(q, "idle") \/ Done(q)
    <2>1. CASE Arrive(r)
      BY <2>1 DEF Arrive
    <2>2. CASE ReqStep(r)
      <3>1. ~ (At(r, "idle") \/ Done(r))
        BY <2>2 DEF ReqStep, ReadCode, RevokeCode, Validate, CountUsers, FindOne, Create
      <3> QED BY <3>1
    <2> QED BY <2>1, <2>2
  <1> QED BY <1>1, <1>2

LEMMA InitCalm == ASSUME Init PROVE CalmInv
  <1>1. users = {} \/ users = {[name |-> Founder, admin |-> TRUE, by |-> NoCode, open |-> TRUE]}
    BY DEF Init
  <1>2. users = {} \/ \E u \in users : {v \in users : v.admin} = {u}
    <2> DEFINE f == [name |-> Founder, admin |-> TRUE, by |-> NoCode, open |-> TRUE]
    <2>1. f.admin
      OBVIOUS
    <2> HIDE DEF f
    <2>2. users = {f} => {v \in users : v.admin} = {f}
      BY <2>1
    <2> QED BY <1>1, <2>2 DEF f
  <1>3. OneByOne
    BY InitIdle DEF OneByOne, At
  <1>4. CodeUsedOnce
    BY <1>1, InitIdle DEF Init, CodeUsedOnce, At, Past
  <1>5. CountStillRight
    BY <1>2, InitIdle DEF CountStillRight
  <1> QED BY <1>3, <1>4, <1>5 DEF CalmInv

\* A code is taken from the store before its request goes on, and nobody who goes on has it
\* when the account is inserted.
LEMMA ReqCodeUsedOnce ==
  ASSUME NoCode \notin Codes, TInv, EntryPaid, OneByOne, CodeUsedOnce, Calm, faults' = 0,
         NEW r \in Reqs, Arrive(r) \/ ReqStep(r)
  PROVE  CodeUsedOnce'
  <1> USE DEF CodeUsedOnce, At, Past
  <1>0. faults' = faults /\ ~ Fault
    BY DEF Calm, Fault
  <1>a. /\ \A q \in Reqs : q # r => req'[q] = req[q] /\ (At(q, "idle") \/ Done(q))
        /\ \A k \in codes : k.code \in Codes
    BY StepAlone DEF Calm, TInv, TypeOK
  <1>1. CASE Arrive(r)
    <2>1. UNCHANGED <<codes, users>>
      BY <1>1 DEF Arrive
    <2> QED BY <1>1, <1>a, <2>1, ArriveOnly
  <1>2. CASE ReadCode(r)
    <2>1. UNCHANGED <<codes, users>> /\ At(r, "code")
      BY <1>2 DEF ReadCode
    <2>2. CASE /\ \E k \in codes : k.code = req[r].code
               /\ req'[r].pc \in {"revoke", "revokeOld"} /\ req'[r].by = req[r].code
      BY <1>a, <2>1, <2>2
    <2>3. CASE req'[r].pc = "validate" /\ req[r].code = NoCode /\ SameRequest(r)
      <3>1. req[r].by = NoCode
        BY <2>1 DEF EntryPaid
      <3> QED BY <1>a, <2>1, <2>3, <3>1 DEF SameRequest
    <2>4. CASE req'[r].pc = "refused"
      BY <1>a, <2>1, <2>4
    <2> QED BY <1>2, <2>2, <2>3, <2>4, ReadOnly
  <1>3. CASE RevokeCode(r)
    <2>1. /\ users' = users /\ codes' = {k \in codes : k.code # req[r].code}
          /\ To(r, IF At(r, "revoke") THEN "validate" ELSE "refused")
      BY <1>0, <1>3 DEF RevokeCode
    <2>2. req'[r].by = req[r].by /\ req'[r].pc \in {"validate", "refused"}
          /\ (req'[r].pc = "validate" => req[r].pc = "revoke")
      BY <2>1, ToOnly DEF SameRequest
    <2>3. req[r].pc = "revoke" => req[r].by = req[r].code
      BY DEF EntryPaid
    <2> QED BY <1>a, <2>1, <2>2, <2>3
  <1>4. CASE Validate(r) \/ CountUsers(r) \/ FindOne(r)
    <2>1. UNCHANGED <<codes, users>> /\ req[r].pc \in Past
      BY <1>4 DEF Validate, CountUsers, FindOne
    <2>2. req'[r].by = req[r].by /\ req'[r].pc \in Past \union {"exists", "refused"}
      BY <1>4, CountOnly, ToOnly DEF Validate, FindOne, SameRequest
    <2> QED BY <1>a, <2>1, <2>2
  <1>5. CASE Create(r)
    <2>1. /\ codes' = codes /\ req[r].pc \in Past
          /\ users' = users \/ users' = users \union {NewAccount(r)}
      BY <1>5 DEF Create, NewAccount
    <2>2. req'[r].by = req[r].by /\ req'[r].pc \in {"created", "refused"}
      BY <1>5, ToOnly DEF Create, SameRequest
    <2>3. NewAccount(r).by = req[r].by
      BY DEF NewAccount
    <2>4. \A u \in users : req[r].by = NoCode \/ u.by # req[r].by
      BY <2>1
    <2>5. \A k \in codes : req[r].by # k.code
      BY <2>1
    <2>6. \A q \in Reqs : q # r => ~ (req'[q].pc = "revoke" \/ req'[q].pc \in Past)
      BY <1>a DEF Done
    <2> QED BY <2>1, <2>2, <2>3, <2>4, <2>5, <2>6
  <1> QED BY <1>1, <1>2, <1>3, <1>4, <1>5 DEF ReqStep

LEMMA CodeCodeUsedOnce ==
  ASSUME NoCode \notin Codes, TInv, EntryPaid, CodeUsedOnce, GenerateInvite \/ CodeAges
  PROVE  CodeUsedOnce'
  <1> USE DEF CodeUsedOnce, At, Past
  <1>1. CASE GenerateInvite
    <2>1. PICK c \in Codes \ given : codes' = codes \union {[code |-> c, old |-> FALSE]}
      BY <1>1 DEF GenerateInvite
    <2>2. (\A u \in users : u.by # c) /\ (\A r \in Reqs : req[r].by # c)
      BY <2>1 DEF EntryPaid
    <2> QED BY <1>1, <2>1, <2>2 DEF GenerateInvite
  <1>2. CASE CodeAges
    <2>1. PICK k \in codes : codes' = (codes \ {k}) \union {[k EXCEPT !.old = TRUE]}
      BY <1>2 DEF CodeAges
    <2>2. [k EXCEPT !.old = TRUE].code = k.code
      BY DEF TInv, TypeOK
    <2>3. \A m \in codes' : \E n \in codes : m.code = n.code
      BY <2>1, <2>2
    <2>4. UNCHANGED <<users, req>>
      BY <1>2 DEF CodeAges
    <2> QED BY <2>3, <2>4
  <1> QED BY <1>1, <1>2

\* Between the count and the insertion nobody else inserts.
LEMMA ReqCountStillRight ==
  ASSUME TInv, OneByOne, CountStillRight, Calm, faults' = 0,
         NEW r \in Reqs, Arrive(r) \/ ReqStep(r)
  PROVE  CountStillRight'
  <1> USE DEF CountStillRight
  <1>0. faults' = faults /\ ~ Fault
    BY DEF Calm, Fault
  <1>a. \A q \in Reqs : q # r => req'[q] = req[q] /\ req[q].pc \notin {"find", "insert"}
    BY StepAlone DEF Calm, At, Done
  <1>1. CASE Create(r)
    <2>1. req'[r].pc \notin {"find", "insert"}
      BY <1>1, ToOnly DEF Create
    <2>2. CASE users' = users
      BY <1>a, <2>1, <2>2
    <2>3. CASE users' = users \union {NewAccount(r)}
      <3>1. NewAccount(r).admin <=> users = {}
        BY <1>1 DEF NewAccount, Create, At
      <3>2. CASE users = {}
        <4>1. {v \in users' : v.admin} = {NewAccount(r)}
          BY <2>3, <3>1, <3>2
        <4> QED BY <1>a, <2>1, <2>3, <4>1
      <3>3. CASE users # {}
        <4>1. {v \in users' : v.admin} = {v \in users : v.admin}
          BY <2>3, <3>1, <3>3
        <4> QED BY <1>a, <2>1, <2>3, <3>3, <4>1
      <3> QED BY <3>2, <3>3
    <2> QED BY <1>1, <2>2, <2>3 DEF Create, NewAccount
  <1>2. CASE CountUsers(r)
    <2>1. users' = users
      BY <1>2 DEF CountUsers
    <2>2. req'[r].first = (users = {})
      BY <1>0, <1>2, CountOnly
    <2> QED BY <1>a, <2>1, <2>2
  <1>3. CASE FindOne(r)
    <2>1. users' = users /\ req[r].pc = "find"
      BY <1>3 DEF FindOne, At
    <2>2. req'[r].first = req[r].first
      BY <1>3, ToOnly DEF FindOne
    <2> QED BY <1>a, <2>1, <2>2
  <1>4. CASE Arrive(r) \/ ReadCode(r) \/ RevokeCode(r) \/ Validate(r)
    <2>1. users' = users
      BY <1>4 DEF Arrive, ReadCode, RevokeCode, Validate
    <2>2. req'[r].pc \notin {"find", "insert"}
      BY <1>4, ArriveOnly, ReadOnly, ToOnly DEF RevokeCode, Validate
    <2> QED BY <1>a, <2>1, <2>2
  <1> QED BY <1>1, <1>2, <1>3, <1>4 DEF ReqStep

LEMMA NextCalm ==
  ASSUME NoCode \notin Codes, TInv, EntryPaid, CalmInv, [Next]_vars
  PROVE  CalmInv'
  <1>1. overlap' = overlap
    BY DEF Next, ReqStep, GenerateInvite, CodeAges, Arrive, ReadCode, RevokeCode, Validate,
           CountUsers, FindOne, Create, vars
  <1>2. faults' = 0 => faults = 0
    <2>1. faults' = faults \/ Fault
      BY DEF Next, ReqStep, GenerateInvite, CodeAges, Arrive, ReadCode, RevokeCode, Validate,
             CountUsers, FindOne, Create, vars
    <2> QED BY <2>1 DEF Fault, TInv, TypeOK
  <1>3. ASSUME NEW r \in Reqs, Arrive(r) \/ ReqStep(r) PROVE CalmInv'
    BY <1>1, <1>2, <1>3, StepAlone, ReqCodeUsedOnce, ReqCountStillRight DEF CalmInv, Calm
  <1>4. CASE GenerateInvite \/ CodeAges
    <2>1. OneByOne => OneByOne'
      BY <1>4 DEF GenerateInvite, CodeAges, OneByOne, At, Done
    <2>2. CountStillRight => CountStillRight'
      BY <1>4 DEF GenerateInvite, CodeAges, CountStillRight
    <2> QED BY <1>1, <1>2, <1>4, <2>1, <2>2, CodeCodeUsedOnce DEF CalmInv
  <1>5. CASE UNCHANGED vars
    BY <1>5 DEF vars, CalmInv, OneByOne, CodeUsedOnce, CountStillRight, At, Done
  <1> QED BY <1>3, <1>4, <1>5 DEF Next

\* An invite code admits one account when requests come one by one and its deletion does not
\* fail; and whatever overlaps or fails, nobody gets an account while sign-up is closed but by
\* a code that was generated, or the administrator's token.
THEOREM CodeAdmitsOne ==
  ASSUME NoCode \notin Codes
  PROVE  Spec => []OneAccountPerCode
  <1>1. EntryPaid /\ CalmInv => OneAccountPerCode
    BY DEF EntryPaid, CalmInv, CodeUsedOnce, OneAccountPerCode
  <1>2. TInv /\ EntryPaid /\ CalmInv /\ [Next]_vars => EntryPaid' /\ CalmInv'
    BY NextEntry, NextCalm
  <1>3. Init => EntryPaid /\ CalmInv
    BY InitEntry, InitCalm
  <1> QED BY <1>1, <1>2, <1>3, TypesInvariant, PTL DEF Spec

\* There is an administrator as soon as there is an account, and never a second one, when
\* requests come one by one and no count fails.
THEOREM OneAdmin ==
  ASSUME NoCode \notin Codes
  PROVE  Spec => []OneAdministrator
  <1>1. ASSUME CalmInv PROVE OneAdministrator
    <2>1. SUFFICES ASSUME ~ overlap, faults = 0
                   PROVE  Cardinality({u \in users : u.admin}) = IF users = {} THEN 0 ELSE 1
      BY DEF OneAdministrator
    <2>2. users = {} \/ \E u \in users : {v \in users : v.admin} = {u}
      BY <1>1, <2>1 DEF CalmInv, CountStillRight
    <2>3. CASE users = {}
      <3>1. {u \in users : u.admin} = {}
        BY <2>3
      <3> QED BY <2>3, <3>1, FS_EmptySet
    <2>4. CASE users # {}
      BY <2>2, <2>4, FS_Singleton
    <2> QED BY <2>3, <2>4
  <1>2. TInv /\ EntryPaid /\ CalmInv /\ [Next]_vars => EntryPaid' /\ CalmInv'
    BY NextEntry, NextCalm
  <1>3. Init => EntryPaid /\ CalmInv
    BY InitEntry, InitCalm
  <1> QED BY <1>1, <1>2, <1>3, TypesInvariant, PTL DEF Spec

=============================================================================
