------------------------------- MODULE Signup -------------------------------
(***************************************************************************)
(* How accounts come into being: PostSignup of routes/login.go with its    *)
(* invite codes (generated by routes/settings.go and kept in the key-value *)
(* store), and InsertOrGet.  Each database call of the handler is a step.  *)
(***************************************************************************)
EXTENDS Integers, FiniteSets

CONSTANTS
    Reqs,       \* sign-up requests
    Names,      \* user names
    Founder,    \* the name of an account that may be there from the start
    Codes,      \* invite codes that may be generated
    NoCode,     \* the form's invite code is empty (none of Codes)
    MaxFaults   \* bound: failing queries

VARIABLES
    config,   \* allow_signup and invite_codes (chosen at the start)
    overlap,  \* may requests overlap? (chosen at the start)
    codes,    \* key-values "invite_<code>": codes with their age
    users,    \* the accounts
    req,      \* the requests
    given,    \* codes that have been generated (ghost)
    faults

vars == <<config, overlap, codes, users, req, given, faults>>

Idle == [pc |-> "idle", name |-> "", code |-> NoCode, token |-> FALSE,
         by |-> NoCode, first |-> FALSE]

Init ==
    /\ config \in [allow : BOOLEAN, invites : BOOLEAN]
    /\ overlap \in BOOLEAN
    /\ codes = {} /\ given = {}
    /\ users \in {{}, {[name |-> Founder, admin |-> TRUE, by |-> NoCode, open |-> TRUE]}}
    /\ req = [r \in Reqs |-> Idle]
    /\ faults = 0

At(r, pc)  == req[r].pc = pc
To(r, pc)  == req' = [req EXCEPT ![r].pc = pc]
Fault      == faults < MaxFaults /\ faults' = faults + 1
Done(r)    == At(r, "created") \/ At(r, "exists") \/ At(r, "refused")

----------------------------------------------------------------------------
\* actionGenerateInvite: PutString of a new code (a fault is told to the user)
GenerateInvite ==
    /\ users # {}
    /\ \E c \in Codes \ given :
          /\ codes' = codes \union {[code |-> c, old |-> FALSE]}
          /\ given' = given \union {c}
    /\ UNCHANGED <<config, overlap, users, req, faults>>

\* 24 hours after it was generated a code no longer opens the door
CodeAges ==
    /\ \E k \in codes : ~ k.old /\ codes' = (codes \ {k}) \union {[k EXCEPT !.old = TRUE]}
    /\ UNCHANGED <<config, overlap, users, req, given, faults>>

\* the request arrives: refused at once unless sign-up is open, the administrator's
\* token is there, or a code is given and codes are enabled
Arrive(r) ==
    /\ At(r, "idle")
    /\ overlap \/ \A q \in Reqs : At(q, "idle") \/ Done(q)
    /\ \E n \in Names, c \in Codes \union {NoCode}, t \in BOOLEAN :
          req' = [req EXCEPT ![r] = [Idle EXCEPT !.name = n, !.code = c, !.token = t,
              !.pc = IF t \/ config.allow \/ (config.invites /\ c # NoCode)
                     THEN "code" ELSE "refused"]]
    /\ UNCHANGED <<config, overlap, codes, users, given, faults>>

\* GetString: the inviter is taken from a code that is there; a code that is not,
\* or cannot be read, counts as expired
ReadCode(r) ==
    /\ At(r, "code")
    /\ \/ /\ \E k \in codes :
                /\ k.code = req[r].code
                /\ req' = [req EXCEPT ![r].pc = IF k.old THEN "revokeOld" ELSE "revoke",
                                      ![r].by = k.code]
          /\ UNCHANGED faults
       \/ /\ \A k \in codes : k.code # req[r].code
          /\ To(r, IF req[r].code = NoCode THEN "validate" ELSE "refused")
          /\ UNCHANGED faults
       \/ /\ Fault
          /\ To(r, IF req[r].code = NoCode THEN "validate" ELSE "refused")
    /\ UNCHANGED <<config, overlap, codes, users, given>>

\* mutant: the code is not revoked
RevokeCodeNever(r) ==
    /\ At(r, "revoke") \/ At(r, "revokeOld")
    /\ To(r, IF At(r, "revoke") THEN "validate" ELSE "refused")
    /\ UNCHANGED <<config, overlap, codes, users, given, faults>>

\* DeleteString, by a request of its own; a failure is only logged
RevokeCode(r) ==
    /\ At(r, "revoke") \/ At(r, "revokeOld")
    /\ To(r, IF At(r, "revoke") THEN "validate" ELSE "refused")
    /\ \/ codes' = {k \in codes : k.code # req[r].code} /\ UNCHANGED faults
       \/ Fault /\ UNCHANGED codes
    /\ UNCHANGED <<config, overlap, users, given>>

\* the form is validated only now: a code is spent even on a refused form
Validate(r) ==
    /\ At(r, "validate")
    /\ \E pc \in {"count", "refused"} : To(r, pc)
    /\ UNCHANGED <<config, overlap, codes, users, given, faults>>

\* mutant: the table is never taken for empty
CountUsersAlways(r) ==
    /\ At(r, "count")
    /\ req' = [req EXCEPT ![r].pc = "find", ![r].first = Cardinality(users) < 2]
    /\ UNCHANGED <<config, overlap, codes, users, given, faults>>

\* the first account becomes the administrator's; a failing count counts as zero
CountUsers(r) ==
    /\ At(r, "count")
    /\ \/ req' = [req EXCEPT ![r].pc = "find", ![r].first = users = {}] /\ UNCHANGED faults
       \/ Fault /\ req' = [req EXCEPT ![r].pc = "find", ![r].first = TRUE]
    /\ UNCHANGED <<config, overlap, codes, users, given>>

\* mutant: a name that is found is answered as created
FindOneGreedy(r) ==
    /\ At(r, "find")
    /\ To(r, IF \E u \in users : u.name = req[r].name THEN "created" ELSE "insert")
    /\ UNCHANGED <<config, overlap, codes, users, given, faults>>

\* InsertOrGet: an account of that name is returned as it is ...
FindOne(r) ==
    /\ At(r, "find")
    /\ \/ /\ To(r, IF \E u \in users : u.name = req[r].name THEN "exists" ELSE "insert")
          /\ UNCHANGED faults
       \/ Fault /\ To(r, "insert")
    /\ UNCHANGED <<config, overlap, codes, users, given>>

\* ... else the row is inserted, unless the key is taken by now
Create(r) ==
    /\ At(r, "insert")
    /\ \/ /\ \A u \in users : u.name # req[r].name
          /\ users' = users \union {[name |-> req[r].name, admin |-> req[r].first,
                                     by |-> req[r].by, open |-> req[r].token \/ config.allow]}
          /\ To(r, "created")
          /\ UNCHANGED faults
       \/ /\ \E u \in users : u.name = req[r].name
          /\ To(r, "refused")
          /\ UNCHANGED <<users, faults>>
       \/ Fault /\ To(r, "refused") /\ UNCHANGED users
    /\ UNCHANGED <<config, overlap, codes, given>>

ReqStep(r) == \/ ReadCode(r) \/ RevokeCode(r) \/ Validate(r) \/ CountUsers(r)
              \/ FindOne(r) \/ Create(r)

Next == GenerateInvite \/ CodeAges \/ \E r \in Reqs : Arrive(r) \/ ReqStep(r)

Spec == Init /\ [][Next]_vars

----------------------------------------------------------------------------
(***************************************************************************)
(* Properties.                                                             *)
(***************************************************************************)
Accounts == [name : Names \union {Founder}, admin : BOOLEAN, by : Codes \union {NoCode}, open : BOOLEAN]

\* Every variable stays within its type, and no two accounts share a name.
TypeOK ==
    /\ config \in [allow : BOOLEAN, invites : BOOLEAN] /\ overlap \in BOOLEAN
    /\ codes \subseteq [code : Codes, old : BOOLEAN]
    /\ users \subseteq Accounts
    /\ given \subseteq Codes /\ faults \in Nat
    /\ \A r \in Reqs : req[r].code \in Codes \union {NoCode}
    /\ \A u, v \in users : u.name = v.name => u = v

\* "account created successfully" is answered to one request for a name, however
\* requests overlap: the others are told that the name is taken.
CreatedOnce ==
    \A q, r \in Reqs : At(q, "created") /\ At(r, "created") /\ req[q].name = req[r].name
                       => q = r

\* An invite code admits one account (login.go revokes it), when requests come one
\* by one and the deletion does not fail; without open sign-up every account has one.
OneAccountPerCode ==
    /\ (~ overlap /\ faults = 0) => \A u, v \in users : u.by = v.by /\ u.by # NoCode => u = v
    /\ \A u \in users : ~ u.open => u.by \in given

\* The administrator is the first account and the only one, when requests come one
\* by one and the count does not fail.
OneAdministrator ==
    (~ overlap /\ faults = 0) => Cardinality({u \in users : u.admin}) = IF users = {} THEN 0 ELSE 1
============================================================================
