------------------------ MODULE ProvisioningProofs ------------------------
(***************************************************************************)
(* Proofs about Provisioning, for any number of users, tasks, groups and   *)
(* emails, any cache backend and any bounds.                               *)
(***************************************************************************)
EXTENDS Provisioning, TLAPS

-----------------------------------------------------------------------------
(***************************************************************************)
(* The inductive invariant.  What a task has learned and done so far, in   *)
(* terms of the history of its user: where the model keeps only an answer, *)
(* the invariant says which fact about the workspace stands behind it.     *)
(***************************************************************************)

(* A task that exchanges messages about a user is about one. *)
Busy(t) == \/ pc[t] \in {"lookup", "get", "got"}
           \/ pc[t] \in {"write", "wrote"} /\ op[t] # "CreateAccount"

AboutUser(t) ==
    /\ Busy(t) => subject[t] \in Ids
    /\ subject[t] \in Ids => role[subject[t]] # Unused

(* A GET that was answered: a 404 means that the user was seen gone, and a *)
(* role that the user has had - during the task, if nothing is cached.     *)
Answered(t) == pc[t] = "got" =>
    /\ reply[t].code = "NotFound" => Absent \in held[t]
    /\ reply[t].code = "OK" => reply[t].role \in ever[subject[t]]
    /\ reply[t].code = "OK" /\ CacheBackend = "noop" => reply[t].role \in held[t]

(* What made the task write. *)
Decided(t) == pc[t] \in {"write", "wrote"} =>
    /\ op[t] = "Grant" => seen[t] # target[t] /\ (CacheBackend = "noop" => seen[t] \in held[t])
    /\ op[t] = "Revoke" => target[t] # defaultRevokedRole /\ target[t] \in ever[subject[t]]

(* A write that was answered. *)
Written(t) == pc[t] = "wrote" =>
    /\ reply[t].code = "OK" =>
         /\ op[t] = "Grant" => target[t] \in held[t]
         /\ op[t] = "Revoke" => defaultRevokedRole \in held[t]
         /\ op[t] = "CreateAccount" =>
              subject[t] \in Ids /\ RoleMember \in held[t] /\ userName[subject[t]] = email[t]
    /\ reply[t].code = "NotFound" /\ op[t] = "Revoke" => Absent \in held[t]

Idle(t) == pc[t] = "idle" => overwrote[t] = {}

TaskInv(t) ==
    /\ AboutUser(t) /\ Answered(t) /\ Decided(t) /\ Written(t) /\ Idle(t)
    /\ Applied(t) /\ DecidedOnPast(t)
    /\ CacheBackend = "noop" => TrueReport(t)

CacheInv == CacheOnceTrue /\ (CacheBackend = "noop" => \A u \in Ids : cache[u] = Miss)

IInv == TypeOK /\ CacheInv /\ \A t \in Tasks : TaskInv(t)

-----------------------------------------------------------------------------
(* Type correctness. *)

(* Initial states are typed. *)
LEMMA InitTypeOK == Init => TypeOK
<1> SUFFICES ASSUME Init PROVE TypeOK
    OBVIOUS
<1>1. AnyEmail \in Emails
    BY EmailsAssumption DEF AnyEmail
<1>2. StoreTypeOK
    BY RolesAssumption DEF Init, StoreTypeOK
<1>3. Failed("Unknown") \in Reply
    BY DEF Failed, Reply, Code, UserRole
<1>4. [tag |-> "none", replaced |-> NoRole] \in Result
    BY DEF Result, Tags, UserRole
<1>5. ever \in [Ids -> SUBSET (UserRole \cup {Absent, Unused})]
    BY <1>2 DEF Init, StoreTypeOK
<1> QED
    BY <1>1, <1>2, <1>3, <1>4, <1>5, BoundsAssumption
    DEF Init, TypeOK, Steps, Ops, Miss, UserRole

(* Observe keeps the history typed, whatever else the step does. *)
LEMMA ObserveType ==
    ASSUME TypeOK, role' \in [Ids -> UserRole \cup {Absent, Unused}], Observe
    PROVE  /\ held' \in [Tasks -> SUBSET (UserRole \cup {Absent, Unused})]
           /\ ever' \in [Ids -> SUBSET (UserRole \cup {Absent, Unused})]
BY DEF TypeOK, Observe

(* So do the steps that move a task: a report, a jump, another attempt.    *)
LEMMA ReportType ==
    ASSUME TypeOK, NEW t \in Tasks, NEW tag \in Tags, NEW r \in UserRole, Report(t, tag, r)
    PROVE  pc' \in [Tasks -> Steps] /\ result' \in [Tasks -> Result]
BY DEF TypeOK, Report, Goto, Steps, Result

(* ... a jump. *)
LEMMA GotoType ==
    ASSUME TypeOK, NEW t \in Tasks, NEW s \in Steps, Goto(t, s)
    PROVE  pc' \in [Tasks -> Steps]
BY DEF TypeOK, Goto

(* ... an exhausted or another attempt: the counter stays within its bound.*)
LEMMA RetryType ==
    ASSUME TypeOK, NEW t \in Tasks, RetryOrFail(t)
    PROVE  /\ pc' \in [Tasks -> Steps]
           /\ result' \in [Tasks -> Result]
           /\ attempts' \in [Tasks -> 0..MaxAttempts]
<1>1. "lookup" \in Steps /\ "error" \in Tags /\ NoRole \in UserRole
    BY DEF Steps, Tags, UserRole
<1>2. CASE /\ attempts[t] < MaxAttempts
           /\ attempts' = [attempts EXCEPT ![t] = @ + 1]
           /\ Goto(t, "lookup") /\ result' = result
    <2>1. pc' \in [Tasks -> Steps]
        BY <1>1, <1>2, GotoType
    <2>2. attempts[t] + 1 \in 0..MaxAttempts
        BY <1>2, BoundsAssumption DEF TypeOK
    <2>3. attempts' \in [Tasks -> 0..MaxAttempts]
        BY <1>2, <2>2 DEF TypeOK
    <2> QED
        BY <1>2, <2>1, <2>3 DEF TypeOK
<1>3. CASE Report(t, "error", NoRole) /\ attempts' = attempts
    BY <1>1, <1>3, ReportType DEF TypeOK
<1> QED
    BY <1>2, <1>3 DEF RetryOrFail

(* The values the actions store are typed. *)
LEMMA ReplyTypes ==
    ASSUME TypeOK, NEW u \in Ids, NEW r \in UserRole, NEW e \in Emails
    PROVE  /\ handleGetUser(u) \in Reply
           /\ PatchReply(u, r) \in Reply
           /\ DeleteReply(u) \in Reply
           /\ CreateReply(e) \in Reply
BY DEF TypeOK, StoreTypeOK, handleGetUser, PatchReply, applyPatchOp, DeleteReply, CreateReply,
       Failed, Reply, Code, Present, UserRole, supportedRoles

(* ... and so are failures. *)
LEMMA FailedType == \A c \in Code : Failed(c) \in Reply
BY DEF Failed, Reply, UserRole

(* The server's writes keep the store typed. *)
LEMMA SetRoleType ==
    ASSUME TypeOK, NEW u \in Ids, NEW r \in UserRole \cup {Absent}, setRole(u, r)
    PROVE  role' \in [Ids -> UserRole \cup {Absent, Unused}]
BY DEF TypeOK, StoreTypeOK, setRole

(* ... a removal. *)
LEMMA DeleteType ==
    ASSUME TypeOK, NEW u \in Ids, handleDeleteUser(u)
    PROVE  StoreTypeOK'
BY DEF TypeOK, StoreTypeOK, handleDeleteUser, setRole, filterMembers

(* An answer that arrives or is lost. *)
LEMMA DeliverType ==
    ASSUME TypeOK, NEW t \in Tasks, NEW a \in Reply, Deliver(t, a)
    PROVE  reply' \in [Tasks -> Reply] /\ faults' \in 0..MaxFaults
<1>1. \A c \in FaultCode : Failed(c) \in Reply
    BY FailedType DEF FaultCode, Code
<1>2. CASE reply' = [reply EXCEPT ![t] = a] /\ UNCHANGED faults
    BY <1>2 DEF TypeOK
<1>3. CASE /\ faults < MaxFaults
           /\ faults' = faults + 1
           /\ \E c \in FaultCode : reply' = [reply EXCEPT ![t] = Failed(c)]
    BY <1>1, <1>3, BoundsAssumption DEF TypeOK
<1> QED
    BY <1>2, <1>3 DEF Deliver

(* An answer that is cached. *)
LEMMA CacheSetType ==
    ASSUME TypeOK, NEW t \in Tasks, subject[t] \in Ids, CacheSet(t)
    PROVE  cache' \in [Ids -> UserRole \cup {Miss, Undecodable}]
<1>1. Body(t) \in UserRole \cup {Undecodable}
    BY DEF TypeOK, Reply, Body
<1> QED
    BY <1>1 DEF TypeOK, CacheSet

(* A request that arrives. *)
LEMMA BeginType ==
    ASSUME TypeOK, NEW t \in Tasks, NEW o \in Ops, NEW p \in Ids \cup {NonUser},
           NEW r \in UserRole, NEW e \in Emails, NEW valid \in BOOLEAN, NEW first \in Steps,
           Begin(t, o, p, r, e, valid, first)
    PROVE  TypeOK'
<1>1. /\ op' \in [Tasks -> Ops]
      /\ subject' \in [Tasks -> Ids \cup {NonUser}]
      /\ target' \in [Tasks -> UserRole]
      /\ email' \in [Tasks -> Emails]
    BY DEF Begin, TypeOK
<1>2. pc' \in [Tasks -> Steps] /\ result' \in [Tasks -> Result]
    <2>1. "error" \in Tags /\ NoRole \in UserRole
        BY DEF Tags, UserRole
    <2>2. CASE valid
        BY <2>2, GotoType DEF Begin, TypeOK
    <2>3. CASE ~valid
        BY <2>1, <2>3, ReportType DEF Begin, TypeOK
    <2> QED
        BY <2>2, <2>3
<1>3. UNCHANGED <<store, cache, seen, reply, attempts, faults, adminMoves, overwrote>>
    BY DEF Begin
<1>4. /\ held' \in [Tasks -> SUBSET (UserRole \cup {Absent, Unused})]
      /\ ever' \in [Ids -> SUBSET (UserRole \cup {Absent, Unused})]
    BY <1>3, ObserveType DEF Begin, TypeOK, StoreTypeOK, store
<1> QED
    BY <1>1, <1>2, <1>3, <1>4 DEF TypeOK, StoreTypeOK, store

(* A step of a task that does not change the workspace keeps the types,    *)
(* once the variables it changes are typed.                                *)
LEMMA QuietTypeOK ==
    ASSUME TypeOK, UNCHANGED <<store, request, adminMoves, overwrote>>, Observe,
           cache' \in [Ids -> UserRole \cup {Miss, Undecodable}],
           pc' \in [Tasks -> Steps],
           seen' \in [Tasks -> UserRole],
           reply' \in [Tasks -> Reply],
           attempts' \in [Tasks -> 0..MaxAttempts],
           result' \in [Tasks -> Result],
           faults' \in 0..MaxFaults
    PROVE  TypeOK'
<1>1. StoreTypeOK' /\ role' \in [Ids -> UserRole \cup {Absent, Unused}]
    BY DEF TypeOK, StoreTypeOK, store
<1>2. /\ held' \in [Tasks -> SUBSET (UserRole \cup {Absent, Unused})]
      /\ ever' \in [Ids -> SUBSET (UserRole \cup {Absent, Unused})]
    BY <1>1, ObserveType
<1> QED
    BY <1>1, <1>2 DEF TypeOK, request

(* The steps of one task keep the types. *)
LEMMA RunTypeOK ==
    ASSUME TypeOK, NEW t \in Tasks, Busy(t) => subject[t] \in Ids, Run(t)
    PROVE  TypeOK'
<1> USE DEF request
<1>0. /\ \A s \in {"lookup", "get", "got", "write", "wrote"} : s \in Steps
      /\ \A g \in {"ok", "error", "stillExists", "GrantAlreadyExists", "GrantAlreadyRevoked"} : g \in Tags
      /\ NoRole \in UserRole
      /\ \A c \in FaultCode \cup {Undecodable} : Failed(c) \in Reply
    BY FailedType DEF Steps, Tags, UserRole, FaultCode, Code
<1>1. CASE CacheHit(t)
    <2>1. subject[t] \in Ids /\ cache[subject[t]] \in UserRole \cup {Undecodable}
        BY <1>1 DEF CacheHit, Busy, TypeOK
    <2>2. CachedReply(subject[t]) \in Reply
        BY <1>0, <2>1 DEF CachedReply, Reply, Code
    <2>3. reply' \in [Tasks -> Reply]
        BY <1>1, <2>2 DEF CacheHit, TypeOK
    <2> QED
        BY <1>0, <1>1, <2>3, GotoType, QuietTypeOK DEF CacheHit, TypeOK
<1>2. CASE CacheMiss(t)
    BY <1>0, <1>2, GotoType, QuietTypeOK DEF CacheMiss, TypeOK
<1>3. CASE ServeGet(t)
    <2>1. handleGetUser(subject[t]) \in Reply
        BY <1>3, ReplyTypes, <1>0, EmailsAssumption DEF ServeGet, Busy
    <2>2. reply' \in [Tasks -> Reply]
        BY <1>3, <2>1 DEF ServeGet, TypeOK
    <2> QED
        BY <1>0, <1>3, <2>2, GotoType, QuietTypeOK DEF ServeGet, TypeOK
<1>4. CASE GetFault(t)
    <2>1. reply' \in [Tasks -> Reply] /\ faults' \in 0..MaxFaults
        BY <1>0, <1>4, BoundsAssumption DEF GetFault, TypeOK
    <2> QED
        BY <1>0, <1>4, <2>1, GotoType, QuietTypeOK DEF GetFault, TypeOK
<1>5. CASE GrantDecide(t)
    <2>1. cache' \in [Ids -> UserRole \cup {Miss, Undecodable}]
        BY <1>5, CacheSetType DEF GrantDecide, Busy
    <2>2. /\ pc' \in [Tasks -> Steps]
          /\ seen' \in [Tasks -> UserRole]
          /\ attempts' \in [Tasks -> 0..MaxAttempts]
          /\ result' \in [Tasks -> Result]
        BY <1>0, <1>5, GotoType, ReportType, RetryType DEF GrantDecide, TypeOK, Reply
    <2> QED
        BY <1>5, <2>1, <2>2, QuietTypeOK DEF GrantDecide, TypeOK
<1>6. CASE RevokeDecide(t)
    <2>1. cache' \in [Ids -> UserRole \cup {Miss, Undecodable}]
        BY <1>6, CacheSetType DEF RevokeDecide, Busy
    <2>2. /\ pc' \in [Tasks -> Steps]
          /\ seen' \in [Tasks -> UserRole]
          /\ attempts' \in [Tasks -> 0..MaxAttempts]
          /\ result' \in [Tasks -> Result]
        BY <1>0, <1>6, GotoType, ReportType, RetryType DEF RevokeDecide, TypeOK, Reply
    <2> QED
        BY <1>6, <2>1, <2>2, QuietTypeOK DEF RevokeDecide, TypeOK
<1>7. CASE DeleteVerify(t)
    <2>1. cache' \in [Ids -> UserRole \cup {Miss, Undecodable}]
        BY <1>7, CacheSetType DEF DeleteVerify, Busy
    <2>2. pc' \in [Tasks -> Steps] /\ result' \in [Tasks -> Result]
        BY <1>0, <1>7, ReportType DEF DeleteVerify
    <2> QED
        BY <1>7, <2>1, <2>2, QuietTypeOK DEF DeleteVerify, TypeOK
<1>8. CASE ServePatch(t)
    <2>1. subject[t] \in Ids /\ PatchRole(t) \in UserRole
        BY <1>8 DEF ServePatch, Busy, PatchRole, TypeOK, defaultRevokedRole, UserRole, supportedRoles
    <2>2. PatchReply(subject[t], PatchRole(t)) \in Reply
        BY <2>1, ReplyTypes, EmailsAssumption
    <2>3. reply' \in [Tasks -> Reply] /\ faults' \in 0..MaxFaults
        BY <1>8, <2>2, DeliverType DEF ServePatch
    <2>4. role' \in [Ids -> UserRole \cup {Absent, Unused}]
        BY <1>8, <2>1, SetRoleType DEF ServePatch, handlePatchUser, TypeOK, StoreTypeOK
    <2>5. overwrote' \in [Tasks -> SUBSET UserRole]
        BY <1>8, <2>1 DEF ServePatch, TypeOK, Present
    <2>6. /\ held' \in [Tasks -> SUBSET (UserRole \cup {Absent, Unused})]
          /\ ever' \in [Ids -> SUBSET (UserRole \cup {Absent, Unused})]
        BY <1>8, <2>4, ObserveType DEF ServePatch
    <2>7. pc' \in [Tasks -> Steps]
        BY <1>0, <1>8, GotoType DEF ServePatch
    <2> QED
        BY <1>8, <2>3, <2>4, <2>5, <2>6, <2>7 DEF ServePatch, handlePatchUser, TypeOK, StoreTypeOK
<1>9. CASE ServeDelete(t)
    <2>1. subject[t] \in Ids
        BY <1>9 DEF ServeDelete, Busy
    <2>2. DeleteReply(subject[t]) \in Reply
        BY <1>0, <2>1, ReplyTypes, EmailsAssumption
    <2>3. reply' \in [Tasks -> Reply] /\ faults' \in 0..MaxFaults
        BY <1>9, <2>2, DeliverType DEF ServeDelete
    <2>4. StoreTypeOK'
        BY <1>9, <2>1, DeleteType DEF ServeDelete
    <2>5. /\ held' \in [Tasks -> SUBSET (UserRole \cup {Absent, Unused})]
          /\ ever' \in [Ids -> SUBSET (UserRole \cup {Absent, Unused})]
        BY <1>9, <2>4, ObserveType DEF ServeDelete, StoreTypeOK
    <2>6. pc' \in [Tasks -> Steps]
        BY <1>0, <1>9, GotoType DEF ServeDelete
    <2> QED
        BY <1>9, <2>3, <2>4, <2>5, <2>6 DEF ServeDelete, TypeOK
<1>10. CASE ServeCreate(t)
    <2>1. email[t] \in Emails
        BY DEF TypeOK
    <2>2. PICK id \in Ids :
             /\ handleCreateUser(id, email[t])
             /\ subject' = IF NameTaken(email[t]) THEN subject ELSE [subject EXCEPT ![t] = id]
        BY <1>10 DEF ServeCreate
    <2>3. CreateReply(email[t]) \in Reply
        BY <1>0, <2>1, <2>2, ReplyTypes
    <2>4. reply' \in [Tasks -> Reply] /\ faults' \in 0..MaxFaults
        BY <1>10, <2>3, DeliverType DEF ServeCreate
    <2>5. StoreTypeOK'
        BY <2>1, <2>2 DEF handleCreateUser, setRole, TypeOK, StoreTypeOK, UserRole, supportedRoles
    <2>6. /\ held' \in [Tasks -> SUBSET (UserRole \cup {Absent, Unused})]
          /\ ever' \in [Ids -> SUBSET (UserRole \cup {Absent, Unused})]
        BY <1>10, <2>5, ObserveType DEF ServeCreate, StoreTypeOK
    <2>7. pc' \in [Tasks -> Steps]
        BY <1>0, <1>10, GotoType DEF ServeCreate
    <2>8. subject' \in [Tasks -> Ids \cup {NonUser}]
        BY <2>2 DEF TypeOK
    <2> QED
        BY <1>10, <2>4, <2>5, <2>6, <2>7, <2>8 DEF ServeCreate, TypeOK
<1>11. CASE WriteFault(t)
    <2>1. reply' \in [Tasks -> Reply] /\ faults' \in 0..MaxFaults
        BY <1>0, <1>11, BoundsAssumption DEF WriteFault, TypeOK
    <2> QED
        BY <1>0, <1>11, <2>1, GotoType, QuietTypeOK DEF WriteFault, TypeOK
<1>12. CASE GrantFinish(t)
    <2>1. Replaced(t) \in UserRole
        BY <1>0 DEF Replaced, TypeOK
    <2>2. /\ pc' \in [Tasks -> Steps]
          /\ attempts' \in [Tasks -> 0..MaxAttempts]
          /\ result' \in [Tasks -> Result]
        BY <1>0, <1>12, <2>1, ReportType, RetryType DEF GrantFinish, TypeOK
    <2> QED
        BY <1>12, <2>2, QuietTypeOK DEF GrantFinish, TypeOK
<1>13. CASE RevokeFinish(t)
    <2>1. /\ pc' \in [Tasks -> Steps]
          /\ attempts' \in [Tasks -> 0..MaxAttempts]
          /\ result' \in [Tasks -> Result]
        BY <1>0, <1>13, ReportType, RetryType DEF RevokeFinish, TypeOK
    <2> QED
        BY <1>13, <2>1, QuietTypeOK DEF RevokeFinish, TypeOK
<1>14. CASE DeleteCheck(t)
    <2>1. pc' \in [Tasks -> Steps] /\ result' \in [Tasks -> Result]
        BY <1>0, <1>14, GotoType, ReportType DEF DeleteCheck, TypeOK
    <2> QED
        BY <1>14, <2>1, QuietTypeOK DEF DeleteCheck, TypeOK
<1>15. CASE CreateAccountFinish(t)
    <2>1. pc' \in [Tasks -> Steps] /\ result' \in [Tasks -> Result]
        BY <1>0, <1>15, ReportType DEF CreateAccountFinish
    <2> QED
        BY <1>15, <2>1, QuietTypeOK DEF CreateAccountFinish, TypeOK
<1> QED
    BY <1>1, <1>2, <1>3, <1>4, <1>5, <1>6, <1>7, <1>8, <1>9, <1>10, <1>11, <1>12, <1>13, <1>14,
       <1>15 DEF Run

-----------------------------------------------------------------------------
(* The invariant holds initially. *)

(* No task has started and nothing is cached. *)
LEMMA InitIInv == Init => IInv
<1> SUFFICES ASSUME Init PROVE IInv
    OBVIOUS
<1>1. TypeOK
    BY InitTypeOK
<1>2. CacheInv
    BY DEF Init, CacheInv, CacheOnceTrue
<1>3. ASSUME NEW t \in Tasks PROVE TaskInv(t)
    <2>1. pc[t] = "idle" /\ op[t] = "none" /\ overwrote[t] = {} /\ subject[t] = NonUser
        BY DEF Init
    <2> QED
        BY <2>1, NonUserAssumption
        DEF TaskInv, AboutUser, Busy, Answered, Decided, Written, Idle, Applied, DecidedOnPast,
            TrueReport, Done
<1> QED
    BY <1>1, <1>2, <1>3 DEF IInv

-----------------------------------------------------------------------------
(* What every step does to the world, and to the tasks that do not take it.*)

(* Ids are never taken back, and the name of one in use never changes.     *)
Keeps == \A u \in Ids : role[u] # Unused => role'[u] # Unused /\ userName'[u] = userName[u]

SameTask(t) ==
    /\ pc'[t] = pc[t] /\ op'[t] = op[t] /\ subject'[t] = subject[t] /\ target'[t] = target[t]
    /\ email'[t] = email[t] /\ seen'[t] = seen[t] /\ reply'[t] = reply[t]
    /\ result'[t] = result[t] /\ overwrote'[t] = overwrote[t]

(* The history only grows, and holds the role of this very step. *)
LEMMA HistoryGrows ==
    ASSUME TypeOK, Observe
    PROVE  /\ \A u \in Ids : ever[u] \subseteq ever'[u] /\ role'[u] \in ever'[u]
           /\ \A t \in Tasks : held[t] \subseteq held'[t]
           /\ \A t \in Tasks : pc[t] # "done" /\ subject'[t] \in Ids => role'[subject'[t]] \in held'[t]
BY DEF TypeOK, Observe

(* A task that does not move keeps its invariant. *)
LEMMA OtherTask ==
    ASSUME TypeOK, NEW t \in Tasks, TaskInv(t), SameTask(t), Keeps, Observe
    PROVE  TaskInv(t)'
<1>1. held[t] \subseteq held'[t] /\ \A u \in Ids : ever[u] \subseteq ever'[u]
    BY HistoryGrows
<1>2. AboutUser(t)'
    BY DEF TaskInv, AboutUser, Busy, SameTask, Keeps
<1>3. subject[t] \in Ids => userName'[subject[t]] = userName[subject[t]]
    BY DEF TaskInv, AboutUser, Keeps
<1>4. Answered(t)'
    BY <1>1 DEF TaskInv, AboutUser, Busy, Answered, SameTask
<1>5. Decided(t)'
    BY <1>1 DEF TaskInv, AboutUser, Busy, Decided, SameTask
<1>6. Written(t)'
    BY <1>1, <1>3 DEF TaskInv, Written, SameTask
<1>7. Idle(t)'
    BY DEF TaskInv, Idle, SameTask
<1>8. Applied(t)'
    BY <1>1, <1>3 DEF TaskInv, Applied, Done, SameTask
<1>9. DecidedOnPast(t)'
    BY <1>1 DEF TaskInv, DecidedOnPast, Done, SameTask
<1>10. CacheBackend = "noop" => TrueReport(t)'
    BY <1>1 DEF TaskInv, TrueReport, Done, SameTask
<1> QED
    BY <1>2, <1>4, <1>5, <1>6, <1>7, <1>8, <1>9, <1>10 DEF TaskInv

(* If no other task moved, the invariant is that of the task that did. *)
LEMMA OneTaskMoved ==
    ASSUME IInv, NEW t \in Tasks, \A o \in Tasks \ {t} : SameTask(o), Keeps, Observe,
           TypeOK', CacheInv', TaskInv(t)'
    PROVE  IInv'
<1>1. ASSUME NEW o \in Tasks PROVE TaskInv(o)'
    <2>1. CASE o = t
        BY <2>1
    <2>2. CASE o # t
        BY <2>2, OtherTask DEF IInv
    <2> QED
        BY <2>1, <2>2
<1> QED
    BY <1>1 DEF IInv

(* Most steps leave the cache alone. *)
LEMMA SameCache ==
    ASSUME TypeOK, CacheInv, Observe, cache' = cache
    PROVE  CacheInv'
BY HistoryGrows DEF CacheInv, CacheOnceTrue

-----------------------------------------------------------------------------
(* A task arrives. *)

(* A checked request starts with the invariant of its first step. *)
LEMMA BeginIInv ==
    ASSUME IInv, NEW t \in Tasks, NEW o \in Ops, NEW p \in Principals,
           NEW r \in UserRole, NEW e \in Emails, NEW valid \in BOOLEAN,
           NEW first \in {"lookup", "write"},
           first = "lookup" => (valid => p \in Ids),
           first = "write" => o \in {"Delete", "CreateAccount"} /\ (o = "Delete" => p \in Ids),
           Begin(t, o, p, r, e, valid, first)
    PROVE  IInv'
<1>1. first \in Steps /\ p \in Ids \cup {NonUser}
    BY DEF Steps, Principals
<1>2. TypeOK'
    BY <1>1, BeginType DEF IInv
<1>3. Observe /\ Keeps /\ CacheInv'
    BY SameCache DEF Begin, Keeps, store, IInv
<1>4. \A q \in Tasks \ {t} : SameTask(q)
    BY DEF Begin, SameTask, Goto, Report, IInv, TypeOK
<1>5. TaskInv(t)'
    <2>1. /\ op'[t] = o /\ subject'[t] = p /\ target'[t] = r /\ overwrote'[t] = {}
          /\ pc'[t] = IF valid THEN first ELSE "done"
          /\ ~valid => result'[t] = [tag |-> "error", replaced |-> NoRole]
          /\ role' = role
        BY DEF Begin, Goto, Report, IInv, TypeOK, TaskInv, Idle, store
    <2>2. p \in Ids => role'[p] # Unused
        BY <2>1, NonUserAssumption DEF Principals
    <2> QED
        BY <2>1, <2>2 DEF TaskInv, AboutUser, Busy, Answered, Decided, Written, Idle, Applied, DecidedOnPast,
           TrueReport, Done
<1> QED
    BY <1>2, <1>3, <1>4, <1>5, OneTaskMoved

(* Each operation checks its request as BeginIInv asks. *)
LEMMA StartIInv ==
    ASSUME IInv, NEW t \in Tasks, Start(t)
    PROVE  IInv'
<1>0. /\ email[t] \in Emails /\ NoRole \in UserRole /\ NonUser \in Principals
      /\ {"Grant", "Revoke", "Delete", "CreateAccount"} \subseteq Ops
      /\ AskedRoles \subseteq UserRole
    BY RolesAssumption DEF IInv, TypeOK, Ops, UserRole, Principals
<1>1. CASE GrantStart(t)
    <2>1. PICK p \in Principals, r \in AskedRoles :
             Begin(t, "Grant", p, r, email[t], p # NonUser /\ isSupportedRole(r), "lookup")
        BY <1>1 DEF GrantStart
    <2>2. p # NonUser /\ isSupportedRole(r) => p \in Ids
        BY DEF Principals
    <2>3. (p # NonUser /\ isSupportedRole(r)) \in BOOLEAN
        BY DEF isSupportedRole
    <2> QED
        BY <1>0, <2>1, <2>2, <2>3, BeginIInv
<1>2. CASE RevokeStart(t)
    <2>1. PICK p \in Principals, r \in AskedRoles :
             Begin(t, "Revoke", p, r, email[t], p # NonUser /\ isSupportedRole(r), "lookup")
        BY <1>2 DEF RevokeStart
    <2>2. p # NonUser /\ isSupportedRole(r) => p \in Ids
        BY DEF Principals
    <2>3. (p # NonUser /\ isSupportedRole(r)) \in BOOLEAN
        BY DEF isSupportedRole
    <2> QED
        BY <1>0, <2>1, <2>2, <2>3, BeginIInv
<1>3. CASE DeleteStart(t)
    <2>1. PICK p \in Principals \ {NonUser} :
             Begin(t, "Delete", p, NoRole, email[t], TRUE, "write")
        BY <1>3 DEF DeleteStart
    <2>2. p \in Ids
        BY DEF Principals
    <2> QED
        BY <1>0, <2>1, <2>2, BeginIInv
<1>4. CASE CreateAccountStart(t)
    <2>1. PICK e \in Emails, complete \in BOOLEAN :
             Begin(t, "CreateAccount", NonUser, NoRole, e, complete, "write")
        BY <1>4 DEF CreateAccountStart
    <2> QED
        BY <1>0, <2>1, BeginIInv
<1> QED
    BY <1>1, <1>2, <1>3, <1>4 DEF Start

-----------------------------------------------------------------------------
(* The steps of a task.  First those that leave the workspace alone: the   *)
(* others keep their invariant, and the task's own has to be shown.        *)

LEMMA QuietIInv ==
    ASSUME IInv, NEW t \in Tasks, UNCHANGED store, Observe, TypeOK', CacheInv',
           \A o \in Tasks \ {t} : SameTask(o), TaskInv(t)'
    PROVE  IInv'
<1>1. Keeps
    BY DEF Keeps, store
<1> QED
    BY <1>1, OneTaskMoved

(* The cache after a GET was answered. *)
LEMMA CacheSetIInv ==
    ASSUME IInv, NEW t \in Tasks, pc[t] = "got", CacheSet(t), Observe
    PROVE  CacheInv'
<1>1. subject[t] \in Ids /\ (reply[t].code = "OK" => reply[t].role \in ever[subject[t]])
    BY DEF IInv, TaskInv, AboutUser, Busy, Answered
<1>2. \A u \in Ids : ever[u] \subseteq ever'[u]
    BY HistoryGrows DEF IInv
<1>3. CASE Storable(t)
    <2>1. Body(t) # Undecodable => Body(t) \in ever[subject[t]]
        BY <1>1 DEF Body
    <2> QED
        BY <1>1, <1>2, <1>3, <2>1 DEF CacheSet, Storable, CacheInv, CacheOnceTrue, IInv, TypeOK
<1>4. CASE ~Storable(t)
    BY <1>4, SameCache DEF CacheSet, IInv
<1> QED
    BY <1>3, <1>4

(* A failed exchange and its consequences: another attempt or an error.    *)
LEMMA RetryTaskInv ==
    ASSUME IInv, NEW t \in Tasks, subject[t] \in Ids, op[t] \in {"Grant", "Revoke"},
           RetryOrFail(t), UNCHANGED <<store, request, overwrote>>, Observe
    PROVE  TaskInv(t)'
<1>1. \/ pc'[t] = "lookup"
      \/ pc'[t] = "done" /\ result'[t].tag = "error"
    BY DEF RetryOrFail, Goto, Report, IInv, TypeOK
<1>2. DecidedOnPast(t)'
    <2>1. ever[subject[t]] \subseteq ever'[subject[t]]
        BY HistoryGrows DEF IInv
    <2> QED
        BY <1>1, <2>1 DEF IInv, TaskInv, DecidedOnPast, Done, request
<1>3. AboutUser(t)'
    BY DEF IInv, TaskInv, AboutUser, store, request
<1> QED
    BY <1>1, <1>2, <1>3 DEF TaskInv, Answered, Decided, Written, Idle, Applied, TrueReport, Done

(* The GET: from the cache, from the server, or failed. *)
LEMMA LookupIInv ==
    ASSUME IInv, NEW t \in Tasks, TypeOK', CacheHit(t) \/ CacheMiss(t) \/ ServeGet(t) \/ GetFault(t)
    PROVE  IInv'
<1>1. UNCHANGED <<store, request, result, overwrote>> /\ Observe /\ CacheInv'
    BY SameCache DEF CacheHit, CacheMiss, ServeGet, GetFault, IInv
<1>2. \A o \in Tasks \ {t} : SameTask(o)
    BY DEF CacheHit, CacheMiss, ServeGet, GetFault, SameTask, Goto, request, IInv, TypeOK
<1>3. subject[t] \in Ids /\ role[subject[t]] # Unused /\ pc[t] # "done"
    BY DEF CacheHit, CacheMiss, ServeGet, GetFault, IInv, TaskInv, AboutUser, Busy
<1>4. pc'[t] \in {"get", "got"}
    BY DEF CacheHit, CacheMiss, ServeGet, GetFault, Goto, IInv, TypeOK
<1>5. /\ role' = role /\ subject' = subject
      /\ role[subject[t]] \in held'[t] /\ role[subject[t]] \in ever'[subject[t]]
      /\ ever[subject[t]] \subseteq ever'[subject[t]]
    BY <1>1, <1>3, HistoryGrows DEF IInv, store, request
<1>6. Answered(t)'
    <2>1. CASE CacheHit(t)
        <3>1. /\ reply'[t] = CachedReply(subject[t])
              /\ cache[subject[t]] # Miss /\ CacheBackend # "noop"
            BY <1>3, <2>1 DEF CacheHit, IInv, CacheInv, TypeOK
        <3>2. CASE cache[subject[t]] = Undecodable
            BY <3>1, <3>2 DEF CachedReply, Failed, Undecodable, Answered
        <3>3. CASE cache[subject[t]] # Undecodable
            <4>1. cache[subject[t]] \in ever[subject[t]]
                BY <1>3, <3>1, <3>3 DEF IInv, CacheInv, CacheOnceTrue
            <4> QED
                BY <1>5, <3>1, <3>3, <4>1 DEF CachedReply, Answered
        <3> QED
            BY <3>2, <3>3
    <2>2. CASE CacheMiss(t)
        BY <2>2 DEF CacheMiss, Goto, Answered, IInv, TypeOK
    <2>3. CASE ServeGet(t)
        <3>1. reply'[t] = handleGetUser(subject[t])
            BY <2>3 DEF ServeGet, IInv, TypeOK
        <3>2. role[subject[t]] \in UserRole \cup {Absent}
            BY <1>3 DEF IInv, TypeOK, StoreTypeOK
        <3> QED
            BY <1>5, <3>1, <3>2 DEF Answered, handleGetUser, Present, Failed
    <2>4. CASE GetFault(t)
        <3>1. reply'[t].code \in {"Unavailable", "Unknown", "undecodable"}
            BY <2>4 DEF GetFault, Failed, FaultCode, Undecodable, IInv, TypeOK
        <3> QED
            BY <3>1 DEF Answered
    <2> QED
        BY <2>1, <2>2, <2>3, <2>4
<1>7. TaskInv(t)'
    <2>1. AboutUser(t)'
        BY <1>3, <1>5 DEF AboutUser
    <2>2. DecidedOnPast(t)'
        BY <1>1, <1>4, <1>5 DEF IInv, TaskInv, DecidedOnPast, Done, request
    <2> QED
        BY <1>4, <1>6, <2>1, <2>2 DEF TaskInv, Decided, Written, Idle, Applied, TrueReport, Done
<1> QED
    BY <1>1, <1>2, <1>7, QuietIInv

(* The decision after the GET. *)
LEMMA DecideIInv ==
    ASSUME IInv, NEW t \in Tasks, TypeOK', GrantDecide(t) \/ RevokeDecide(t) \/ DeleteVerify(t)
    PROVE  IInv'
<1>1. /\ UNCHANGED <<store, request, reply, overwrote>> /\ Observe
      /\ pc[t] = "got" /\ CacheSet(t)
    BY DEF GrantDecide, RevokeDecide, DeleteVerify
<1>2. CacheInv'
    BY <1>1, CacheSetIInv
<1>3. \A o \in Tasks \ {t} : SameTask(o)
    BY DEF GrantDecide, RevokeDecide, DeleteVerify, RetryOrFail, Report, Goto, SameTask, request,
           IInv, TypeOK
<1>4. /\ subject[t] \in Ids /\ AboutUser(t)'
      /\ held[t] \subseteq held'[t] /\ ever[subject[t]] \subseteq ever'[subject[t]]
    BY <1>1, HistoryGrows DEF IInv, TaskInv, AboutUser, Busy, store, request
<1>5. Answered(t) /\ DecidedOnPast(t) /\ target[t] \in UserRole /\ Absent \notin UserRole
    BY DEF IInv, TaskInv, TypeOK, UserRole, supportedRoles, Absent, NoRole, OtherRole, RoleOwner,
           RoleMembershipAdmin, RoleMember, RoleRestrictedMember
<1>6. TaskInv(t)'
    <2>1. CASE GrantDecide(t) /\ reply[t].code # "OK"
        BY <1>1, <1>4, <2>1, RetryTaskInv DEF GrantDecide
    <2>2. CASE GrantDecide(t) /\ reply[t].code = "OK" /\ reply[t].role = target[t]
        <3>1. pc'[t] = "done" /\ result'[t].tag = "GrantAlreadyExists"
            BY <2>2 DEF GrantDecide, Report, Goto, IInv, TypeOK
        <3> QED
            BY <1>1, <1>4, <1>5, <2>2, <3>1
            DEF GrantDecide, TaskInv, Answered, Decided, Written, Idle, Applied, DecidedOnPast,
                TrueReport, Done, request
    <2>3. CASE GrantDecide(t) /\ reply[t].code = "OK" /\ reply[t].role # target[t]
        <3>1. pc'[t] = "write" /\ seen'[t] = reply[t].role
            BY <2>3 DEF GrantDecide, Goto, IInv, TypeOK
        <3> QED
            BY <1>1, <1>4, <1>5, <2>3, <3>1
            DEF GrantDecide, TaskInv, Answered, Decided, Written, Idle, Applied, DecidedOnPast,
                TrueReport, Done, request
    <2>4. CASE RevokeDecide(t) /\ reply[t].code # "OK" /\ ~IsNotFoundError(t)
        BY <1>1, <1>4, <2>4, RetryTaskInv DEF RevokeDecide
    <2>5. CASE RevokeDecide(t) /\ (IsNotFoundError(t) \/ (reply[t].code = "OK" /\ reply[t].role # target[t]))
        <3>1. pc'[t] = "done" /\ result'[t].tag = "GrantAlreadyRevoked"
            BY <2>5 DEF RevokeDecide, IsNotFoundError, Report, Goto, IInv, TypeOK
        <3>2. CacheBackend = "noop" => held'[t] \ {target[t]} # {}
            BY <1>1, <1>4, <1>5, <2>5 DEF IsNotFoundError, Answered
        <3> QED
            BY <1>1, <1>4, <1>5, <2>5, <3>1, <3>2
            DEF RevokeDecide, TaskInv, Answered, Decided, Written, Idle, Applied, DecidedOnPast,
                TrueReport, Done, request
    <2>6. CASE RevokeDecide(t) /\ reply[t].code = "OK" /\ reply[t].role = target[t]
        <3>1. \/ pc'[t] = "done" /\ result'[t].tag = "error"
              \/ pc'[t] = "write" /\ target[t] # defaultRevokedRole
            BY <2>6 DEF RevokeDecide, IsNotFoundError, Report, Goto, IInv, TypeOK
        <3> QED
            BY <1>1, <1>4, <1>5, <2>6, <3>1
            DEF RevokeDecide, TaskInv, Answered, Decided, Written, Idle, Applied, DecidedOnPast,
                TrueReport, Done, request
    <2>7. CASE DeleteVerify(t)
        <3>1. /\ pc'[t] = "done"
              /\ result'[t].tag = IF reply[t].code = "NotFound" THEN "ok" ELSE "stillExists"
            BY <2>7 DEF DeleteVerify, StillThere, Report, Goto, IInv, TypeOK
        <3> QED
            BY <1>1, <1>4, <1>5, <2>7, <3>1
            DEF DeleteVerify, TaskInv, Answered, Decided, Written, Idle, Applied,
                DecidedOnPast, TrueReport, Done, request
    <2> QED
        BY <2>1, <2>2, <2>3, <2>4, <2>5, <2>6, <2>7 DEF IsNotFoundError
<1> QED
    BY <1>1, <1>2, <1>3, <1>6, QuietIInv

(* The requests that change the workspace. *)
LEMMA WriteIInv ==
    ASSUME IInv, NEW t \in Tasks, TypeOK',
           ServePatch(t) \/ ServeDelete(t) \/ ServeCreate(t) \/ WriteFault(t)
    PROVE  IInv'
<1>0. /\ UNCHANGED <<cache, op, target, email, seen, result>> /\ Observe
      /\ pc[t] = "write" /\ pc'[t] = "wrote"
      /\ AboutUser(t) /\ Decided(t) /\ DecidedOnPast(t)
      /\ role \in [Ids -> UserRole \cup {Absent, Unused}]
    BY DEF ServePatch, ServeDelete, ServeCreate, WriteFault, Goto, request, IInv, TypeOK, StoreTypeOK,
           TaskInv
<1>1. CacheInv'
    BY <1>0, SameCache DEF IInv
<1>2. \A o \in Tasks \ {t} : SameTask(o)
    BY DEF ServePatch, ServeDelete, ServeCreate, WriteFault, Deliver, SameTask, Goto, request,
           IInv, TypeOK
<1>3. Unused \notin UserRole /\ Absent # Unused
    BY DEF UserRole, supportedRoles, Unused, Absent, NoRole, OtherRole, RoleOwner,
           RoleMembershipAdmin, RoleMember, RoleRestrictedMember
<1>4. /\ held[t] \subseteq held'[t] /\ \A u \in Ids : ever[u] \subseteq ever'[u]
      /\ subject'[t] \in Ids => role'[subject'[t]] \in held'[t]
    BY <1>0, HistoryGrows DEF IInv
<1>5. CASE ServePatch(t)
    <2>1. /\ subject[t] \in Ids /\ subject' = subject /\ role[subject[t]] # Unused
          /\ PatchRole(t) \in UserRole
        BY <1>0, <1>5 DEF ServePatch, AboutUser, Busy, PatchRole, IInv, TypeOK, request,
           defaultRevokedRole, UserRole, supportedRoles
    <2>2. Keeps
        BY <1>0, <1>3, <1>5, <2>1 DEF ServePatch, handlePatchUser, setRole, Keeps
    <2>3. \/ reply'[t] = PatchReply(subject[t], PatchRole(t))
          \/ reply'[t].code \in FaultCode
        BY <1>5 DEF ServePatch, Deliver, Failed, IInv, TypeOK
    <2>4. PatchReply(subject[t], PatchRole(t)).code = "OK" => role'[subject[t]] = PatchRole(t)
        BY <1>0, <1>5, <2>1 DEF ServePatch, handlePatchUser, setRole
    <2>5. PatchReply(subject[t], PatchRole(t)).code = "NotFound" => role'[subject[t]] = Absent
        BY <1>0, <1>5, <2>1 DEF ServePatch, handlePatchUser, PatchReply, applyPatchOp, Failed, Present
    <2>6. Written(t)'
        BY <1>0, <1>4, <1>5, <2>1, <2>3, <2>4, <2>5
        DEF Written, ServePatch, PatchRole, FaultCode, request
    <2>7. AboutUser(t)' /\ DecidedOnPast(t)' /\ Decided(t)'
        BY <1>0, <1>4, <1>5, <2>1, <2>2 DEF AboutUser, DecidedOnPast, Decided, Done, Keeps, ServePatch
    <2>8. TaskInv(t)'
        BY <1>0, <2>6, <2>7 DEF TaskInv, Answered, Idle, Applied, TrueReport, Done
    <2> QED
        BY <1>0, <1>1, <1>2, <2>2, <2>8, OneTaskMoved
<1>6. CASE ServeDelete(t)
    <2>1. subject[t] \in Ids /\ subject' = subject
        BY <1>0, <1>6 DEF ServeDelete, AboutUser, Busy, request
    <2>2. Keeps
        BY <1>0, <1>3, <1>6, <2>1 DEF ServeDelete, handleDeleteUser, setRole, Keeps
    <2>3. AboutUser(t)' /\ DecidedOnPast(t)'
        BY <1>0, <1>4, <1>6, <2>1, <2>2 DEF AboutUser, DecidedOnPast, Done, Keeps, ServeDelete
    <2>4. TaskInv(t)'
        BY <1>0, <1>6, <2>3
        DEF TaskInv, Answered, Decided, Written, Idle, Applied, TrueReport, Done, ServeDelete
    <2> QED
        BY <1>0, <1>1, <1>2, <2>2, <2>4, OneTaskMoved
<1>7. CASE ServeCreate(t)
    <2>1. PICK id \in Ids :
             /\ role[id] = Unused
             /\ handleCreateUser(id, email[t])
             /\ subject' = IF NameTaken(email[t]) THEN subject ELSE [subject EXCEPT ![t] = id]
        BY <1>7 DEF ServeCreate
    <2>2. Keeps
        BY <1>0, <1>3, <2>1 DEF handleCreateUser, setRole, Keeps, IInv, TypeOK, StoreTypeOK
    <2>3. \/ reply'[t] = CreateReply(email[t])
          \/ reply'[t].code \in FaultCode
        BY <1>7 DEF ServeCreate, Deliver, Failed, IInv, TypeOK
    <2>4. CASE NameTaken(email[t])
        <3>1. reply'[t].code # "OK" /\ subject' = subject
            BY <2>1, <2>3, <2>4 DEF CreateReply, Failed, FaultCode
        <3>2. AboutUser(t)' /\ DecidedOnPast(t)'
            BY <1>0, <1>4, <1>7, <2>2, <3>1
            DEF AboutUser, Busy, DecidedOnPast, Done, Keeps, ServeCreate
        <3>3. TaskInv(t)'
            BY <1>0, <1>7, <3>1, <3>2
            DEF TaskInv, Answered, Decided, Written, Idle, Applied, TrueReport, Done, ServeCreate
        <3> QED
            BY <1>0, <1>1, <1>2, <2>2, <3>3, OneTaskMoved
    <2>5. CASE ~NameTaken(email[t])
        <3>1. /\ subject'[t] = id
              /\ role'[id] = RoleMember
              /\ userName'[id] = email[t]
            BY <2>1, <2>5 DEF handleCreateUser, setRole, IInv, TypeOK, StoreTypeOK
        <3>2. RoleMember # Unused
            BY DEF RoleMember, Unused
        <3>3. AboutUser(t)' /\ DecidedOnPast(t)'
            BY <1>0, <1>7, <3>1, <3>2 DEF AboutUser, Busy, DecidedOnPast, Done, ServeCreate
        <3>4. Written(t)'
            BY <1>0, <1>4, <1>7, <3>1 DEF Written, ServeCreate
        <3>5. TaskInv(t)'
            BY <1>0, <1>7, <3>3, <3>4
            DEF TaskInv, Answered, Decided, Idle, Applied, TrueReport, Done, ServeCreate
        <3> QED
            BY <1>0, <1>1, <1>2, <2>2, <3>5, OneTaskMoved
    <2> QED
        BY <2>4, <2>5
<1>8. CASE WriteFault(t)
    <2>1. subject' = subject /\ UNCHANGED store /\ overwrote' = overwrote
        BY <1>8 DEF WriteFault, request
    <2>2. reply'[t].code \in FaultCode
        BY <1>8 DEF WriteFault, Failed, IInv, TypeOK
    <2>3. AboutUser(t)' /\ DecidedOnPast(t)' /\ Decided(t)'
        BY <1>0, <1>4, <2>1 DEF AboutUser, Busy, DecidedOnPast, Decided, Done, store
    <2>4. TaskInv(t)'
        BY <1>0, <2>2, <2>3 DEF TaskInv, Answered, Written, FaultCode, Idle, Applied, TrueReport, Done
    <2> QED
        BY <1>0, <1>1, <1>2, <2>1, <2>4, QuietIInv
<1> QED
    BY <1>5, <1>6, <1>7, <1>8

(* The handlers' last steps. *)
LEMMA FinishIInv ==
    ASSUME IInv, NEW t \in Tasks, TypeOK',
           GrantFinish(t) \/ RevokeFinish(t) \/ DeleteCheck(t) \/ CreateAccountFinish(t)
    PROVE  IInv'
<1>0. /\ UNCHANGED <<store, cache, request, seen, reply, overwrote>> /\ Observe /\ pc[t] = "wrote"
      /\ AboutUser(t) /\ Decided(t) /\ Written(t) /\ DecidedOnPast(t)
      /\ seen[t] \in UserRole /\ target[t] \in UserRole
    BY DEF GrantFinish, RevokeFinish, DeleteCheck, CreateAccountFinish, IInv, TaskInv, TypeOK
<1>1. CacheInv'
    BY <1>0, SameCache DEF IInv
<1>2. \A o \in Tasks \ {t} : SameTask(o)
    BY DEF GrantFinish, RevokeFinish, DeleteCheck, CreateAccountFinish, RetryOrFail, Report, Goto,
           SameTask, request, IInv, TypeOK
<1>3. held[t] \subseteq held'[t] /\ \A u \in Ids : ever[u] \subseteq ever'[u]
    BY <1>0, HistoryGrows DEF IInv
<1>4. Absent \notin UserRole
    BY DEF UserRole, supportedRoles, Absent, NoRole, OtherRole, RoleOwner, RoleMembershipAdmin,
           RoleMember, RoleRestrictedMember
<1>5. CASE GrantFinish(t) /\ reply[t].code # "OK"
    <2>1. TaskInv(t)'
        BY <1>0, <1>5, RetryTaskInv DEF GrantFinish, AboutUser, Busy
    <2> QED
        BY <1>0, <1>1, <1>2, <2>1, QuietIInv
<1>6. CASE GrantFinish(t) /\ reply[t].code = "OK"
    <2>1. /\ op[t] = "Grant" /\ pc'[t] = "done"
          /\ result'[t] = [tag |-> "ok",
                           replaced |-> IF isSupportedRole(seen[t]) THEN seen[t] ELSE NoRole]
        BY <1>6 DEF GrantFinish, Replaced, Report, Goto, IInv, TypeOK
    <2>2. AboutUser(t)' /\ DecidedOnPast(t)'
        BY <1>0, <1>3, <2>1 DEF AboutUser, Busy, DecidedOnPast, Done, request, store
    <2>3. Applied(t)' /\ (CacheBackend = "noop" => TrueReport(t)')
        BY <1>0, <1>3, <1>6, <2>1 DEF Applied, TrueReport, Decided, Written, Done, request
    <2>4. TaskInv(t)'
        BY <2>1, <2>2, <2>3 DEF TaskInv, Answered, Decided, Written, Idle
    <2> QED
        BY <1>0, <1>1, <1>2, <2>4, QuietIInv
<1>7. CASE RevokeFinish(t) /\ reply[t].code # "OK" /\ ~IsNotFoundError(t)
    <2>1. TaskInv(t)'
        BY <1>0, <1>7, RetryTaskInv DEF RevokeFinish, AboutUser, Busy
    <2> QED
        BY <1>0, <1>1, <1>2, <2>1, QuietIInv
<1>8. CASE RevokeFinish(t) /\ (reply[t].code = "OK" \/ IsNotFoundError(t))
    <2>1. /\ op[t] = "Revoke" /\ pc'[t] = "done"
          /\ result'[t].tag = IF IsNotFoundError(t) THEN "GrantAlreadyRevoked" ELSE "ok"
        BY <1>8 DEF RevokeFinish, IsNotFoundError, Report, Goto, IInv, TypeOK
    <2>2. AboutUser(t)' /\ DecidedOnPast(t)'
        BY <1>0, <1>3, <2>1 DEF AboutUser, Busy, DecidedOnPast, Done, request, store
    <2>3. Applied(t)' /\ TrueReport(t)'
        BY <1>0, <1>3, <1>4, <1>8, <2>1
        DEF Applied, TrueReport, Decided, Written, IsNotFoundError, Done, request
    <2>4. TaskInv(t)'
        BY <2>1, <2>2, <2>3 DEF TaskInv, Answered, Decided, Written, Idle
    <2> QED
        BY <1>0, <1>1, <1>2, <2>4, QuietIInv
<1>9. CASE DeleteCheck(t)
    <2>1. /\ op[t] = "Delete"
          /\ pc'[t] = "lookup" \/ (pc'[t] = "done" /\ result'[t].tag = "error")
        BY <1>9 DEF DeleteCheck, Report, Goto, IInv, TypeOK
    <2>2. AboutUser(t)' /\ DecidedOnPast(t)'
        BY <1>0, <1>3, <2>1 DEF AboutUser, Busy, DecidedOnPast, Done, request, store
    <2>3. TaskInv(t)'
        BY <1>0, <2>1, <2>2
        DEF TaskInv, Answered, Decided, Written, Idle, Applied, TrueReport, Done, request
    <2> QED
        BY <1>0, <1>1, <1>2, <2>3, QuietIInv
<1>10. CASE CreateAccountFinish(t)
    <2>1. /\ op[t] = "CreateAccount" /\ pc'[t] = "done"
          /\ result'[t].tag = IF reply[t].code = "OK" THEN "ok" ELSE "error"
        BY <1>10 DEF CreateAccountFinish, Report, Goto, IInv, TypeOK
    <2>2. AboutUser(t)' /\ DecidedOnPast(t)'
        BY <1>0, <1>3, <2>1 DEF AboutUser, Busy, DecidedOnPast, Done, request, store
    <2>3. Applied(t)' /\ TrueReport(t)'
        BY <1>0, <1>3, <2>1 DEF Applied, TrueReport, Written, Done, request, store
    <2>4. TaskInv(t)'
        BY <2>1, <2>2, <2>3 DEF TaskInv, Answered, Decided, Written, Idle
    <2> QED
        BY <1>0, <1>1, <1>2, <2>4, QuietIInv
<1> QED
    BY <1>5, <1>6, <1>7, <1>8, <1>9, <1>10 DEF IsNotFoundError

(* Every step of a task. *)
LEMMA RunIInv ==
    ASSUME IInv, NEW t \in Tasks, Run(t)
    PROVE  IInv'
<1>1. TypeOK'
    BY RunTypeOK DEF IInv, TaskInv, AboutUser
<1> QED
    BY <1>1, LookupIInv, DecideIInv, WriteIInv, FinishIInv DEF Run

-----------------------------------------------------------------------------
(* What happens around the tasks. *)

(* Expiry and clearing only forget entries; admins never take an id back. *)
LEMMA AroundIInv ==
    ASSUME IInv, (\E u \in Ids : CacheExpire(u)) \/ ClearCaches \/ Admin
    PROVE  IInv'
<1>0. /\ UNCHANGED <<pc, request, seen, reply, attempts, result, faults, overwrote>> /\ Observe
      /\ \A t \in Tasks : SameTask(t)
    BY DEF CacheExpire, ClearCaches, Admin, SameTask, request
<1>1. CacheInv'
    <2>1. \A u \in Ids : cache'[u] \in {cache[u], Miss}
        BY DEF CacheExpire, ClearCaches, Admin, IInv, TypeOK
    <2> QED
        BY <1>0, <2>1, HistoryGrows DEF CacheInv, CacheOnceTrue, IInv
<1>2. StoreTypeOK' /\ Keeps /\ adminMoves' \in 0..MaxAdmin /\ cache' \in [Ids -> UserRole \cup {Miss, Undecodable}]
    <2>1. CASE (\E u \in Ids : CacheExpire(u)) \/ ClearCaches
        BY <2>1 DEF CacheExpire, ClearCaches, IInv, TypeOK, StoreTypeOK, Keeps, store
    <2>2. CASE Admin
        <3>1. Unused \notin UserRole /\ Absent # Unused /\ RoleMember \in UserRole
            BY DEF UserRole, supportedRoles, Unused, Absent, NoRole, OtherRole, RoleOwner,
                   RoleMembershipAdmin, RoleMember, RoleRestrictedMember
        <3>2. PICK u \in Ids : \/ \E r \in WorkspaceRoles : AdminSetRole(u, r)
                              \/ AdminRemove(u)
                              \/ AdminInviteBack(u)
            BY <2>2 DEF Admin
        <3>3. StoreTypeOK' /\ Keeps
            BY <3>1, <3>2, RolesAssumption
            DEF AdminSetRole, AdminRemove, AdminInviteBack, handleDeleteUser, filterMembers, setRole,
                Present, Keeps, IInv, TypeOK, StoreTypeOK
        <3> QED
            BY <2>2, <3>3, BoundsAssumption DEF Admin, IInv, TypeOK
    <2> QED
        BY <2>1, <2>2
<1>3. TypeOK'
    <2>1. /\ held' \in [Tasks -> SUBSET (UserRole \cup {Absent, Unused})]
          /\ ever' \in [Ids -> SUBSET (UserRole \cup {Absent, Unused})]
        BY <1>0, <1>2, ObserveType DEF IInv, StoreTypeOK
    <2> QED
        BY <1>0, <1>2, <2>1 DEF IInv, TypeOK, request
<1>4. \A t \in Tasks : TaskInv(t)'
    BY <1>0, <1>2, OtherTask DEF IInv
<1> QED
    BY <1>1, <1>3, <1>4 DEF IInv

(* Every step keeps the invariant. *)
LEMMA NextIInv == IInv /\ [Next]_vars => IInv'
<1>1. ASSUME IInv, Next PROVE IInv'
    BY <1>1, StartIInv, RunIInv, AroundIInv DEF Next
<1>2. ASSUME IInv, UNCHANGED vars PROVE IInv'
    BY <1>2
    DEF vars, request, store, IInv, TypeOK, StoreTypeOK, CacheInv, CacheOnceTrue, TaskInv, AboutUser,
        Busy, Answered, Decided, Written, Idle, Applied, DecidedOnPast, TrueReport, Done
<1> QED
    BY <1>1, <1>2

(* The invariant holds throughout, for both cache backends. *)
THEOREM Invariance == Spec => []IInv
BY InitIInv, NextIInv, PTL DEF Spec

(* Every variable keeps its shape in every reachable state of every        *)
(* instance; in particular a retry loop never exceeds MaxAttempts.         *)
THEOREM TypeCorrect == Spec => []TypeOK
<1>1. IInv => TypeOK
    BY DEF IInv
<1> QED
    BY <1>1, Invariance, PTL

(* A task that reports success has done its work, with or without a cache, *)
(* whatever fails, is retried or runs beside it.                           *)
THEOREM SuccessIsReal == Spec => []SuccessMeansApplied
<1>1. IInv => SuccessMeansApplied
    BY DEF IInv, TaskInv, SuccessMeansApplied
<1> QED
    BY <1>1, Invariance, PTL

(* What the cache serves, and what Grant and Revoke decide on, was once    *)
(* true of the user.                                                       *)
THEOREM DecisionsHaveEvidence == Spec => []OnceTrue
<1>1. IInv => OnceTrue
    BY DEF IInv, TaskInv, CacheInv, OnceTrue
<1> QED
    BY <1>1, Invariance, PTL

(* With the noop backend, the idempotence reports and GrantReplaced are    *)
(* true at some moment of the call.                                        *)
THEOREM UncachedReportsTrue ==
    ASSUME CacheBackend = "noop" PROVE Spec => []AlreadyMeansTrue
<1>1. IInv => AlreadyMeansTrue
    BY DEF IInv, TaskInv, AlreadyMeansTrue
<1> QED
    BY <1>1, Invariance, PTL

-----------------------------------------------------------------------------
(* The directory stays consistent: groups list present users, and a        *)
(* userName belongs to one of them.                                        *)

Directory == NoDanglingMembers /\ UniqueUserNames

(* A change of role, or a removal, of a present user. *)
LEMMA SetRoleDirectory ==
    ASSUME TypeOK, Directory, NEW u \in Ids, Present(u), NEW r \in UserRole, setRole(u, r),
           UNCHANGED <<userName, members>>
    PROVE  Directory'
<1>1. \A v \in Ids : Present(v)' <=> Present(v)
    BY DEF TypeOK, StoreTypeOK, setRole, Present
<1>2. NoDanglingMembers'
    BY <1>1 DEF Directory, NoDanglingMembers, TypeOK, StoreTypeOK
<1>3. UniqueUserNames'
    BY <1>1 DEF Directory, UniqueUserNames
<1> QED
    BY <1>2, <1>3 DEF Directory

(* handleDeleteUser. *)
LEMMA DeleteDirectory ==
    ASSUME TypeOK, Directory, NEW u \in Ids, handleDeleteUser(u)
    PROVE  Directory'
<1>1. CASE ~Present(u)
    <2>1. UNCHANGED <<role, userName, members>>
        BY <1>1 DEF handleDeleteUser
    <2> QED
        BY <2>1 DEF Directory, NoDanglingMembers, UniqueUserNames, Present
<1>2. CASE Present(u)
    <2>1. /\ role' = [role EXCEPT ![u] = Absent]
          /\ members' = [g \in Groups |-> members[g] \ {u}]
          /\ userName' = userName
        BY <1>2 DEF handleDeleteUser, setRole, filterMembers
    <2>2. Absent \notin UserRole
        BY DEF UserRole, supportedRoles, Absent, NoRole, OtherRole, RoleOwner, RoleMembershipAdmin,
               RoleMember, RoleRestrictedMember
    <2>3. \A v \in Ids : Present(v)' <=> Present(v) /\ v # u
        BY <2>1, <2>2 DEF TypeOK, StoreTypeOK, Present
    <2>4. NoDanglingMembers'
        BY <2>1, <2>3 DEF Directory, NoDanglingMembers, TypeOK, StoreTypeOK
    <2>5. UniqueUserNames'
        BY <2>1, <2>3 DEF Directory, UniqueUserNames
    <2> QED
        BY <2>4, <2>5 DEF Directory
<1> QED
    BY <1>1, <1>2

(* An account that appears, under a name nobody present has. *)
LEMMA AppearDirectory ==
    ASSUME TypeOK, Directory, NEW u \in Ids, ~Present(u), NEW e \in Emails, ~NameTaken(e),
           setRole(u, RoleMember), userName' = [userName EXCEPT ![u] = e], members' = members
    PROVE  Directory'
<1>1. \A v \in Ids : Present(v)' <=> Present(v) \/ v = u
    BY DEF TypeOK, StoreTypeOK, setRole, Present, UserRole, supportedRoles
<1>2. NoDanglingMembers'
    BY <1>1 DEF Directory, NoDanglingMembers, TypeOK, StoreTypeOK
<1>3. \A v \in Ids : userName'[v] = IF v = u THEN e ELSE userName[v]
    BY DEF TypeOK, StoreTypeOK
<1>4. UniqueUserNames'
    BY <1>1, <1>3 DEF Directory, UniqueUserNames, NameTaken
<1> QED
    BY <1>2, <1>4 DEF Directory

(* Steps that leave the store alone. *)
LEMMA SameDirectory ==
    ASSUME Directory, UNCHANGED store
    PROVE  Directory'
BY DEF Directory, NoDanglingMembers, UniqueUserNames, Present, store

(* Every step keeps the directory consistent. *)
LEMMA NextDirectory ==
    ASSUME IInv, Directory, [Next]_vars
    PROVE  Directory'
<1>1. ASSUME NEW t \in Tasks, Start(t) PROVE UNCHANGED store
    BY <1>1 DEF Start, GrantStart, RevokeStart, DeleteStart, CreateAccountStart, Begin
<1>2. ASSUME NEW t \in Tasks, Run(t) PROVE Directory'
    <2>0. Busy(t) => subject[t] \in Ids
        BY DEF IInv, TaskInv, AboutUser
    <2>1. CASE ServePatch(t)
        <3>1. subject[t] \in Ids
            BY <2>0, <2>1 DEF ServePatch, Busy
        <3>2. CASE PatchReply(subject[t], PatchRole(t)).code = "OK"
            <4>1. /\ Present(subject[t]) /\ PatchRole(t) \in UserRole
                  /\ setRole(subject[t], PatchRole(t)) /\ UNCHANGED <<userName, members>>
                BY <2>1, <3>2
                DEF ServePatch, handlePatchUser, PatchReply, applyPatchOp, isKnownRole, Failed, UserRole,
                    supportedRoles
            <4> QED
                BY <3>1, <4>1, SetRoleDirectory DEF IInv
        <3>3. CASE PatchReply(subject[t], PatchRole(t)).code # "OK"
            BY <2>1, <3>3, SameDirectory DEF ServePatch, handlePatchUser, store
        <3> QED
            BY <3>2, <3>3
    <2>2. CASE ServeDelete(t)
        BY <2>0, <2>2, DeleteDirectory DEF ServeDelete, Busy, IInv
    <2>3. CASE ServeCreate(t)
        <3>1. PICK id \in Ids : role[id] = Unused /\ handleCreateUser(id, email[t])
            BY <2>3 DEF ServeCreate
        <3>2. ~Present(id) /\ email[t] \in Emails
            BY <3>1 DEF Present, IInv, TypeOK, UserRole, supportedRoles, Unused, NoRole, OtherRole,
               RoleOwner, RoleMembershipAdmin, RoleMember, RoleRestrictedMember
        <3>3. CASE NameTaken(email[t])
            BY <3>1, <3>3, SameDirectory DEF handleCreateUser, store
        <3>4. CASE ~NameTaken(email[t])
            BY <3>1, <3>2, <3>4, AppearDirectory DEF handleCreateUser, IInv
        <3> QED
            BY <3>3, <3>4
    <2>4. CASE ~(ServePatch(t) \/ ServeDelete(t) \/ ServeCreate(t))
        <3>1. UNCHANGED store
            BY <1>2, <2>4
            DEF Run, CacheHit, CacheMiss, ServeGet, GetFault, GrantDecide, RevokeDecide, DeleteVerify,
                WriteFault, GrantFinish, RevokeFinish, DeleteCheck, CreateAccountFinish
        <3> QED
            BY <3>1, SameDirectory
    <2> QED
        BY <2>1, <2>2, <2>3, <2>4
<1>3. ASSUME Admin PROVE Directory'
    <2>1. PICK u \in Ids : \/ \E r \in WorkspaceRoles : AdminSetRole(u, r)
                          \/ AdminRemove(u)
                          \/ AdminInviteBack(u)
        BY <1>3 DEF Admin
    <2>2. CASE \E r \in WorkspaceRoles : AdminSetRole(u, r)
        BY <2>2, SetRoleDirectory, RolesAssumption DEF AdminSetRole, IInv
    <2>3. CASE AdminRemove(u)
        BY <2>3, DeleteDirectory DEF AdminRemove, IInv
    <2>4. CASE AdminInviteBack(u)
        <3>1. ~Present(u)
            BY <2>4 DEF AdminInviteBack, Present, UserRole, supportedRoles, Absent, NoRole, OtherRole,
               RoleOwner, RoleMembershipAdmin, RoleMember, RoleRestrictedMember
        <3>2. userName' = [userName EXCEPT ![u] = userName[u]] /\ userName[u] \in Emails
            BY <2>4 DEF AdminInviteBack, IInv, TypeOK, StoreTypeOK
        <3> QED
            BY <2>4, <3>1, <3>2, AppearDirectory DEF AdminInviteBack, IInv
    <2> QED
        BY <2>1, <2>2, <2>3, <2>4
<1>4. CASE (\E u \in Ids : CacheExpire(u)) \/ ClearCaches \/ UNCHANGED vars
    BY <1>4, SameDirectory DEF CacheExpire, ClearCaches, vars
<1> QED
    BY <1>1, <1>2, <1>3, <1>4, SameDirectory DEF Next

(* Whatever tasks and admins do concurrently, no group lists a user who    *)
(* has left, and no two present users share a userName up to case.         *)
THEOREM DirectoryConsistent == Spec => [](NoDanglingMembers /\ UniqueUserNames)
<1>1. Init => Directory
    BY DEF Init, Directory, NoDanglingMembers, UniqueUserNames
<1>2. IInv /\ Directory /\ [Next]_vars => Directory'
    BY NextDirectory
<1>3. Directory => NoDanglingMembers /\ UniqueUserNames
    BY DEF Directory
<1> QED
    BY <1>1, <1>2, <1>3, Invariance, PTL DEF Spec

(* No group of the server lists a user who has left the workspace: every   *)
(* removal filters the groups in the same step (handleDeleteUser).         *)
THEOREM GroupsListPresentUsers == Spec => []NoDanglingMembers
BY DirectoryConsistent, PTL
=============================================================================
