--------------------------- MODULE FaultFreeProofs ---------------------------
(***************************************************************************)
(* What the tasks of Provisioning guarantee as long as no HTTP exchange    *)
(* has failed: errors have a cause, nothing is written without a report,   *)
(* and Delete is not misled by its own second look.                        *)
(***************************************************************************)
EXTENDS ContractProofs

-----------------------------------------------------------------------------
(***************************************************************************)
(* The invariant, task by task, for a run without failed exchanges.        *)
(***************************************************************************)

(* Only a PATCH that was answered with 200 leaves a mark. *)
Clean(t) ==
    \/ overwrote[t] = {}
    \/ /\ op[t] \in {"Grant", "Revoke"}
       /\ \/ pc[t] = "wrote" /\ reply[t].code = "OK"
          \/ pc[t] = "done" /\ result[t].tag = "ok"

(* The answers are those of the server's handlers. *)
Exchanged(t) ==
    /\ pc[t] = "got" => reply[t].code \in {"OK", "NotFound"}
    /\ pc[t] = "wrote" /\ op[t] # "CreateAccount" =>
         /\ reply[t].code \in {"OK", "NotFound"}
         /\ reply[t].code = "NotFound" => Absent \in held[t]
    /\ pc[t] = "wrote" /\ op[t] = "CreateAccount" /\ reply[t].code # "OK" => subject[t] \notin Ids

(* The reports made so far: the parts of NoSpuriousFailure and of          *)
(* NoUnreportedWrite that are about t.                                     *)
Justified(t) ==
    LET bad == subject[t] \notin Ids \/ ~isSupportedRole(target[t]) IN
    /\ Done(t, "Grant", "error") => bad \/ Absent \in held[t]
    /\ Done(t, "Revoke", "error") => bad \/ target[t] = defaultRevokedRole
    /\ Done(t, "Delete", "error") => Absent \in held[t]

Silent(t) ==
    pc[t] = "done" /\ result[t].tag # "ok" =>
        overwrote[t] = {} /\ (op[t] = "CreateAccount" => subject[t] \notin Ids)

Smooth(t) == Clean(t) /\ Exchanged(t) /\ Justified(t) /\ Silent(t)

(* What is cached can be decoded. *)
Readable == \A u \in Ids : cache[u] # Undecodable

FInv == CInv /\ (faults = 0 => Readable /\ \A t \in Tasks : Smooth(t))

-----------------------------------------------------------------------------
(* Faults are never taken back. *)
LEMMA FaultsGrow ==
    ASSUME TypeOK, Next, faults' = 0
    PROVE  faults = 0
<1>0. faults \in Nat
    BY DEF TypeOK
<1>1. faults' = faults \/ faults' = faults + 1
    BY DEF Next, Start, GrantStart, RevokeStart, DeleteStart, CreateAccountStart, Begin, Run, CacheHit,
       CacheMiss, ServeGet, GetFault, GrantDecide, RevokeDecide, DeleteVerify, ServePatch, ServeDelete,
       ServeCreate, WriteFault, Deliver, GrantFinish, RevokeFinish, DeleteCheck, CreateAccountFinish,
       CacheExpire, ClearCaches, Admin
<1> QED
    BY <1>0, <1>1

(* Nor are the admin's changes. *)
LEMMA AdminMovesGrow ==
    ASSUME TypeOK, Next, adminMoves' = 0
    PROVE  ~Admin /\ adminMoves = 0
<1>1. ~Admin
    BY DEF Admin, TypeOK
<1> QED
    BY <1>1
    DEF Next, Start, GrantStart, RevokeStart, DeleteStart, CreateAccountStart, Begin, Run, CacheHit,
        CacheMiss, ServeGet, GetFault, GrantDecide, RevokeDecide, DeleteVerify, ServePatch, ServeDelete,
        ServeCreate, WriteFault, GrantFinish, RevokeFinish, DeleteCheck, CreateAccountFinish,
        CacheExpire, ClearCaches

(* A task that does not move. *)
LEMMA OtherSmooth ==
    ASSUME TypeOK, NEW t \in Tasks, Smooth(t), SameTask(t), Observe
    PROVE  Smooth(t)'
<1>1. held[t] \subseteq held'[t]
    BY HistoryGrows
<1>2. Clean(t)' /\ Silent(t)'
    BY DEF Smooth, Clean, Silent, SameTask
<1>3. Exchanged(t)'
    BY <1>1 DEF Smooth, Exchanged, SameTask
<1>4. Justified(t)'
    BY <1>1 DEF Smooth, Justified, Done, SameTask
<1> QED
    BY <1>2, <1>3, <1>4 DEF Smooth

(* A request that is refused is a bad one. *)
LEMMA BeginSmooth ==
    ASSUME CInv, NEW t \in Tasks, NEW o \in Ops, NEW p, NEW r, NEW e, NEW valid \in BOOLEAN,
           NEW first \in {"lookup", "write"},
           o \in {"Grant", "Revoke"} /\ ~valid => p = NonUser \/ ~isSupportedRole(r),
           o = "Delete" => valid,
           o = "CreateAccount" => p = NonUser,
           Begin(t, o, p, r, e, valid, first)
    PROVE  Smooth(t)'
<1>1. /\ op'[t] = o /\ subject'[t] = p /\ target'[t] = r /\ overwrote'[t] = {}
      /\ pc'[t] \in {"lookup", "write", "done"}
      /\ pc'[t] = "done" => ~valid
    BY DEF Begin, Goto, Report, CInv, IInv, TypeOK, TaskInv, Idle
<1> QED
    BY <1>1, NonUserAssumption DEF Smooth, Clean, Exchanged, Justified, Silent, Done

(* ... for each of the operations. *)
LEMMA StartSmooth ==
    ASSUME CInv, NEW t \in Tasks, Start(t)
    PROVE  Smooth(t)'
<1>0. {"Grant", "Revoke", "Delete", "CreateAccount"} \subseteq Ops
    BY DEF Ops
<1>1. CASE GrantStart(t)
    <2>1. PICK p \in Principals, r \in AskedRoles :
             Begin(t, "Grant", p, r, email[t], p # NonUser /\ isSupportedRole(r), "lookup")
        BY <1>1 DEF GrantStart
    <2>2. (p # NonUser /\ isSupportedRole(r)) \in BOOLEAN
        BY DEF isSupportedRole
    <2> QED
        BY <1>0, <2>1, <2>2, BeginSmooth
<1>2. CASE RevokeStart(t)
    <2>1. PICK p \in Principals, r \in AskedRoles :
             Begin(t, "Revoke", p, r, email[t], p # NonUser /\ isSupportedRole(r), "lookup")
        BY <1>2 DEF RevokeStart
    <2>2. (p # NonUser /\ isSupportedRole(r)) \in BOOLEAN
        BY DEF isSupportedRole
    <2> QED
        BY <1>0, <2>1, <2>2, BeginSmooth
<1>3. CASE DeleteStart(t)
    <2>1. PICK p \in Principals \ {NonUser} :
             Begin(t, "Delete", p, NoRole, email[t], TRUE, "write")
        BY <1>3 DEF DeleteStart
    <2> QED
        BY <1>0, <2>1, BeginSmooth
<1>4. CASE CreateAccountStart(t)
    <2>1. PICK e \in Emails, complete \in BOOLEAN :
             Begin(t, "CreateAccount", NonUser, NoRole, e, complete, "write")
        BY <1>4 DEF CreateAccountStart
    <2> QED
        BY <1>0, <2>1, BeginSmooth
<1> QED
    BY <1>1, <1>2, <1>3, <1>4 DEF Start

(* The GET and its answer. *)
LEMMA LookupSmooth ==
    ASSUME CInv, Readable, NEW t \in Tasks, Smooth(t), faults = 0, faults' = 0,
           CacheHit(t) \/ CacheMiss(t) \/ ServeGet(t) \/ GetFault(t)
    PROVE  Smooth(t)'
<1>1. UNCHANGED overwrote /\ pc[t] \in {"lookup", "get"} /\ pc'[t] \in {"get", "got"}
    BY DEF CacheHit, CacheMiss, ServeGet, GetFault, Goto, CInv, IInv, TypeOK
<1>2. overwrote'[t] = {}
    BY <1>1 DEF Smooth, Clean
<1>3. pc'[t] = "got" => reply'[t].code \in {"OK", "NotFound"}
    <2>1. CASE CacheHit(t)
        <3>1. subject[t] \in Ids
            BY <2>1 DEF CacheHit, CInv, IInv, TaskInv, AboutUser, Busy
        <3> QED
            BY <2>1, <3>1 DEF CacheHit, CachedReply, Readable, CInv, IInv, TypeOK
    <2>2. CASE CacheMiss(t)
        BY <2>2 DEF CacheMiss, Goto, CInv, IInv, TypeOK
    <2>3. CASE ServeGet(t)
        BY <2>3 DEF ServeGet, handleGetUser, Failed, CInv, IInv, TypeOK
    <2>4. CASE GetFault(t)
        BY <2>4 DEF GetFault
    <2> QED
        BY <2>1, <2>2, <2>3, <2>4
<1> QED
    BY <1>1, <1>2, <1>3 DEF Smooth, Clean, Exchanged, Justified, Silent, Done

(* The decision: an error is a missing user or the floor. *)
LEMMA DecideSmooth ==
    ASSUME CInv, NEW t \in Tasks, Smooth(t),
           GrantDecide(t) \/ RevokeDecide(t) \/ DeleteVerify(t)
    PROVE  Smooth(t)'
<1>0. TypeOK /\ held[t] \subseteq held'[t]
    BY HistoryGrows DEF GrantDecide, RevokeDecide, DeleteVerify, CInv, IInv
<1>1. UNCHANGED <<op, target, subject, overwrote>> /\ pc[t] = "got"
    BY DEF GrantDecide, RevokeDecide, DeleteVerify, request
<1>2. /\ overwrote'[t] = {} /\ reply[t].code \in {"OK", "NotFound"}
      /\ reply[t].code = "NotFound" => Absent \in held[t]
    BY <1>1 DEF Smooth, Clean, Exchanged, CInv, IInv, TaskInv, Answered
<1>3. /\ op[t] \in {"Grant", "Revoke", "Delete"}
      /\ \/ pc'[t] = "write"
         \/ pc'[t] = "done" /\ result'[t].tag # "error"
         \/ /\ pc'[t] = "done"
            /\ op[t] = "Grant" /\ reply[t].code = "NotFound"
         \/ /\ pc'[t] = "done"
            /\ op[t] = "Revoke" /\ target[t] = defaultRevokedRole
    <2>1. CASE GrantDecide(t)
        BY <1>0, <1>2, <2>1 DEF GrantDecide, RetryOrFail, Report, Goto, TypeOK
    <2>2. CASE RevokeDecide(t)
        BY <1>0, <1>2, <2>2 DEF RevokeDecide, IsNotFoundError, Report, Goto, TypeOK
    <2>3. CASE DeleteVerify(t)
        BY <1>0, <2>3 DEF DeleteVerify, Report, Goto, TypeOK
    <2> QED
        BY <2>1, <2>2, <2>3
<1> QED
    BY <1>0, <1>1, <1>2, <1>3 DEF Smooth, Clean, Exchanged, Justified, Silent, Done

(* The write: refused for a missing user or a taken name, else applied.    *)
LEMMA WriteSmooth ==
    ASSUME CInv, NEW t \in Tasks, Smooth(t), faults = 0, faults' = 0,
           ServePatch(t) \/ ServeDelete(t) \/ ServeCreate(t) \/ WriteFault(t)
    PROVE  Smooth(t)'
<1>0. TypeOK /\ Observe
    BY DEF ServePatch, ServeDelete, ServeCreate, WriteFault, CInv, IInv
<1>1. UNCHANGED <<op, target>> /\ pc[t] = "write" /\ pc'[t] = "wrote" /\ overwrote[t] = {}
    BY <1>0 DEF ServePatch, ServeDelete, ServeCreate, WriteFault, request, Goto, TypeOK, Smooth, Clean
<1>2. /\ op[t] # "CreateAccount" =>
           subject[t] \in Ids /\ role[subject[t]] \in UserRole \cup {Absent}
      /\ op[t] \in {"Grant", "Revoke"} => isKnownRole(PatchRole(t))
      /\ op[t] = "CreateAccount" => subject[t] = NonUser
    <2>1. AboutUser(t) /\ Checked(t) /\ Unborn(t)
        BY DEF CInv, OpenInv, IInv, TaskInv
    <2>2. op[t] # "CreateAccount" => subject[t] \in Ids /\ role[subject[t]] \in UserRole \cup {Absent}
        BY <1>0, <1>1, <2>1 DEF AboutUser, Busy, TypeOK, StoreTypeOK
    <2>3. op[t] \in {"Grant", "Revoke"} => isKnownRole(PatchRole(t))
        BY <1>1, <2>1 DEF Checked, isKnownRole, PatchRole, supportedRoles, defaultRevokedRole
    <2> QED
        BY <1>1, <2>1, <2>2, <2>3 DEF Unborn
<1>3. \A answer : Deliver(t, answer) => reply'[t] = answer
    BY <1>0 DEF Deliver, TypeOK
<1>4. Clean(t)' /\ Exchanged(t)'
    <2>1. CASE ServePatch(t)
        <3>1. op[t] \in {"Grant", "Revoke"} /\ subject'[t] = subject[t] /\ role'[subject[t]] \in held'[t]
            BY <1>0, <1>1, <1>2, <2>1, HistoryGrows DEF ServePatch, request
        <3>2. CASE Present(subject[t])
            <4>1. reply'[t].code = "OK"
                BY <1>2, <1>3, <2>1, <3>1, <3>2 DEF ServePatch, PatchReply, applyPatchOp
            <4> QED
                BY <1>1, <3>1, <4>1 DEF Clean, Exchanged
        <3>3. CASE ~Present(subject[t])
            <4>1. reply'[t].code = "NotFound" /\ overwrote' = overwrote /\ role' = role
                BY <1>3, <2>1, <3>3 DEF ServePatch, handlePatchUser, PatchReply, Failed
            <4>2. role[subject[t]] = Absent
                BY <1>2, <3>1, <3>3 DEF Present
            <4> QED
                BY <1>1, <3>1, <4>1, <4>2 DEF Clean, Exchanged
        <3> QED
            BY <3>2, <3>3
    <2>2. CASE ServeDelete(t)
        <3>1. op[t] = "Delete" /\ subject'[t] = subject[t] /\ role'[subject[t]] \in held'[t]
            BY <1>0, <1>1, <1>2, <2>2, HistoryGrows DEF ServeDelete, request
        <3>2. overwrote' = overwrote /\ reply'[t] = DeleteReply(subject[t])
            BY <1>3, <2>2 DEF ServeDelete
        <3>3. ~Present(subject[t]) => role'[subject[t]] = Absent
            BY <1>2, <2>2, <3>1 DEF ServeDelete, handleDeleteUser, Present
        <3> QED
            BY <1>1, <3>1, <3>2, <3>3 DEF Clean, Exchanged, DeleteReply, Failed
    <2>3. CASE ServeCreate(t)
        <3>1. op[t] = "CreateAccount" /\ overwrote' = overwrote /\ reply'[t] = CreateReply(email[t])
            BY <1>3, <2>3 DEF ServeCreate
        <3>2. NameTaken(email[t]) => subject'[t] = NonUser
            BY <1>2, <2>3, <3>1 DEF ServeCreate
        <3> QED
            BY <1>1, <3>1, <3>2, NonUserAssumption DEF Clean, Exchanged, CreateReply
    <2>4. CASE WriteFault(t)
        BY <2>4 DEF WriteFault
    <2> QED
        BY <2>1, <2>2, <2>3, <2>4
<1> QED
    BY <1>1, <1>4 DEF Smooth, Justified, Silent, Done

(* The report: an error is a missing user or a taken name.                 *)
LEMMA FinishSmooth ==
    ASSUME CInv, NEW t \in Tasks, Smooth(t),
           GrantFinish(t) \/ RevokeFinish(t) \/ DeleteCheck(t) \/ CreateAccountFinish(t)
    PROVE  Smooth(t)'
<1>0. TypeOK /\ held[t] \subseteq held'[t]
    BY HistoryGrows DEF GrantFinish, RevokeFinish, DeleteCheck, CreateAccountFinish, CInv, IInv
<1>1. UNCHANGED <<op, target, subject, overwrote>> /\ pc[t] = "wrote"
    BY DEF GrantFinish, RevokeFinish, DeleteCheck, CreateAccountFinish, request
<1>2. Clean(t) /\ Exchanged(t)
    BY DEF Smooth
<1>3. CASE GrantFinish(t)
    <2>1. /\ op[t] = "Grant" /\ pc'[t] = "done"
          /\ result'[t].tag = IF reply[t].code = "OK" THEN "ok" ELSE "error"
        BY <1>0, <1>1, <1>2, <1>3 DEF Exchanged, GrantFinish, RetryOrFail, Report, Goto, TypeOK
    <2> QED
        BY <1>0, <1>1, <1>2, <2>1 DEF Smooth, Clean, Exchanged, Justified, Silent, Done
<1>4. CASE RevokeFinish(t)
    <2>1. /\ op[t] = "Revoke" /\ pc'[t] = "done"
          /\ result'[t].tag = IF reply[t].code = "OK" THEN "ok" ELSE "GrantAlreadyRevoked"
        BY <1>0, <1>1, <1>2, <1>4
        DEF Exchanged, RevokeFinish, IsNotFoundError, Report, Goto, TypeOK
    <2> QED
        BY <1>0, <1>1, <1>2, <2>1 DEF Smooth, Clean, Exchanged, Justified, Silent, Done
<1>5. CASE DeleteCheck(t)
    <2>1. /\ op[t] = "Delete"
          /\ \/ reply[t].code = "OK" /\ pc'[t] = "lookup"
             \/ reply[t].code # "OK" /\ pc'[t] = "done"
        BY <1>0, <1>5 DEF DeleteCheck, Report, Goto, TypeOK
    <2> QED
        BY <1>0, <1>1, <1>2, <2>1 DEF Smooth, Clean, Exchanged, Justified, Silent, Done
<1>6. CASE CreateAccountFinish(t)
    <2>1. /\ op[t] = "CreateAccount" /\ pc'[t] = "done"
          /\ result'[t].tag = IF reply[t].code = "OK" THEN "ok" ELSE "error"
        BY <1>0, <1>6 DEF CreateAccountFinish, Report, Goto, TypeOK
    <2> QED
        BY <1>0, <1>1, <1>2, <2>1 DEF Smooth, Clean, Exchanged, Justified, Silent, Done
<1> QED
    BY <1>3, <1>4, <1>5, <1>6

(* Nothing undecodable enters the cache. *)
LEMMA CacheReadable ==
    ASSUME CInv, Next, Readable, \A t \in Tasks : Smooth(t)
    PROVE  Readable'
<1>0. TypeOK
    BY DEF CInv, IInv
<1>1. ASSUME NEW t \in Tasks, CacheSet(t), pc[t] = "got" PROVE Readable'
    <2>1. subject[t] \in Ids /\ reply[t].code \in {"OK", "NotFound"}
        BY <1>1 DEF CInv, IInv, TaskInv, AboutUser, Busy, Smooth, Exchanged
    <2>2. Storable(t) => Body(t) \in UserRole
        BY <1>0, <2>1 DEF Storable, Body, Undecodable, TypeOK, Reply
    <2>3. Undecodable \notin UserRole
        BY DEF UserRole, supportedRoles, Undecodable, NoRole, OtherRole, RoleOwner, RoleMembershipAdmin,
               RoleMember, RoleRestrictedMember
    <2> QED
        BY <1>0, <1>1, <2>1, <2>2, <2>3 DEF CacheSet, Readable, TypeOK
<1>2. CASE cache' = cache
    BY <1>2 DEF Readable
<1>3. CASE ClearCaches \/ \E u \in Ids : CacheExpire(u)
    BY <1>0, <1>3 DEF CacheExpire, ClearCaches, Readable, Miss, Undecodable, TypeOK
<1> QED
    BY <1>1, <1>2, <1>3
    DEF Next, Start, GrantStart, RevokeStart, DeleteStart, CreateAccountStart, Begin, Run, CacheHit,
        CacheMiss, ServeGet, GetFault, GrantDecide, RevokeDecide, DeleteVerify, ServePatch, ServeDelete,
        ServeCreate, WriteFault, GrantFinish, RevokeFinish, DeleteCheck, CreateAccountFinish, Admin

(* Every step keeps it. *)
LEMMA NextFInv == FInv /\ [Next]_vars => FInv'
<1> SUFFICES ASSUME FInv, [Next]_vars PROVE FInv'
    OBVIOUS
<1>1. CInv' /\ CInv /\ TypeOK
    BY NextCInv DEF FInv, CInv, IInv
<1> SUFFICES ASSUME faults' = 0 PROVE Readable' /\ \A o \in Tasks : Smooth(o)'
    BY <1>1 DEF FInv
<1>2. CASE UNCHANGED vars
    <2>1. Readable /\ \A o \in Tasks : Smooth(o)
        BY <1>2 DEF FInv, vars
    <2> QED
        BY <1>2, <2>1 DEF vars, request, Readable, Smooth, Clean, Exchanged, Justified, Silent, Done
<1>3. CASE Next
    <2>1. faults = 0 /\ Observe /\ Readable /\ \A o \in Tasks : Smooth(o)
        BY <1>1, <1>3, FaultsGrow, StepObserves DEF FInv
    <2>2. Readable'
        BY <1>1, <1>3, <2>1, CacheReadable
    <2>3. ASSUME NEW t \in Tasks, Start(t) \/ Run(t) PROVE \A o \in Tasks : Smooth(o)'
        <3>1. Smooth(t)'
            BY <1>1, <2>1, <2>3, StartSmooth, LookupSmooth, DecideSmooth, WriteSmooth, FinishSmooth
            DEF Run
        <3>2. \A o \in Tasks \ {t} : SameTask(o)
            BY <1>1, <2>3, OthersStay
        <3> QED
            BY <1>1, <2>1, <3>1, <3>2, OtherSmooth
    <2>4. CASE (\E u \in Ids : CacheExpire(u)) \/ ClearCaches \/ Admin
        BY <1>1, <2>1, <2>2, <2>4, AllStay, OtherSmooth
    <2> QED
        BY <1>3, <2>2, <2>3, <2>4 DEF Next
<1> QED
    BY <1>2, <1>3

(* No task has started and nothing is cached. *)
LEMMA InitFInv == Init => FInv
<1> SUFFICES ASSUME Init PROVE Readable /\ \A t \in Tasks : Smooth(t)
    BY InitCInv DEF FInv
<1>1. Readable /\ \A t \in Tasks : pc[t] = "idle" /\ overwrote[t] = {}
    BY DEF Init, Readable, Miss, Undecodable
<1> QED
    BY <1>1 DEF Smooth, Clean, Exchanged, Justified, Silent, Done

(* The invariant holds throughout, with either cache backend.              *)
THEOREM FaultFreeInvariance == Spec => []FInv
BY InitFInv, NextFInv, PTL DEF Spec

(* As long as no exchange has failed, an error has a cause in the request  *)
(* or in the workspace: whatever is cached and whoever else writes, a      *)
(* valid Grant fails only for a user who was missing during the call, a    *)
(* valid Revoke only for the floor role, a Delete only for a missing user. *)
THEOREM ErrorsHaveCauses == Spec => []NoSpuriousFailure
<1>1. FInv => NoSpuriousFailure
    BY DEF FInv, Smooth, Justified, NoSpuriousFailure
<1> QED
    BY <1>1, FaultFreeInvariance, PTL

(* As long as no exchange has failed, a task that does not report success  *)
(* has written nothing: no PATCH of it was applied, no account created.    *)
THEOREM WritesAreReported == Spec => []NoUnreportedWrite
<1>1. FInv => NoUnreportedWrite
    BY DEF FInv, Smooth, Silent, NoUnreportedWrite
<1> QED
    BY <1>1, FaultFreeInvariance, PTL

-----------------------------------------------------------------------------
(***************************************************************************)
(* Delete's second look.  Without a cache and without interference, the    *)
(* user a DELETE removed stays removed until the GET that checks it.       *)
(***************************************************************************)
Gone(t) == op[t] = "Delete" =>
    /\ pc[t] \in {"lookup", "get"} \/ (pc[t] = "wrote" /\ reply[t].code = "OK")
          => role[subject[t]] = Absent
    /\ pc[t] = "got" => reply[t].code = "NotFound"
    /\ pc[t] = "done" => result[t].tag # "stillExists"

Undisturbed == CacheBackend = "noop" /\ faults = 0 /\ adminMoves = 0

DInv == CInv /\ (Undisturbed => \A t \in Tasks : Gone(t))

(* Nobody but an admin brings a removed user back.                         *)
LEMMA AbsentStays ==
    ASSUME CInv, Next, ~Admin, NEW u \in Ids, role[u] = Absent
    PROVE  role'[u] = Absent
<1>0. TypeOK /\ Absent \notin UserRole /\ Absent # Unused
    BY DEF CInv, IInv, UserRole, supportedRoles, Absent, Unused, NoRole, OtherRole, RoleOwner,
           RoleMembershipAdmin, RoleMember, RoleRestrictedMember
<1>1. ASSUME NEW t \in Tasks, Start(t) PROVE role' = role
    BY <1>1 DEF Start, GrantStart, RevokeStart, DeleteStart, CreateAccountStart, Begin, store
<1>2. ASSUME NEW t \in Tasks, Run(t) PROVE role'[u] = Absent
    <2>1. CASE ServePatch(t)
        BY <1>0, <2>1
        DEF ServePatch, handlePatchUser, PatchReply, Failed, Present, setRole, TypeOK, StoreTypeOK
    <2>2. CASE ServeDelete(t)
        BY <1>0, <2>2 DEF ServeDelete, handleDeleteUser, setRole, TypeOK, StoreTypeOK
    <2>3. CASE ServeCreate(t)
        <3>1. PICK id \in Ids : role[id] = Unused /\ handleCreateUser(id, email[t])
            BY <2>3 DEF ServeCreate
        <3> QED
            BY <1>0, <3>1 DEF handleCreateUser, setRole, TypeOK, StoreTypeOK
    <2>4. CASE ~(ServePatch(t) \/ ServeDelete(t) \/ ServeCreate(t))
        BY <1>2, <2>4, QuietSteps
    <2> QED
        BY <2>1, <2>2, <2>3, <2>4
<1>3. CASE (\E v \in Ids : CacheExpire(v)) \/ ClearCaches
    BY <1>3 DEF CacheExpire, ClearCaches, store
<1> QED
    BY <1>1, <1>2, <1>3 DEF Next

(* A task that does not move. *)
LEMMA OtherGone ==
    ASSUME CInv, Next, ~Admin, NEW t \in Tasks, Gone(t), SameTask(t)
    PROVE  Gone(t)'
<1>1. op[t] = "Delete" /\ pc[t] \in {"lookup", "get", "wrote"} => subject[t] \in Ids
    BY DEF CInv, IInv, TaskInv, AboutUser, Busy
<1>2. subject[t] \in Ids /\ role[subject[t]] = Absent => role'[subject[t]] = Absent
    BY AbsentStays
<1> QED
    BY <1>1, <1>2 DEF Gone, SameTask

(* The steps of a Delete. *)
LEMMA RunGone ==
    ASSUME CInv, Next, ~Admin, NEW t \in Tasks, Run(t), Gone(t), CacheBackend = "noop",
           faults = 0, faults' = 0, op[t] = "Delete"
    PROVE  Gone(t)'
<1>0. TypeOK /\ AboutUser(t) /\ CacheInv
    BY DEF CInv, IInv, TaskInv
<1>1. Absent \notin UserRole
    BY DEF UserRole, supportedRoles, Absent, NoRole, OtherRole, RoleOwner, RoleMembershipAdmin,
           RoleMember, RoleRestrictedMember
<1>2. CASE CacheHit(t) \/ CacheMiss(t) \/ ServeGet(t) \/ GetFault(t)
    <2>1. subject[t] \in Ids /\ subject' = subject /\ role[subject[t]] = Absent
        BY <1>0, <1>2 DEF CacheHit, CacheMiss, ServeGet, GetFault, AboutUser, Busy, Gone, request
    <2>2. role'[subject[t]] = Absent
        BY <2>1, AbsentStays
    <2>3. CASE CacheHit(t)
        BY <1>0, <2>1, <2>3 DEF CacheHit, CacheInv
    <2>4. CASE CacheMiss(t)
        <3>1. pc'[t] = "get"
            BY <1>0, <2>4 DEF CacheMiss, Goto, TypeOK
        <3> QED
            BY <2>1, <2>2, <3>1 DEF Gone
    <2>5. CASE ServeGet(t)
        <3>1. pc'[t] = "got" /\ reply'[t].code = "NotFound"
            BY <1>0, <1>1, <2>1, <2>5 DEF ServeGet, Goto, handleGetUser, Present, Failed, TypeOK
        <3> QED
            BY <3>1 DEF Gone
    <2>6. CASE GetFault(t)
        BY <2>6 DEF GetFault
    <2> QED
        BY <1>2, <2>3, <2>4, <2>5, <2>6
<1>3. CASE DeleteVerify(t)
    <2>1. pc'[t] = "done" /\ result'[t].tag = "ok"
        BY <1>0, <1>3 DEF DeleteVerify, StillThere, Report, Goto, Gone, TypeOK
    <2> QED
        BY <2>1 DEF Gone
<1>4. CASE ServeDelete(t)
    <2>1. subject[t] \in Ids /\ subject' = subject /\ pc'[t] = "wrote" /\ role[subject[t]] # Unused
        BY <1>0, <1>4 DEF ServeDelete, AboutUser, Busy, Goto, request, TypeOK
    <2>2. role'[subject[t]] = Absent
        BY <1>0, <1>4, <2>1 DEF ServeDelete, handleDeleteUser, setRole, Present, TypeOK, StoreTypeOK
    <2> QED
        BY <2>1, <2>2 DEF Gone
<1>5. CASE WriteFault(t)
    BY <1>5 DEF WriteFault
<1>6. CASE DeleteCheck(t)
    <2>1. /\ \/ pc'[t] = "lookup" /\ reply[t].code = "OK"
             \/ pc'[t] = "done" /\ result'[t].tag = "error"
          /\ subject' = subject /\ pc[t] = "wrote" /\ subject[t] \in Ids
        BY <1>0, <1>6 DEF DeleteCheck, Report, Goto, AboutUser, Busy, request, TypeOK
    <2>2. pc'[t] = "lookup" => role'[subject[t]] = Absent
        BY <2>1, AbsentStays DEF Gone
    <2> QED
        BY <2>1, <2>2 DEF Gone
<1> QED
    BY <1>2, <1>3, <1>4, <1>5, <1>6
    DEF Run, GrantDecide, RevokeDecide, ServePatch, ServeCreate, GrantFinish, RevokeFinish,
        CreateAccountFinish

(* Every step keeps a removed user's Delete on course. *)
LEMMA NextDInv == DInv /\ [Next]_vars => DInv'
<1> SUFFICES ASSUME DInv, [Next]_vars PROVE DInv'
    OBVIOUS
<1>1. CInv' /\ CInv /\ TypeOK
    BY NextCInv DEF DInv, CInv, IInv
<1> SUFFICES ASSUME Undisturbed' PROVE \A o \in Tasks : Gone(o)'
    BY <1>1 DEF DInv
<1>2. CASE UNCHANGED vars
    <2>1. \A o \in Tasks : Gone(o)
        BY <1>2 DEF DInv, Undisturbed, vars
    <2> QED
        BY <1>2, <2>1 DEF vars, request, store, Gone
<1>3. CASE Next
    <2>1. CacheBackend = "noop" /\ faults' = 0 /\ adminMoves' = 0
        BY DEF Undisturbed
    <2>2. ~Admin /\ adminMoves = 0
        BY <1>1, <1>3, <2>1, AdminMovesGrow
    <2>3. faults = 0
        BY <1>1, <1>3, <2>1, FaultsGrow
    <2>4. \A o \in Tasks : Gone(o)
        BY <2>1, <2>2, <2>3 DEF DInv, Undisturbed
    <2>5. ASSUME NEW t \in Tasks, Start(t) \/ Run(t) PROVE \A o \in Tasks : Gone(o)'
        <3>1. Gone(t)'
            <4>1. CASE Start(t)
                BY <1>1, <4>1
                DEF Start, GrantStart, RevokeStart, DeleteStart, CreateAccountStart, Begin, Goto, Report,
                    Gone, TypeOK
            <4>2. CASE Run(t) /\ op[t] = "Delete"
                BY <1>1, <1>3, <2>1, <2>2, <2>3, <2>4, <4>2, RunGone
            <4>3. CASE Run(t) /\ op[t] # "Delete"
                <5>1. op' = op
                    BY <4>3
                    DEF Run, CacheHit, CacheMiss, ServeGet, GetFault, GrantDecide, RevokeDecide,
                        DeleteVerify, ServePatch, ServeDelete, ServeCreate, WriteFault, GrantFinish,
                        RevokeFinish, DeleteCheck, CreateAccountFinish, request
                <5> QED
                    BY <4>3, <5>1 DEF Gone
            <4> QED
                BY <2>5, <4>1, <4>2, <4>3
        <3>2. \A o \in Tasks \ {t} : SameTask(o)
            BY <1>1, <2>5, OthersStay
        <3> QED
            BY <1>1, <1>3, <2>2, <2>4, <3>1, <3>2, OtherGone
    <2>6. CASE (\E u \in Ids : CacheExpire(u)) \/ ClearCaches
        BY <1>1, <1>3, <2>2, <2>4, <2>6, AllStay, OtherGone
    <2> QED
        BY <1>3, <2>2, <2>5, <2>6 DEF Next
<1> QED
    BY <1>2, <1>3

(* Without a cache, as long as no exchange has failed and no admin has     *)
(* interfered, Delete never says "still exists" of a user who is gone - in *)
(* fact it never says so at all, however many other tasks run beside it.   *)
THEOREM DeleteNotMisled ==
    ASSUME CacheBackend = "noop"
    PROVE  Spec => [](StillExistsTruthful /\
             (faults = 0 /\ adminMoves = 0 => \A t \in Tasks : ~Done(t, "Delete", "stillExists")))
<1>1. Init => DInv
    <2> SUFFICES ASSUME Init PROVE \A t \in Tasks : Gone(t)
        BY InitCInv DEF DInv
    <2> QED
        BY DEF Init, Gone
<1>2. DInv => StillExistsTruthful /\
             (faults = 0 /\ adminMoves = 0 => \A t \in Tasks : ~Done(t, "Delete", "stillExists"))
    BY DEF DInv, Undisturbed, Gone, StillExistsTruthful, Done
<1> QED
    BY <1>1, <1>2, NextDInv, PTL DEF Spec
=============================================================================
