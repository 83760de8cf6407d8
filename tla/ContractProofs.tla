--------------------------- MODULE ContractProofs ---------------------------
(***************************************************************************)
(* Provisioning implements TaskContract when nothing is cached: every step *)
(* of an exchange, a retry or a report is a step of the contract or        *)
(* leaves it where it was, for any number of users, tasks and faults.      *)
(***************************************************************************)
EXTENDS ProvisioningProofs

-----------------------------------------------------------------------------
(***************************************************************************)
(* What the contract asks of an open task and IInv does not say.           *)
(***************************************************************************)

(* The history of a running task holds the role its user has now. *)
Watched(t) == pc[t] # "done" /\ subject[t] \in Ids => role[subject[t]] \in held[t]

(* Grant and Revoke run for a supported role only. *)
Checked(t) ==
    pc[t] \notin {"idle", "done"} /\ op[t] \in {"Grant", "Revoke"} => target[t] \in supportedRoles

(* Without a cache, Revoke writes only after its user was seen with the    *)
(* role during the call.                                                   *)
Witnessed(t) ==
    CacheBackend = "noop" /\ pc[t] \in {"write", "wrote"} /\ op[t] = "Revoke" => target[t] \in held[t]

(* CreateAccount has no user before its request was handled. *)
Unborn(t) == pc[t] = "write" /\ op[t] = "CreateAccount" => subject[t] = NonUser

OpenInv(t) == Watched(t) /\ Checked(t) /\ Witnessed(t) /\ Unborn(t)

CInv == IInv /\ \A t \in Tasks : OpenInv(t)

-----------------------------------------------------------------------------
(* Frame facts. *)

(* Every step of the system extends the histories. *)
LEMMA StepObserves == ASSUME Next PROVE Observe
BY DEF Next, Start, GrantStart, RevokeStart, DeleteStart, CreateAccountStart, Begin, Run, CacheHit,
       CacheMiss, ServeGet, GetFault, GrantDecide, RevokeDecide, DeleteVerify, ServePatch, ServeDelete,
       ServeCreate, WriteFault, GrantFinish, RevokeFinish, DeleteCheck, CreateAccountFinish,
       CacheExpire, ClearCaches, Admin

(* A task's step moves no other task. *)
LEMMA OthersStay ==
    ASSUME TypeOK, NEW t \in Tasks, Start(t) \/ Run(t)
    PROVE  \A o \in Tasks \ {t} : SameTask(o)
<1> SUFFICES ASSUME NEW o \in Tasks, o # t PROVE SameTask(o)
    OBVIOUS
<1>1. CASE Start(t)
    BY <1>1 DEF Start, GrantStart, RevokeStart, DeleteStart, CreateAccountStart, Begin, Goto, Report,
       SameTask, TypeOK
<1>2. CASE CacheHit(t) \/ CacheMiss(t) \/ ServeGet(t) \/ GetFault(t)
    BY <1>2 DEF CacheHit, CacheMiss, ServeGet, GetFault, Goto, SameTask, request, TypeOK
<1>3. CASE GrantDecide(t) \/ RevokeDecide(t) \/ DeleteVerify(t)
    BY <1>3 DEF GrantDecide, RevokeDecide, DeleteVerify, RetryOrFail, Report, Goto, SameTask, request,
       TypeOK
<1>4. CASE ServePatch(t) \/ ServeDelete(t) \/ ServeCreate(t) \/ WriteFault(t)
    BY <1>4 DEF ServePatch, ServeDelete, ServeCreate, WriteFault, Deliver, Goto, SameTask, request,
       TypeOK
<1>5. CASE GrantFinish(t) \/ RevokeFinish(t) \/ DeleteCheck(t) \/ CreateAccountFinish(t)
    BY <1>5 DEF GrantFinish, RevokeFinish, DeleteCheck, CreateAccountFinish, RetryOrFail, Report, Goto,
       SameTask, request, TypeOK
<1> QED
    BY <1>1, <1>2, <1>3, <1>4, <1>5 DEF Run

(* What happens around the tasks moves none. *)
LEMMA AllStay ==
    ASSUME (\E u \in Ids : CacheExpire(u)) \/ ClearCaches \/ Admin
    PROVE  \A o \in Tasks : SameTask(o)
BY DEF CacheExpire, ClearCaches, Admin, SameTask, request

(* The steps of a task other than the server's writes leave the workspace  *)
(* and the requests alone.                                                 *)
LEMMA QuietSteps ==
    ASSUME NEW t \in Tasks, Run(t), ~(ServePatch(t) \/ ServeDelete(t) \/ ServeCreate(t))
    PROVE  UNCHANGED <<role, userName, members, op, subject, target, email, adminMoves, overwrote>>
BY DEF Run, CacheHit, CacheMiss, ServeGet, GetFault, GrantDecide, RevokeDecide, DeleteVerify, WriteFault,
       GrantFinish, RevokeFinish, DeleteCheck, CreateAccountFinish, store, request

(* A task that has reported stays so. *)
LEMMA DoneStays ==
    ASSUME TypeOK, NEW t \in Tasks, Start(t) \/ Run(t)
    PROVE  pc[t] # "done"
BY DEF Start, GrantStart, RevokeStart, DeleteStart, CreateAccountStart, Begin, Run, CacheHit, CacheMiss,
       ServeGet, GetFault, GrantDecide, RevokeDecide, DeleteVerify, ServePatch, ServeDelete,
       ServeCreate, WriteFault, GrantFinish, RevokeFinish, DeleteCheck, CreateAccountFinish

-----------------------------------------------------------------------------
(* The strengthened invariant is kept. *)

(* Watched needs no more than the history. *)
LEMMA StillWatched ==
    ASSUME TypeOK, NEW t \in Tasks, pc[t] = "done" => pc'[t] = "done", Observe
    PROVE  Watched(t)'
BY HistoryGrows DEF Watched

(* A task that does not move. *)
LEMMA OtherOpen ==
    ASSUME TypeOK, NEW t \in Tasks, OpenInv(t), SameTask(t), Observe
    PROVE  OpenInv(t)'
<1>1. held[t] \subseteq held'[t]
    BY HistoryGrows
<1>2. Watched(t)'
    BY StillWatched DEF SameTask
<1>3. Checked(t)' /\ Witnessed(t)' /\ Unborn(t)'
    BY <1>1 DEF OpenInv, Checked, Witnessed, Unborn, SameTask
<1> QED
    BY <1>2, <1>3 DEF OpenInv

(* A request that arrives was checked. *)
LEMMA BeginOpen ==
    ASSUME CInv, NEW t \in Tasks, NEW o \in Ops, NEW p, NEW r, NEW e, NEW valid \in BOOLEAN,
           NEW first \in {"lookup", "write"},
           o \in {"Grant", "Revoke"} => first = "lookup" /\ (valid => r \in supportedRoles),
           o = "CreateAccount" => p = NonUser,
           Begin(t, o, p, r, e, valid, first)
    PROVE  OpenInv(t)'
<1>1. /\ op'[t] = o /\ subject'[t] = p /\ target'[t] = r
      /\ pc'[t] = IF valid THEN first ELSE "done"
      /\ pc[t] # "done" /\ Observe
    BY DEF Begin, Goto, Report, CInv, IInv, TypeOK
<1>2. Watched(t)'
    BY <1>1, StillWatched DEF CInv, IInv
<1> QED
    BY <1>1, <1>2 DEF OpenInv, Checked, Witnessed, Unborn

(* ... for each of the operations. *)
LEMMA StartOpen ==
    ASSUME CInv, NEW t \in Tasks, Start(t)
    PROVE  OpenInv(t)'
<1>0. {"Grant", "Revoke", "Delete", "CreateAccount"} \subseteq Ops
    BY DEF Ops
<1>1. CASE GrantStart(t)
    <2>1. PICK p \in Principals, r \in AskedRoles :
             Begin(t, "Grant", p, r, email[t], p # NonUser /\ isSupportedRole(r), "lookup")
        BY <1>1 DEF GrantStart
    <2>2. (p # NonUser /\ isSupportedRole(r)) \in BOOLEAN /\ (isSupportedRole(r) => r \in supportedRoles)
        BY DEF isSupportedRole
    <2> QED
        BY <1>0, <2>1, <2>2, BeginOpen
<1>2. CASE RevokeStart(t)
    <2>1. PICK p \in Principals, r \in AskedRoles :
             Begin(t, "Revoke", p, r, email[t], p # NonUser /\ isSupportedRole(r), "lookup")
        BY <1>2 DEF RevokeStart
    <2>2. (p # NonUser /\ isSupportedRole(r)) \in BOOLEAN /\ (isSupportedRole(r) => r \in supportedRoles)
        BY DEF isSupportedRole
    <2> QED
        BY <1>0, <2>1, <2>2, BeginOpen
<1>3. CASE DeleteStart(t)
    <2>1. PICK p \in Principals \ {NonUser} :
             Begin(t, "Delete", p, NoRole, email[t], TRUE, "write")
        BY <1>3 DEF DeleteStart
    <2> QED
        BY <1>0, <2>1, BeginOpen
<1>4. CASE CreateAccountStart(t)
    <2>1. PICK e \in Emails, complete \in BOOLEAN :
             Begin(t, "CreateAccount", NonUser, NoRole, e, complete, "write")
        BY <1>4 DEF CreateAccountStart
    <2> QED
        BY <1>0, <2>1, BeginOpen
<1> QED
    BY <1>1, <1>2, <1>3, <1>4 DEF Start

(* The steps of a task: only the decision to write needs evidence. *)
LEMMA RunOpen ==
    ASSUME CInv, NEW t \in Tasks, Run(t)
    PROVE  OpenInv(t)'
<1>0. TypeOK /\ Observe /\ held[t] \subseteq held'[t] /\ pc[t] # "done" /\ pc[t] # "idle"
    <2>1. Observe
        BY StepObserves DEF Next
    <2>2. pc[t] # "idle"
        BY DEF Run, CacheHit, CacheMiss, ServeGet, GetFault, GrantDecide, RevokeDecide, DeleteVerify,
           ServePatch, ServeDelete, ServeCreate, WriteFault, GrantFinish, RevokeFinish, DeleteCheck,
           CreateAccountFinish
    <2> QED
        BY <2>1, <2>2, DoneStays, HistoryGrows DEF CInv, IInv
<1>1. Watched(t)'
    BY <1>0, StillWatched
<1>2. UNCHANGED <<op, target>>
    BY DEF Run, CacheHit, CacheMiss, ServeGet, GetFault, GrantDecide, RevokeDecide, DeleteVerify,
       ServePatch, ServeDelete, ServeCreate, WriteFault, GrantFinish, RevokeFinish, DeleteCheck,
       CreateAccountFinish, request
<1>3. Checked(t)'
    BY <1>0, <1>2 DEF CInv, OpenInv, Checked
<1>4. Witnessed(t)' /\ Unborn(t)'
    <2>1. CASE CacheHit(t) \/ CacheMiss(t) \/ ServeGet(t) \/ GetFault(t)
        <3>1. pc'[t] \in {"get", "got"}
            BY <1>0, <2>1 DEF CacheHit, CacheMiss, ServeGet, GetFault, Goto, TypeOK
        <3> QED
            BY <3>1 DEF Witnessed, Unborn
    <2>2. CASE GrantDecide(t) \/ DeleteVerify(t)
        BY <1>0, <1>2, <2>2 DEF GrantDecide, DeleteVerify, Witnessed, Unborn
    <2>3. CASE RevokeDecide(t)
        <3>1. \/ pc'[t] \in {"done", "lookup"}
              \/ reply[t].code = "OK" /\ reply[t].role = target[t]
            BY <1>0, <2>3 DEF RevokeDecide, RetryOrFail, Report, Goto, TypeOK
        <3>2. pc[t] = "got" /\ op[t] = "Revoke" /\ Answered(t)
            BY <2>3 DEF RevokeDecide, CInv, IInv, TaskInv
        <3> QED
            BY <1>0, <1>2, <3>1, <3>2 DEF Answered, Witnessed, Unborn
    <2>4. CASE ServePatch(t) \/ ServeDelete(t) \/ ServeCreate(t) \/ WriteFault(t)
        <3>1. pc[t] = "write" /\ pc'[t] = "wrote"
            BY <1>0, <2>4 DEF ServePatch, ServeDelete, ServeCreate, WriteFault, Goto, TypeOK
        <3> QED
            BY <1>0, <1>2, <3>1 DEF CInv, OpenInv, Witnessed, Unborn
    <2>5. CASE GrantFinish(t) \/ RevokeFinish(t) \/ DeleteCheck(t) \/ CreateAccountFinish(t)
        <3>1. pc'[t] \in {"done", "lookup"}
            BY <1>0, <2>5 DEF GrantFinish, RevokeFinish, DeleteCheck, CreateAccountFinish, RetryOrFail,
               Report, Goto, TypeOK
        <3> QED
            BY <3>1 DEF Witnessed, Unborn
    <2> QED
        BY <2>1, <2>2, <2>3, <2>4, <2>5 DEF Run
<1> QED
    BY <1>1, <1>3, <1>4 DEF OpenInv

(* It holds at the start. *)
LEMMA InitCInv == Init => CInv
<1> SUFFICES ASSUME Init PROVE CInv
    OBVIOUS
<1>1. \A t \in Tasks : pc[t] = "idle" /\ subject[t] = NonUser
    BY DEF Init
<1>2. \A t \in Tasks : OpenInv(t)
    BY <1>1, NonUserAssumption DEF OpenInv, Watched, Checked, Witnessed, Unborn
<1> QED
    BY <1>2, InitIInv DEF CInv

(* Every step keeps it. *)
LEMMA NextCInv == CInv /\ [Next]_vars => CInv'
<1> SUFFICES ASSUME CInv, [Next]_vars PROVE CInv'
    OBVIOUS
<1>1. IInv' /\ TypeOK
    BY NextIInv DEF CInv, IInv
<1>2. ASSUME NEW t \in Tasks, Start(t) \/ Run(t) PROVE \A o \in Tasks : OpenInv(o)'
    <2>1. OpenInv(t)'
        BY <1>2, StartOpen, RunOpen
    <2>2. Observe /\ \A o \in Tasks \ {t} : SameTask(o)
        BY <1>1, <1>2, OthersStay, StepObserves DEF Next
    <2> QED
        BY <1>1, <2>1, <2>2, OtherOpen DEF CInv
<1>3. CASE (\E u \in Ids : CacheExpire(u)) \/ ClearCaches \/ Admin
    <2>1. Observe /\ \A o \in Tasks : SameTask(o)
        BY <1>3, AllStay, StepObserves DEF Next
    <2> QED
        BY <1>1, <2>1, OtherOpen DEF CInv
<1>4. CASE UNCHANGED vars
    BY <1>1, <1>4 DEF vars, request, store, CInv, OpenInv, Watched, Checked, Witnessed, Unborn
<1> QED
    BY <1>1, <1>2, <1>3, <1>4 DEF Next, CInv

(* The invariant of running tasks holds throughout, with either backend:   *)
(* a task knows its user's present role from its history, works for a      *)
(* checked request and, uncached, revokes on evidence of this very call.   *)
THEOREM OpenTasksInvariance == Spec => []CInv
BY InitCInv, NextCInv, PTL DEF Spec

-----------------------------------------------------------------------------
(***************************************************************************)
(* The refinement.  First what a step of Provisioning does to the          *)
(* contract's view of it.                                                  *)
(***************************************************************************)
PhaseAt(step) == IF step \in {"idle", "done"} THEN step ELSE "open"

(* One task's phase and tag change with its step. *)
LEMMA ViewMoves ==
    ASSUME TypeOK, TypeOK', NEW t \in Tasks, \A o \in Tasks \ {t} : SameTask(o)
    PROVE  /\ Phase' = [Phase EXCEPT ![t] = PhaseAt(pc'[t])]
           /\ ReportTag' = [ReportTag EXCEPT ![t] = result'[t].tag]
           /\ Phase[t] = PhaseAt(pc[t])
<1>1. \A o \in Tasks \ {t} : pc'[o] = pc[o] /\ result'[o] = result[o]
    BY DEF SameTask
<1> QED
    BY <1>1 DEF Phase, ReportTag, PhaseAt

(* Nobody moved. *)
LEMMA ViewStays ==
    ASSUME \A o \in Tasks : SameTask(o)
    PROVE  UNCHANGED <<Phase, ReportTag>>
<1>1. \A o \in Tasks : pc'[o] = pc[o] /\ result'[o] = result[o]
    BY DEF SameTask
<1> QED
    BY <1>1 DEF Phase, ReportTag

(* The two histories are one. *)
LEMMA ObserveMaps ==
    ASSUME Observe
    PROVE  Contract!Observe
<1>1. \A t \in Tasks : Phase[t] = "done" <=> pc[t] = "done"
    BY DEF Phase
<1> QED
    BY <1>1 DEF Observe, Contract!Observe

(* A step that keeps roles, requests and phases is none to the contract:   *)
(* the history already holds what it could add.                            *)
LEMMA Stutters ==
    ASSUME CInv, Observe, UNCHANGED <<role, op, subject, target, adminMoves, Phase, ReportTag>>
    PROVE  UNCHANGED Contract!vars
<1>1. ASSUME NEW t \in Tasks
      PROVE  (IF pc[t] = "done" \/ subject'[t] \notin Ids
              THEN held[t] ELSE held[t] \cup {role'[subject'[t]]}) = held[t]
    BY DEF CInv, OpenInv, Watched
<1>2. held' = [t \in Tasks |-> held[t]]
    BY <1>1 DEF Observe
<1>3. held' = held
    BY <1>2 DEF CInv, IInv, TypeOK
<1> QED
    BY <1>3 DEF Contract!vars

(* A request that arrives opens a task or is refused. *)
LEMMA BeginMaps ==
    ASSUME CInv, TypeOK', NEW t \in Tasks, Start(t),
           NEW o \in {"Grant", "Revoke", "Delete", "CreateAccount"}, NEW p \in Principals,
           NEW r \in UserRole, NEW e, NEW valid, NEW first \in {"lookup", "write"},
           Begin(t, o, p, r, e, valid, first)
    PROVE  Contract!Open(t)
<1>1. p \in Ids \cup {NonUser}
    BY DEF Principals
<1>2. /\ pc[t] = "idle"
      /\ op' = [op EXCEPT ![t] = o] /\ subject' = [subject EXCEPT ![t] = p]
      /\ target' = [target EXCEPT ![t] = r]
      /\ UNCHANGED <<role, adminMoves>> /\ Observe
      /\ \/ pc'[t] = first /\ result' = result
         \/ pc'[t] = "done" /\ result'[t].tag = "error"
    BY DEF Begin, Goto, Report, store, CInv, IInv, TypeOK
<1>3. /\ Phase' = [Phase EXCEPT ![t] = PhaseAt(pc'[t])]
      /\ ReportTag' = [ReportTag EXCEPT ![t] = result'[t].tag]
      /\ Phase[t] = PhaseAt(pc[t])
    BY OthersStay, ViewMoves DEF CInv, IInv
<1>4. \/ Phase' = [Phase EXCEPT ![t] = "open"] /\ ReportTag' = ReportTag
      \/ Phase' = [Phase EXCEPT ![t] = "done"] /\ ReportTag' = [ReportTag EXCEPT ![t] = "error"]
    BY <1>2, <1>3 DEF PhaseAt, ReportTag
<1>5. Phase[t] = "idle"
    BY <1>2, <1>3 DEF PhaseAt
<1>6. Contract!Observe
    BY <1>2, ObserveMaps
<1> QED
    BY <1>1, <1>2, <1>4, <1>5, <1>6 DEF Contract!Open

(* ... whichever operation it asks for. *)
LEMMA StartMaps ==
    ASSUME CInv, TypeOK', NEW t \in Tasks, Start(t)
    PROVE  Contract!Open(t)
<1>1. NonUser \in Principals /\ AskedRoles \subseteq UserRole /\ NoRole \in UserRole
    BY RolesAssumption DEF Principals, UserRole
<1>2. CASE GrantStart(t) \/ RevokeStart(t)
    BY <1>1, <1>2, BeginMaps DEF GrantStart, RevokeStart
<1>3. CASE DeleteStart(t) \/ CreateAccountStart(t)
    BY <1>1, <1>3, BeginMaps DEF DeleteStart, CreateAccountStart
<1> QED
    BY <1>2, <1>3 DEF Start

(* A report closes a task, if it is truthful. *)
LEMMA ReportMaps ==
    ASSUME CInv, TypeOK', NEW t \in Tasks, Run(t), NEW report, NEW r, Report(t, report, r),
           report \in {"ok", "error", "stillExists", "GrantAlreadyExists", "GrantAlreadyRevoked"},
           Contract!Truthful(t, report),
           UNCHANGED <<role, op, subject, target, adminMoves>>
    PROVE  Contract!Close(t)
<1>1. pc[t] \notin {"idle", "done"} /\ Observe
    BY StepObserves
    DEF Next, Run, CacheHit, CacheMiss, ServeGet, GetFault, GrantDecide, RevokeDecide, DeleteVerify,
        ServePatch, ServeDelete, ServeCreate, WriteFault, GrantFinish, RevokeFinish, DeleteCheck,
        CreateAccountFinish
<1>2. pc'[t] = "done" /\ result'[t].tag = report
    BY DEF Report, Goto, CInv, IInv, TypeOK
<1>3. /\ Phase' = [Phase EXCEPT ![t] = PhaseAt(pc'[t])]
      /\ ReportTag' = [ReportTag EXCEPT ![t] = result'[t].tag]
      /\ Phase[t] = PhaseAt(pc[t])
    BY OthersStay, ViewMoves DEF CInv, IInv
<1>4. /\ Phase[t] = "open" /\ Phase' = [Phase EXCEPT ![t] = "done"]
      /\ ReportTag' = [ReportTag EXCEPT ![t] = report]
    BY <1>1, <1>2, <1>3 DEF PhaseAt
<1>5. Contract!Observe
    BY <1>1, ObserveMaps
<1> QED
    BY <1>4, <1>5 DEF Contract!Close

(* A step from one exchange to the next keeps the phase. *)
LEMMA GoesOn ==
    ASSUME CInv, TypeOK', NEW t \in Tasks, Run(t), pc'[t] \notin {"idle", "done"},
           UNCHANGED result
    PROVE  UNCHANGED <<Phase, ReportTag>> /\ Phase[t] = "open"
<1>1. pc[t] \notin {"idle", "done"}
    BY DEF Run, CacheHit, CacheMiss, ServeGet, GetFault, GrantDecide, RevokeDecide, DeleteVerify,
        ServePatch, ServeDelete, ServeCreate, WriteFault, GrantFinish, RevokeFinish, DeleteCheck,
        CreateAccountFinish
<1>2. /\ Phase' = [Phase EXCEPT ![t] = PhaseAt(pc'[t])]
      /\ Phase[t] = PhaseAt(pc[t])
    BY OthersStay, ViewMoves DEF CInv, IInv
<1>3. Phase[t] = "open" /\ Phase' = [Phase EXCEPT ![t] = Phase[t]]
    BY <1>1, <1>2 DEF PhaseAt
<1>4. Phase' = Phase
    BY <1>3 DEF Phase
<1> QED
    BY <1>3, <1>4 DEF ReportTag

(* Another attempt is no step of the contract; giving up closes the task.  *)
LEMMA RetryMaps ==
    ASSUME CInv, TypeOK', NEW t \in Tasks, Run(t), RetryOrFail(t),
           UNCHANGED <<role, op, subject, target, adminMoves>>
    PROVE  [Contract!Next]_(Contract!vars)
<1>1. CASE Goto(t, "lookup") /\ UNCHANGED result
    <2>1. pc'[t] \notin {"idle", "done"} /\ Observe
        BY <1>1, StepObserves DEF Goto, CInv, IInv, TypeOK, Next
    <2> QED
        BY <1>1, <2>1, GoesOn, Stutters
<1>2. CASE Report(t, "error", NoRole)
    <2>1. Contract!Truthful(t, "error")
        BY DEF Contract!Truthful
    <2> QED
        BY <1>2, <2>1, ReportMaps DEF Contract!Next
<1> QED
    BY <1>1, <1>2 DEF RetryOrFail

(* The exchange of a GET. *)
LEMMA LookupMaps ==
    ASSUME CInv, TypeOK', NEW t \in Tasks, Run(t),
           CacheHit(t) \/ CacheMiss(t) \/ ServeGet(t) \/ GetFault(t) \/ WriteFault(t)
    PROVE  UNCHANGED Contract!vars
<1>1. /\ UNCHANGED <<role, op, subject, target, adminMoves, result>>
      /\ pc'[t] \in {"get", "got", "wrote"} /\ Observe
    BY DEF CacheHit, CacheMiss, ServeGet, GetFault, WriteFault, Goto, store, request, CInv, IInv, TypeOK
<1> QED
    BY <1>1, GoesOn, Stutters

(* The decision taken on it: what it reports was so during the call.       *)
LEMMA DecideMaps ==
    ASSUME CInv, TypeOK', NEW t \in Tasks, Run(t), CacheBackend = "noop",
           GrantDecide(t) \/ RevokeDecide(t) \/ DeleteVerify(t)
    PROVE  [Contract!Next]_(Contract!vars)
<1>1. /\ UNCHANGED <<role, op, subject, target, adminMoves>> /\ Observe /\ pc[t] = "got"
    BY DEF GrantDecide, RevokeDecide, DeleteVerify, store, request
<1>2. /\ reply[t].code = "NotFound" => Absent \in held[t]
      /\ reply[t].code = "OK" => reply[t].role \in held[t]
      /\ target[t] # Absent
    <2>1. Absent \notin UserRole
        BY DEF UserRole, supportedRoles, Absent, NoRole, OtherRole, RoleOwner, RoleMembershipAdmin,
               RoleMember, RoleRestrictedMember
    <2> QED
        BY <1>1, <2>1 DEF CInv, IInv, TaskInv, Answered, TypeOK
<1>3. CASE RetryOrFail(t)
    BY <1>1, <1>3, RetryMaps
<1>4. CASE Goto(t, "write") /\ UNCHANGED result
    <2>1. pc'[t] \notin {"idle", "done"}
        BY <1>4 DEF Goto, CInv, IInv, TypeOK
    <2> QED
        BY <1>1, <1>4, <2>1, GoesOn, Stutters
<1>5. ASSUME NEW tag, Report(t, tag, NoRole),
             \/ tag \in {"error", "stillExists"}
             \/ tag = "ok" /\ op[t] = "Delete" /\ IsNotFoundError(t)
             \/ tag = "GrantAlreadyExists" /\ op[t] = "Grant" /\ reply[t].code = "OK"
                  /\ reply[t].role = target[t]
             \/ tag = "GrantAlreadyRevoked" /\ op[t] = "Revoke"
                  /\ (IsNotFoundError(t) \/ (reply[t].code = "OK" /\ reply[t].role # target[t]))
      PROVE  [Contract!Next]_(Contract!vars)
    <2>1. Contract!Truthful(t, tag)
        BY <1>2, <1>5 DEF Contract!Truthful, IsNotFoundError
    <2>2. tag \in {"ok", "error", "stillExists", "GrantAlreadyExists", "GrantAlreadyRevoked"}
        BY <1>5
    <2>3. Contract!Close(t)
        BY <1>1, <1>5, <2>1, <2>2, ReportMaps
    <2> QED
        BY <2>3 DEF Contract!Next
<1>6. CASE GrantDecide(t)
    BY <1>3, <1>4, <1>5, <1>6 DEF GrantDecide
<1>7. CASE RevokeDecide(t)
    BY <1>3, <1>4, <1>5, <1>7 DEF RevokeDecide
<1>8. CASE DeleteVerify(t)
    BY <1>5, <1>8 DEF DeleteVerify, StillThere, IsNotFoundError
<1> QED
    BY <1>6, <1>7, <1>8

(* The report after a write. *)
LEMMA FinishMaps ==
    ASSUME CInv, TypeOK', NEW t \in Tasks, Run(t),
           GrantFinish(t) \/ RevokeFinish(t) \/ DeleteCheck(t) \/ CreateAccountFinish(t)
    PROVE  [Contract!Next]_(Contract!vars)
<1>1. UNCHANGED <<role, op, subject, target, adminMoves>> /\ Observe /\ pc[t] = "wrote"
    BY DEF GrantFinish, RevokeFinish, DeleteCheck, CreateAccountFinish, store, request
<1>2. Written(t) /\ target[t] # Absent
    <2>1. Absent \notin UserRole
        BY DEF UserRole, supportedRoles, Absent, NoRole, OtherRole, RoleOwner, RoleMembershipAdmin,
               RoleMember, RoleRestrictedMember
    <2> QED
        BY <2>1 DEF CInv, IInv, TaskInv, TypeOK
<1>3. CASE RetryOrFail(t)
    BY <1>1, <1>3, RetryMaps
<1>4. CASE Goto(t, "lookup") /\ UNCHANGED result
    <2>1. pc'[t] \notin {"idle", "done"}
        BY <1>4 DEF Goto, CInv, IInv, TypeOK
    <2> QED
        BY <1>1, <1>4, <2>1, GoesOn, Stutters
<1>5. ASSUME NEW tag, NEW r, Report(t, tag, r),
             \/ tag = "error"
             \/ tag = "ok" /\ op[t] \in {"Grant", "Revoke", "CreateAccount"} /\ reply[t].code = "OK"
             \/ tag = "GrantAlreadyRevoked" /\ op[t] = "Revoke" /\ IsNotFoundError(t)
      PROVE  [Contract!Next]_(Contract!vars)
    <2>1. Contract!Truthful(t, tag)
        BY <1>1, <1>2, <1>5 DEF Contract!Truthful, IsNotFoundError, Written
    <2>2. tag \in {"ok", "error", "stillExists", "GrantAlreadyExists", "GrantAlreadyRevoked"}
        BY <1>5
    <2>3. Contract!Close(t)
        BY <1>1, <1>5, <2>1, <2>2, ReportMaps
    <2> QED
        BY <2>3 DEF Contract!Next
<1>6. CASE GrantFinish(t)
    BY <1>3, <1>5, <1>6 DEF GrantFinish
<1>7. CASE RevokeFinish(t)
    BY <1>3, <1>5, <1>7 DEF RevokeFinish
<1>8. CASE DeleteCheck(t)
    BY <1>4, <1>5, <1>8 DEF DeleteCheck
<1>9. CASE CreateAccountFinish(t)
    BY <1>5, <1>9 DEF CreateAccountFinish
<1> QED
    BY <1>6, <1>7, <1>8, <1>9

(* The server's writes: the one change each operation is for, made on the  *)
(* evidence that the task holds, or no change at all.                      *)
LEMMA WriteMaps ==
    ASSUME CInv, TypeOK', NEW t \in Tasks, Run(t), CacheBackend = "noop",
           ServePatch(t) \/ ServeDelete(t) \/ ServeCreate(t)
    PROVE  [Contract!Next]_(Contract!vars)
<1>1. /\ UNCHANGED <<op, target, adminMoves, result>> /\ Observe
      /\ pc[t] = "write" /\ pc'[t] = "wrote"
    BY DEF ServePatch, ServeDelete, ServeCreate, Goto, request, CInv, IInv, TypeOK
<1>2. UNCHANGED <<Phase, ReportTag>> /\ Phase[t] = "open" /\ Contract!Observe
    BY <1>1, GoesOn, ObserveMaps
<1>3. AboutUser(t) /\ Decided(t) /\ Checked(t) /\ Witnessed(t) /\ Unborn(t)
    BY DEF CInv, OpenInv, IInv, TaskInv
<1>4. CASE UNCHANGED <<role, subject>>
    BY <1>1, <1>2, <1>4, Stutters
<1>5. CASE ServePatch(t)
    <2>1. subject[t] \in Ids /\ subject' = subject /\ op[t] \in {"Grant", "Revoke"}
        BY <1>1, <1>3, <1>5 DEF ServePatch, AboutUser, Busy, request
    <2>2. CASE PatchReply(subject[t], PatchRole(t)).code = "OK"
        <3>1. Present(subject[t]) /\ role' = [role EXCEPT ![subject[t]] = PatchRole(t)]
            BY <1>5, <2>2 DEF ServePatch, handlePatchUser, PatchReply, Failed, setRole
        <3>2. role[subject[t]] \in UserRole /\ target[t] \in supportedRoles
            BY <1>1, <1>3, <2>1, <3>1 DEF Present, Checked
        <3>3. CASE op[t] = "Grant"
            <4>1. held[t] \ {target[t]} # {}
                BY <1>1, <1>3, <3>3 DEF Decided
            <4>2. role' = [role EXCEPT ![subject[t]] = target[t]]
                BY <3>1, <3>3 DEF PatchRole
            <4>3. Contract!Change(t)
                BY <1>1, <1>2, <2>1, <3>2, <3>3, <4>1, <4>2 DEF Contract!Change
            <4> QED
                BY <4>3 DEF Contract!Next
        <3>4. CASE op[t] = "Revoke"
            <4>1. target[t] \in held[t] /\ target[t] \in supportedRoles \ {defaultRevokedRole}
                BY <1>1, <1>3, <3>2, <3>4 DEF Decided, Witnessed
            <4>2. role' = [role EXCEPT ![subject[t]] = defaultRevokedRole]
                BY <3>1, <3>4 DEF PatchRole
            <4>3. Contract!Change(t)
                BY <1>1, <1>2, <2>1, <3>2, <3>4, <4>1, <4>2 DEF Contract!Change
            <4> QED
                BY <4>3 DEF Contract!Next
        <3> QED
            BY <2>1, <3>3, <3>4
    <2>3. CASE PatchReply(subject[t], PatchRole(t)).code # "OK"
        BY <1>4, <1>5, <2>1, <2>3 DEF ServePatch, handlePatchUser
    <2> QED
        BY <2>2, <2>3
<1>6. CASE ServeDelete(t)
    <2>1. subject[t] \in Ids /\ subject' = subject /\ op[t] = "Delete"
        BY <1>1, <1>3, <1>6 DEF ServeDelete, AboutUser, Busy, request
    <2>2. CASE Present(subject[t])
        <3>1. role[subject[t]] \in UserRole /\ role' = [role EXCEPT ![subject[t]] = Absent]
            BY <1>6, <2>2 DEF ServeDelete, handleDeleteUser, setRole, Present
        <3>2. Contract!Change(t)
            BY <1>1, <1>2, <2>1, <3>1 DEF Contract!Change
        <3> QED
            BY <3>2 DEF Contract!Next
    <2>3. CASE ~Present(subject[t])
        BY <1>4, <1>6, <2>1, <2>3 DEF ServeDelete, handleDeleteUser
    <2> QED
        BY <2>2, <2>3
<1>7. CASE ServeCreate(t)
    <2>1. PICK id \in Ids :
             /\ role[id] = Unused
             /\ handleCreateUser(id, email[t])
             /\ subject' = IF NameTaken(email[t]) THEN subject ELSE [subject EXCEPT ![t] = id]
        BY <1>7 DEF ServeCreate
    <2>2. CASE NameTaken(email[t])
        BY <1>4, <2>1, <2>2 DEF handleCreateUser
    <2>3. CASE ~NameTaken(email[t])
        <3>1. role' = [role EXCEPT ![id] = RoleMember] /\ subject' = [subject EXCEPT ![t] = id]
            BY <2>1, <2>3 DEF handleCreateUser, setRole
        <3>2. op[t] = "CreateAccount" /\ subject[t] = NonUser
            BY <1>1, <1>3, <1>7 DEF ServeCreate, Unborn
        <3>3. Contract!Create(t)
            BY <1>1, <1>2, <2>1, <3>1, <3>2 DEF Contract!Create
        <3> QED
            BY <3>3 DEF Contract!Next
    <2> QED
        BY <2>2, <2>3
<1> QED
    BY <1>5, <1>6, <1>7

(* What admins do, the contract allows of anyone. *)
LEMMA AdminMaps ==
    ASSUME CInv, Admin
    PROVE  Contract!Outside
<1>1. PICK u \in Ids : \/ \E r \in WorkspaceRoles : AdminSetRole(u, r)
                      \/ AdminRemove(u)
                      \/ AdminInviteBack(u)
    BY DEF Admin
<1>2. /\ UNCHANGED <<op, subject, target>> /\ adminMoves' = adminMoves + 1 /\ Observe
      /\ UNCHANGED <<Phase, ReportTag>>
    BY AllStay, ViewStays DEF Admin, request
<1>3. Unused \notin UserRole /\ Absent # Unused /\ RoleMember \in UserRole
    BY DEF UserRole, supportedRoles, Unused, Absent, NoRole, OtherRole, RoleOwner,
           RoleMembershipAdmin, RoleMember, RoleRestrictedMember
<1>4. role[u] # Unused /\ \E r \in UserRole \cup {Absent} : role' = [role EXCEPT ![u] = r]
    <2>1. CASE \E r \in WorkspaceRoles : AdminSetRole(u, r)
        BY <1>3, <2>1, RolesAssumption DEF AdminSetRole, Present, setRole
    <2>2. CASE AdminRemove(u)
        BY <1>3, <2>2 DEF AdminRemove, handleDeleteUser, Present, setRole
    <2>3. CASE AdminInviteBack(u)
        BY <1>3, <2>3 DEF AdminInviteBack, setRole
    <2> QED
        BY <1>1, <2>1, <2>2, <2>3
<1>5. Contract!Observe
    BY <1>2, ObserveMaps
<1> QED
    BY <1>2, <1>4, <1>5 DEF Contract!Outside

(* Every step maps to a step of the contract or to none. *)
LEMMA StepMaps ==
    ASSUME CacheBackend = "noop", CInv, CInv', [Next]_vars
    PROVE  [Contract!Next]_(Contract!vars)
<1>0. TypeOK'
    BY DEF CInv, IInv
<1>1. ASSUME NEW t \in Tasks, Start(t) PROVE [Contract!Next]_(Contract!vars)
    <2>1. Contract!Open(t)
        BY <1>0, <1>1, StartMaps
    <2> QED
        BY <2>1 DEF Contract!Next
<1>2. ASSUME NEW t \in Tasks, Run(t) PROVE [Contract!Next]_(Contract!vars)
    <2>1. CASE CacheHit(t) \/ CacheMiss(t) \/ ServeGet(t) \/ GetFault(t) \/ WriteFault(t)
        BY <1>0, <1>2, <2>1, LookupMaps
    <2>2. CASE GrantDecide(t) \/ RevokeDecide(t) \/ DeleteVerify(t)
        BY <1>0, <1>2, <2>2, DecideMaps
    <2>3. CASE ServePatch(t) \/ ServeDelete(t) \/ ServeCreate(t)
        BY <1>0, <1>2, <2>3, WriteMaps
    <2>4. CASE GrantFinish(t) \/ RevokeFinish(t) \/ DeleteCheck(t) \/ CreateAccountFinish(t)
        BY <1>0, <1>2, <2>4, FinishMaps
    <2> QED
        BY <1>2, <2>1, <2>2, <2>3, <2>4 DEF Run
<1>3. CASE (\E u \in Ids : CacheExpire(u)) \/ ClearCaches
    <2>1. /\ UNCHANGED <<role, op, subject, target, adminMoves>> /\ Observe
          /\ UNCHANGED <<Phase, ReportTag>>
        BY <1>3, AllStay, ViewStays DEF CacheExpire, ClearCaches, store, request
    <2> QED
        BY <2>1, Stutters
<1>4. CASE Admin
    BY <1>4, AdminMaps DEF Contract!Next
<1>5. CASE UNCHANGED vars
    BY <1>5 DEF vars, store, request, Contract!vars, Phase, ReportTag
<1> QED
    BY <1>1, <1>2, <1>3, <1>4, <1>5 DEF Next

(* An initial state is one of the contract. *)
LEMMA InitMaps == Init => Contract!Init
<1> SUFFICES ASSUME Init PROVE Contract!Init
    OBVIOUS
<1>1. role \in [Ids -> UserRole \cup {Unused}]
    BY RolesAssumption DEF Init
<1>2. Phase = [t \in Tasks |-> "idle"] /\ ReportTag = [t \in Tasks |-> "none"]
    BY DEF Init, Phase, ReportTag
<1>3. target \in [Tasks -> UserRole]
    BY DEF Init, UserRole
<1> QED
    BY <1>1, <1>2, <1>3 DEF Init, Contract!Init

(* Without a cache, the tasks implement the contract C1 relies on: for any *)
(* number of users, tasks, faults and outside changes, a role is changed   *)
(* only by an open task for it, in the way the operation is for and on     *)
(* evidence gathered during the call, and every report was true at some    *)
(* moment of the call.                                                     *)
THEOREM UncachedMeetsContract ==
    ASSUME CacheBackend = "noop" PROVE Spec => MeetsContract
<1>1. Init => Contract!Init
    BY InitMaps
<1>2. CInv /\ CInv' /\ [Next]_vars => [Contract!Next]_(Contract!vars)
    BY StepMaps
<1> QED
    BY <1>1, <1>2, OpenTasksInvariance, PTL DEF Spec, MeetsContract, Contract!Spec
=============================================================================
