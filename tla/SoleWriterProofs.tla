-------------------------- MODULE SoleWriterProofs --------------------------
(***************************************************************************)
(* What Grant and Revoke do to a user whom nobody else writes to: the role *)
(* their PATCH replaces is the one they fetched, from the server or from   *)
(* the cache.                                                              *)
(***************************************************************************)
EXTENDS FaultFreeProofs

-----------------------------------------------------------------------------
(***************************************************************************)
(* The invariant: until the first PATCH to a user, everything that is      *)
(* known of the user - in the cache, in an answer, in a decision - is the  *)
(* role the user has, unless the user is gone.                             *)
(***************************************************************************)

Patched(u) == \E s \in Tasks : subject[s] = u /\ overwrote[s] # {}

(* r is what u has. *)
Current(u, r) == role[u] \in {r, Absent}

CacheCurrent == \A u \in Ids : Patched(u) \/ cache[u] = Miss \/ Current(u, cache[u])

GotCurrent(t) == pc[t] = "got" /\ reply[t].code = "OK" => Current(subject[t], reply[t].role)

SeenCurrent(t) ==
    pc[t] = "write" /\ op[t] \in {"Grant", "Revoke"} =>
        /\ Current(subject[t], seen[t])
        /\ op[t] = "Revoke" => seen[t] = target[t]

(* The PATCH that was answered replaced the role that was fetched.         *)
WroteSeen(t) ==
    pc[t] = "wrote" /\ op[t] = "Grant" /\ reply[t].code = "OK" => overwrote[t] = {seen[t]}

Exact(t) == OthersWrote(t) \/ (GotCurrent(t) /\ SeenCurrent(t) /\ WroteSeen(t) /\ ExactWrite(t))

Alone == faults = 0 /\ adminMoves = 0

SInv == FInv /\ (Alone => CacheCurrent /\ \A t \in Tasks : Exact(t))

-----------------------------------------------------------------------------
(* Whoever wrote has written. *)
LEMMA WritersStay ==
    ASSUME CInv, Next, NEW s \in Tasks, Smooth(s), overwrote[s] # {}
    PROVE  subject'[s] = subject[s] /\ overwrote'[s] # {}
<1>0. TypeOK /\ pc[s] \in {"wrote", "done"}
    BY DEF CInv, IInv, Smooth, Clean
<1>1. ASSUME NEW t \in Tasks, Start(t) \/ Run(t), t # s PROVE SameTask(s)
    BY <1>0, <1>1, OthersStay
<1>2. ~Start(s)
    BY <1>0 DEF Start, GrantStart, RevokeStart, DeleteStart, CreateAccountStart, Begin
<1>3. ~(ServePatch(s) \/ ServeDelete(s) \/ ServeCreate(s))
    BY <1>0 DEF ServePatch, ServeDelete, ServeCreate
<1>4. CASE Run(s)
    BY <1>3, <1>4, QuietSteps
<1>5. CASE (\E u \in Ids : CacheExpire(u)) \/ ClearCaches \/ Admin
    BY <1>5, AllStay DEF SameTask
<1> QED
    BY <1>1, <1>2, <1>4, <1>5 DEF Next, SameTask

(* ... so a user stays patched, and a task's other writers remain.         *)
LEMMA PatchedStays ==
    ASSUME CInv, Next, \A s \in Tasks : Smooth(s)
    PROVE  /\ \A u \in Ids : Patched(u) => Patched(u)'
           /\ \A t \in Tasks : OthersWrote(t) /\ subject'[t] = subject[t] => OthersWrote(t)'
<1>1. \A s \in Tasks : overwrote[s] # {} => subject'[s] = subject[s] /\ overwrote'[s] # {}
    BY WritersStay
<1> QED
    BY <1>1 DEF Patched, OthersWrote

(* A user who is not patched in this step keeps the role or is removed.    *)
LEMMA RoleStays ==
    ASSUME CInv, Next, ~Admin, NEW u \in Ids, role[u] # Unused
    PROVE  \/ role'[u] \in {role[u], Absent}
           \/ \E t \in Tasks : ServePatch(t) /\ Present(u) /\ subject[t] = u
<1>0. TypeOK
    BY DEF CInv, IInv
<1>1. ASSUME NEW t \in Tasks, Start(t) PROVE role' = role
    BY <1>1 DEF Start, GrantStart, RevokeStart, DeleteStart, CreateAccountStart, Begin, store
<1>2. ASSUME NEW t \in Tasks, ServePatch(t), ~(Present(u) /\ subject[t] = u) PROVE role'[u] = role[u]
    BY <1>0, <1>2
    DEF ServePatch, handlePatchUser, PatchReply, Failed, setRole, TypeOK, StoreTypeOK
<1>3. ASSUME NEW t \in Tasks, ServeDelete(t) PROVE role'[u] \in {role[u], Absent}
    BY <1>0, <1>3 DEF ServeDelete, handleDeleteUser, setRole, TypeOK, StoreTypeOK
<1>4. ASSUME NEW t \in Tasks, ServeCreate(t) PROVE role'[u] = role[u]
    <2>1. PICK id \in Ids : role[id] = Unused /\ handleCreateUser(id, email[t])
        BY <1>4 DEF ServeCreate
    <2> QED
        BY <1>0, <2>1 DEF handleCreateUser, setRole, TypeOK, StoreTypeOK
<1>5. ASSUME NEW t \in Tasks, Run(t), ~(ServePatch(t) \/ ServeDelete(t) \/ ServeCreate(t))
      PROVE  role' = role
    BY <1>5, QuietSteps
<1>6. CASE (\E v \in Ids : CacheExpire(v)) \/ ClearCaches
    BY <1>6 DEF CacheExpire, ClearCaches, store
<1> QED
    BY <1>1, <1>2, <1>3, <1>4, <1>5, <1>6 DEF Next

(* A PATCH to a present user leaves its mark. *)
LEMMA PatchMarks ==
    ASSUME TypeOK, NEW t \in Tasks, ServePatch(t), subject[t] \in Ids, Present(subject[t])
    PROVE  /\ overwrote'[t] = overwrote[t] \cup {role[subject[t]]}
           /\ subject' = subject /\ Patched(subject[t])'
BY DEF ServePatch, Patched, request, TypeOK

(* What is current stays so until the user is patched. *)
LEMMA StaysCurrent ==
    ASSUME CInv, Next, ~Admin, NEW u \in Ids, role[u] # Unused, ~Patched(u)'
    PROVE  \A r : Current(u, r) => role'[u] \in {r, Absent}
<1>1. TypeOK
    BY DEF CInv, IInv
<1>2. ~\E t \in Tasks : ServePatch(t) /\ Present(u) /\ subject[t] = u
    BY <1>1, PatchMarks
<1>3. role[u] = Absent => role'[u] = Absent
    BY AbsentStays
<1> QED
    BY <1>2, <1>3, RoleStays DEF Current

-----------------------------------------------------------------------------
(* A task that does not move. *)
LEMMA OtherExact ==
    ASSUME CInv, Next, ~Admin, \A s \in Tasks : Smooth(s), NEW o \in Tasks, Exact(o), SameTask(o)
    PROVE  Exact(o)'
<1> SUFFICES ASSUME ~OthersWrote(o)' PROVE GotCurrent(o)' /\ SeenCurrent(o)' /\ WroteSeen(o)' /\ ExactWrite(o)'
    BY DEF Exact
<1>1. ~OthersWrote(o) /\ GotCurrent(o) /\ SeenCurrent(o) /\ WroteSeen(o) /\ ExactWrite(o)
    BY PatchedStays DEF SameTask, Exact
<1>2. WroteSeen(o)' /\ ExactWrite(o)'
    BY <1>1 DEF WroteSeen, ExactWrite, Done, SameTask
<1>3. ASSUME pc[o] = "got" \/ (pc[o] = "write" /\ op[o] \in {"Grant", "Revoke"})
      PROVE  \A r : Current(subject[o], r) => role'[subject[o]] \in {r, Absent}
    <2>1. overwrote[o] = {} /\ subject[o] \in Ids /\ role[subject[o]] # Unused
        BY <1>3 DEF Smooth, Clean, CInv, IInv, TaskInv, AboutUser, Busy
    <2>2. PICK u \in Ids : u = subject[o]
        BY <2>1
    <2>3. ~Patched(u)'
        BY <2>1, <2>2 DEF SameTask, Patched, OthersWrote
    <2> QED
        BY <2>1, <2>2, <2>3, StaysCurrent
<1>4. GotCurrent(o)' /\ SeenCurrent(o)'
    <2>1. /\ pc'[o] = pc[o] /\ op'[o] = op[o] /\ subject'[o] = subject[o] /\ target'[o] = target[o]
          /\ seen'[o] = seen[o] /\ reply'[o] = reply[o]
        BY DEF SameTask
    <2> QED
        BY <1>1, <1>3, <2>1 DEF GotCurrent, SeenCurrent, Current
<1> QED
    BY <1>2, <1>4
(* A request that arrives: nothing is known yet. *)
LEMMA StartExact ==
    ASSUME CInv, NEW t \in Tasks, Start(t)
    PROVE  Exact(t)'
<1>1. pc'[t] \in {"lookup", "write", "done"} /\ overwrote'[t] = {}
    BY DEF Start, GrantStart, RevokeStart, DeleteStart, CreateAccountStart, Begin, Goto, Report, CInv,
           IInv, TypeOK, TaskInv, Idle
<1>2. pc'[t] = "write" => op'[t] \in {"Delete", "CreateAccount"}
    BY DEF Start, GrantStart, RevokeStart, DeleteStart, CreateAccountStart, Begin, Goto, Report, CInv,
           IInv, TypeOK
<1>3. pc'[t] = "done" => result'[t].tag = "error"
    BY DEF Start, GrantStart, RevokeStart, DeleteStart, CreateAccountStart, Begin, Goto, Report, CInv,
           IInv, TypeOK
<1> QED
    BY <1>1, <1>2, <1>3 DEF Exact, GotCurrent, SeenCurrent, WroteSeen, ExactWrite, Done

(* The GET: what the server answers is current, and so is what the cache   *)
(* answers, as long as nobody wrote.                                       *)
LEMMA LookupExact ==
    ASSUME CInv, NEW t \in Tasks, Smooth(t), CacheCurrent, Exact(t), faults = 0, faults' = 0,
           CacheHit(t) \/ CacheMiss(t) \/ ServeGet(t) \/ GetFault(t)
    PROVE  Exact(t)'
<1>0. TypeOK
    BY DEF CInv, IInv
<1>1. /\ UNCHANGED <<role, op, subject, target, overwrote>>
      /\ pc[t] \in {"lookup", "get"} /\ pc'[t] \in {"get", "got"}
    BY <1>0 DEF CacheHit, CacheMiss, ServeGet, GetFault, Goto, TypeOK, store, request
<1>2. overwrote[t] = {} /\ subject[t] \in Ids
    BY <1>1 DEF Smooth, Clean, CInv, IInv, TaskInv, AboutUser, Busy
<1> SUFFICES ASSUME ~OthersWrote(t)' PROVE GotCurrent(t)'
    BY <1>1, <1>2 DEF Exact, SeenCurrent, WroteSeen, ExactWrite, Done
<1>3. ~Patched(subject[t])
    BY <1>1, <1>2 DEF Patched, OthersWrote
<1>4. CASE CacheHit(t)
    <2>1. Current(subject[t], cache[subject[t]])
        BY <1>2, <1>3, <1>4 DEF CacheCurrent, CacheHit
    <2>2. reply'[t] = CachedReply(subject[t])
        BY <1>0, <1>4 DEF CacheHit, TypeOK
    <2> QED
        BY <1>1, <2>1, <2>2 DEF GotCurrent, Current, CachedReply, Failed, Undecodable
<1>5. CASE CacheMiss(t)
    BY <1>0, <1>5 DEF CacheMiss, Goto, GotCurrent, TypeOK
<1>6. CASE ServeGet(t)
    <2>1. reply'[t] = handleGetUser(subject[t])
        BY <1>0, <1>6 DEF ServeGet, TypeOK
    <2> QED
        BY <1>1, <2>1 DEF GotCurrent, Current, handleGetUser, Failed
<1>7. CASE GetFault(t)
    BY <1>7 DEF GetFault
<1> QED
    BY <1>4, <1>5, <1>6, <1>7

(* The decision: what was fetched is what the write rests on.              *)
LEMMA DecideExact ==
    ASSUME CInv, NEW t \in Tasks, Smooth(t), Exact(t),
           GrantDecide(t) \/ RevokeDecide(t) \/ DeleteVerify(t)
    PROVE  Exact(t)'
<1>0. TypeOK
    BY DEF CInv, IInv
<1>1. UNCHANGED <<role, op, subject, target, overwrote>> /\ pc[t] = "got"
    BY DEF GrantDecide, RevokeDecide, DeleteVerify, store, request
<1>2. overwrote[t] = {} /\ reply[t].code \in {"OK", "NotFound"}
    BY <1>1 DEF Smooth, Clean, Exchanged
<1> SUFFICES ASSUME ~OthersWrote(t)'
             PROVE  GotCurrent(t)' /\ SeenCurrent(t)' /\ WroteSeen(t)' /\ ExactWrite(t)'
    BY DEF Exact
<1>3. GotCurrent(t)
    BY <1>1 DEF Exact, OthersWrote
<1>4. \/ pc'[t] = "done" /\ ~(op[t] = "Grant" /\ result'[t].tag = "ok")
      \/ /\ pc'[t] = "write" /\ reply[t].code = "OK" /\ seen'[t] = reply[t].role
         /\ op[t] = "Revoke" => reply[t].role = target[t]
    <2>1. CASE GrantDecide(t)
        BY <1>0, <1>2, <2>1 DEF GrantDecide, RetryOrFail, Report, Goto, TypeOK
    <2>2. CASE RevokeDecide(t)
        BY <1>0, <1>2, <2>2 DEF RevokeDecide, IsNotFoundError, Report, Goto, TypeOK
    <2>3. CASE DeleteVerify(t)
        BY <1>0, <2>3 DEF DeleteVerify, Report, Goto, TypeOK
    <2> QED
        BY <2>1, <2>2, <2>3
<1> QED
    BY <1>1, <1>2, <1>3, <1>4 DEF GotCurrent, SeenCurrent, WroteSeen, ExactWrite, Current, Done

(* The PATCH replaces what was seen, or nothing. *)
LEMMA WriteExact ==
    ASSUME CInv, NEW t \in Tasks, Smooth(t), Exact(t), faults = 0, faults' = 0,
           ServePatch(t) \/ ServeDelete(t) \/ ServeCreate(t) \/ WriteFault(t)
    PROVE  Exact(t)'
<1>0. TypeOK /\ AboutUser(t)
    BY DEF CInv, IInv, TaskInv
<1>1. /\ UNCHANGED <<op, target, seen>> /\ pc[t] = "write" /\ pc'[t] = "wrote"
      /\ overwrote[t] = {}
    BY <1>0 DEF ServePatch, ServeDelete, ServeCreate, WriteFault, request, Goto, TypeOK, Smooth, Clean
<1>2. CASE ServePatch(t)
    <2> SUFFICES ASSUME ~OthersWrote(t)' PROVE WroteSeen(t)' /\ ExactWrite(t)'
        BY <1>1 DEF Exact, GotCurrent, SeenCurrent
    <2>1. op[t] \in {"Grant", "Revoke"} /\ subject' = subject /\ subject[t] \in Ids
        BY <1>0, <1>2 DEF ServePatch, request, AboutUser, Busy
    <2>2. \A s \in Tasks \ {t} : overwrote'[s] = overwrote[s]
        BY <1>0, <1>2 DEF ServePatch, TypeOK
    <2>3. Current(subject[t], seen[t]) /\ (op[t] = "Revoke" => seen[t] = target[t])
        BY <1>1, <2>1, <2>2 DEF Exact, OthersWrote, SeenCurrent
    <2>4. CASE Present(subject[t])
        <3>1. role[subject[t]] = seen[t]
            BY <2>3, <2>4
            DEF Current, Present, UserRole, supportedRoles, Absent, NoRole, OtherRole, RoleOwner,
                RoleMembershipAdmin, RoleMember, RoleRestrictedMember
        <3>2. overwrote'[t] = {seen[t]}
            BY <1>0, <1>1, <1>2, <2>1, <2>4, <3>1, PatchMarks
        <3> QED
            BY <1>1, <2>3, <3>2 DEF WroteSeen, ExactWrite, Done
    <2>5. CASE ~Present(subject[t])
        <3>1. overwrote'[t] = {}
            BY <1>1, <1>2, <2>5 DEF ServePatch
        <3>2. reply'[t].code = "NotFound"
            BY <1>0, <1>2, <2>5 DEF ServePatch, Deliver, PatchReply, Failed, TypeOK
        <3> QED
            BY <1>1, <3>1, <3>2 DEF WroteSeen, ExactWrite, Done
    <2> QED
        BY <2>4, <2>5
<1>3. CASE ServeDelete(t) \/ ServeCreate(t)
    <2>1. op[t] \in {"Delete", "CreateAccount"}
        BY <1>3 DEF ServeDelete, ServeCreate
    <2> QED
        BY <1>1, <2>1 DEF Exact, GotCurrent, SeenCurrent, WroteSeen, ExactWrite, Done
<1>4. CASE WriteFault(t)
    BY <1>4 DEF WriteFault
<1> QED
    BY <1>2, <1>3, <1>4

(* The report names what was seen. *)
LEMMA FinishExact ==
    ASSUME CInv, NEW t \in Tasks, Smooth(t), Exact(t),
           GrantFinish(t) \/ RevokeFinish(t) \/ DeleteCheck(t) \/ CreateAccountFinish(t)
    PROVE  Exact(t)'
<1>0. TypeOK /\ Decided(t)
    BY DEF CInv, IInv, TaskInv
<1>1. UNCHANGED <<op, target, subject, overwrote>> /\ pc[t] = "wrote"
    BY DEF GrantFinish, RevokeFinish, DeleteCheck, CreateAccountFinish, request
<1> SUFFICES ASSUME ~OthersWrote(t)'
             PROVE  GotCurrent(t)' /\ SeenCurrent(t)' /\ WroteSeen(t)' /\ ExactWrite(t)'
    BY DEF Exact
<1>2. WroteSeen(t) /\ ExactWrite(t)
    BY <1>1 DEF Exact, OthersWrote
<1>3. pc'[t] \in {"done", "lookup"}
    BY <1>0
    DEF GrantFinish, RevokeFinish, DeleteCheck, CreateAccountFinish, RetryOrFail, Report, Goto, TypeOK
<1>4. ExactWrite(t)'
    <2>1. CASE GrantFinish(t) /\ reply[t].code = "OK"
        <3>1. /\ pc'[t] = "done" /\ op[t] = "Grant"
              /\ result'[t] = [tag |-> "ok", replaced |-> Replaced(t)]
            BY <1>0, <2>1 DEF GrantFinish, Report, Goto, TypeOK
        <3>2. overwrote[t] = {seen[t]} /\ seen[t] \in UserRole \ {target[t]}
            BY <1>0, <1>1, <1>2, <2>1, <3>1 DEF WroteSeen, Decided, TypeOK
        <3> QED
            BY <1>1, <3>1, <3>2 DEF ExactWrite, Replaced, Done
    <2>2. CASE GrantFinish(t) /\ reply[t].code # "OK"
        <3>1. op[t] = "Grant" /\ ~(pc'[t] = "done" /\ result'[t].tag = "ok")
            BY <1>0, <2>2 DEF GrantFinish, RetryOrFail, Report, Goto, TypeOK
        <3> QED
            BY <1>1, <3>1 DEF ExactWrite, Done
    <2>3. CASE ~GrantFinish(t)
        <3>1. op[t] # "Grant"
            BY <2>3 DEF RevokeFinish, DeleteCheck, CreateAccountFinish
        <3> QED
            BY <1>1, <1>2, <3>1 DEF ExactWrite, Done
    <2> QED
        BY <2>1, <2>2, <2>3
<1> QED
    BY <1>3, <1>4 DEF GotCurrent, SeenCurrent, WroteSeen

-----------------------------------------------------------------------------
(* The cache: an answer that is stored is current too. *)
LEMMA CacheStaysCurrent ==
    ASSUME CInv, Next, ~Admin, Readable, \A s \in Tasks : Smooth(s) /\ Exact(s), CacheCurrent
    PROVE  CacheCurrent'
<1>0. TypeOK
    BY DEF CInv, IInv
<1> SUFFICES ASSUME NEW u \in Ids, ~Patched(u)', cache'[u] # Miss
             PROVE  role'[u] \in {cache'[u], Absent}
    BY DEF CacheCurrent, Current
<1>1. ~Patched(u)
    BY PatchedStays
<1>2. ASSUME cache'[u] = cache[u] PROVE role'[u] \in {cache'[u], Absent}
    <2>1. Current(u, cache[u])
        BY <1>1, <1>2 DEF CacheCurrent
    <2>2. cache[u] \in UserRole
        BY <1>0, <1>2 DEF Readable, TypeOK
    <2>3. role[u] # Unused
        BY <2>1, <2>2
        DEF Current, UserRole, supportedRoles, Absent, Unused, NoRole, OtherRole, RoleOwner,
            RoleMembershipAdmin, RoleMember, RoleRestrictedMember
    <2> QED
        BY <1>2, <2>1, <2>3, StaysCurrent
<1>3. ASSUME NEW t \in Tasks, CacheSet(t), pc[t] = "got", cache'[u] # cache[u]
      PROVE  role'[u] \in {cache'[u], Absent}
    <2>1. /\ u = subject[t] /\ Storable(t) /\ cache'[u] = Body(t)
        BY <1>0, <1>3 DEF CacheSet, TypeOK
    <2>2. reply[t].code = "OK" /\ overwrote[t] = {} /\ role[u] # Unused
        BY <1>3, <2>1
        DEF Storable, Undecodable, Smooth, Exchanged, Clean, CInv, IInv, TaskInv, AboutUser
    <2>3. ~OthersWrote(t)
        BY <1>1, <2>1 DEF Patched, OthersWrote
    <2>4. Current(u, cache'[u])
        BY <1>3, <2>1, <2>2, <2>3 DEF Exact, GotCurrent, Body
    <2> QED
        BY <2>2, <2>4, StaysCurrent
<1>4. CASE ClearCaches \/ \E v \in Ids : CacheExpire(v)
    <2>1. cache'[u] = cache[u]
        BY <1>0, <1>4 DEF ClearCaches, CacheExpire, TypeOK
    <2> QED
        BY <1>2, <2>1
<1> QED
    BY <1>2, <1>3, <1>4
    DEF Next, Start, GrantStart, RevokeStart, DeleteStart, CreateAccountStart, Begin, Run, CacheHit,
        CacheMiss, ServeGet, GetFault, GrantDecide, RevokeDecide, DeleteVerify, ServePatch, ServeDelete,
        ServeCreate, WriteFault, GrantFinish, RevokeFinish, DeleteCheck, CreateAccountFinish

(* Every step keeps the invariant. *)
LEMMA NextSInv == SInv /\ [Next]_vars => SInv'
<1> SUFFICES ASSUME SInv, [Next]_vars PROVE SInv'
    OBVIOUS
<1>1. FInv' /\ FInv /\ CInv /\ TypeOK
    BY NextFInv DEF SInv, FInv, CInv, IInv
<1> SUFFICES ASSUME Alone' PROVE CacheCurrent' /\ \A o \in Tasks : Exact(o)'
    BY <1>1 DEF SInv
<1>2. CASE UNCHANGED vars
    <2>1. CacheCurrent /\ \A o \in Tasks : Exact(o)
        BY <1>2 DEF SInv, Alone, vars
    <2> QED
        BY <1>2, <2>1
        DEF vars, request, store, CacheCurrent, Patched, Current, Exact, OthersWrote, GotCurrent,
            SeenCurrent, WroteSeen, ExactWrite, Done
<1>3. CASE Next
    <2>1. faults' = 0 /\ faults = 0 /\ adminMoves = 0 /\ ~Admin
        BY <1>1, <1>3, FaultsGrow, AdminMovesGrow DEF Alone
    <2>2. CacheCurrent /\ Readable /\ \A o \in Tasks : Exact(o) /\ Smooth(o)
        BY <1>1, <2>1 DEF SInv, FInv, Alone
    <2>3. CacheCurrent'
        BY <1>1, <1>3, <2>1, <2>2, CacheStaysCurrent
    <2>4. ASSUME NEW t \in Tasks, Start(t) \/ Run(t) PROVE \A o \in Tasks : Exact(o)'
        <3>1. Exact(t)'
            BY <1>1, <2>1, <2>2, <2>4, StartExact, LookupExact, DecideExact, WriteExact, FinishExact
            DEF Run
        <3>2. \A o \in Tasks \ {t} : SameTask(o)
            BY <1>1, <2>4, OthersStay
        <3> QED
            BY <1>1, <1>3, <2>1, <2>2, <3>1, <3>2, OtherExact
    <2>5. ASSUME (\E u \in Ids : CacheExpire(u)) \/ ClearCaches PROVE \A o \in Tasks : Exact(o)'
        BY <1>1, <1>3, <2>1, <2>2, <2>5, AllStay, OtherExact
    <2> QED
        BY <1>3, <2>1, <2>3, <2>4, <2>5 DEF Next
<1> QED
    BY <1>2, <1>3

(* With either cache backend and any number of tasks: as long as no        *)
(* exchange has failed and no admin has interfered, a Grant that succeeds  *)
(* on a user nobody else wrote to has replaced exactly one role, the one   *)
(* GrantReplaced names if C1 knows it, and a Revoke has taken away no role *)
(* but the one it was asked to.                                            *)
THEOREM SoleWritersAreExact == Spec => []SoleWriterExact
<1>1. Init => SInv
    <2> SUFFICES ASSUME Init PROVE CacheCurrent /\ \A t \in Tasks : Exact(t)
        BY InitFInv DEF SInv
    <2>1. CacheCurrent
        BY DEF Init, CacheCurrent
    <2>2. \A t \in Tasks : pc[t] = "idle" /\ overwrote[t] = {}
        BY DEF Init
    <2> QED
        BY <2>1, <2>2 DEF Exact, GotCurrent, SeenCurrent, WroteSeen, ExactWrite, Done
<1>2. SInv => SoleWriterExact
    BY DEF SInv, Alone, Exact, SoleWriterExact
<1> QED
    BY <1>1, <1>2, NextSInv, PTL DEF Spec
=============================================================================
