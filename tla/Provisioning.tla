---------------------------- MODULE Provisioning ----------------------------
(***************************************************************************)
(* Role and account provisioning: the C1 tasks Grant, Revoke, Delete and   *)
(* CreateAccount running concurrently in one connector process, over one   *)
(* NotionClient, and so over one HTTP response cache.                      *)
(*                                                                         *)
(* A handler is cut where other tasks can run: at the cache lookup, when   *)
(* the server handles a request and when the handler goes on with the      *)
(* answer.  builder.Grant and builder.Revoke call the handler again after  *)
(* an Unavailable or DeadlineExceeded error (both "Unavailable" here), at  *)
(* most MaxAttempts times; the other two operations are never repeated.    *)
(***************************************************************************)
EXTENDS Notion, Naturals

CONSTANTS
    Tasks,          \* task ids; each runs one operation
    NonUser,        \* a principal that is not a user (a group), or no user yet
    CacheBackend,   \* "memory" (the default) or "noop"
    MaxAttempts,    \* RetryConfig.MaxAttempts of builder.Grant and builder.Revoke: 3
    AskedRoles,     \* roles that requests name
    WorkspaceRoles, \* roles that users start with or are given by an admin
    MaxFaults,      \* bound: failed HTTP exchanges
    MaxAdmin        \* bound: changes made outside the connector

ASSUME BackendAssumption == CacheBackend \in {"memory", "noop"}
ASSUME RolesAssumption == AskedRoles \subseteq UserRole /\ WorkspaceRoles \subseteq UserRole
(* MaxAttempts = 0 would mean no limit. *)
ASSUME BoundsAssumption == MaxAttempts \in Nat \ {0} /\ MaxFaults \in Nat /\ MaxAdmin \in Nat
ASSUME EmailsAssumption == Emails # {}
ASSUME NonUserAssumption == NonUser \notin Ids

VARIABLES
    cache,      \* cache[u]: role in the cached 200 to GET /Users/u, Undecodable or Miss
    pc,         \* pc[t]: where task t is
    op,         \* op[t]: its operation
    subject,    \* subject[t]: the user it is about (CreateAccount: once created)
    target,     \* target[t]: the role it grants or revokes
    email,      \* email[t]: the userName CreateAccount sends
    seen,       \* seen[t]: current.Role() in Grant and Revoke
    reply,      \* reply[t]: the answer of the last HTTP exchange
    attempts,   \* attempts[t]: Retryer.attempts
    result,     \* result[t]: what the task reported
    faults,     \* failed exchanges so far
    adminMoves, \* changes made outside the connector so far
    held,       \* history: values role[subject[t]] had while t ran
    overwrote,  \* history: roles that t's own PATCH requests replaced
    ever        \* history: values role[u] has had

request == <<op, subject, target, email>>
vars == <<store, cache, pc, request, seen, reply, attempts, result,
          faults, adminMoves, held, overwrote, ever>>

Miss == "miss"
defaultRevokedRole == RoleRestrictedMember
isSupportedRole(r) == r \in supportedRoles

Ops       == {"none", "Grant", "Revoke", "Delete", "CreateAccount"}
Steps     == {"idle", "lookup", "get", "got", "write", "wrote", "done"}
Tags      == {"none", "ok", "GrantAlreadyExists", "GrantAlreadyRevoked", "error", "stillExists"}
Result    == [tag : Tags, replaced : UserRole]
FaultCode == {"Unavailable", "Unknown"}

(* Every variable keeps its shape. *)
TypeOK ==
    /\ StoreTypeOK
    /\ cache \in [Ids -> UserRole \cup {Miss, Undecodable}]
    /\ pc \in [Tasks -> Steps]
    /\ op \in [Tasks -> Ops]
    /\ subject \in [Tasks -> Ids \cup {NonUser}]
    /\ target \in [Tasks -> UserRole]
    /\ email \in [Tasks -> Emails]
    /\ seen \in [Tasks -> UserRole]
    /\ reply \in [Tasks -> Reply]
    /\ attempts \in [Tasks -> 0..MaxAttempts]
    /\ result \in [Tasks -> Result]
    /\ faults \in 0..MaxFaults
    /\ adminMoves \in 0..MaxAdmin
    /\ held \in [Tasks -> SUBSET (UserRole \cup {Absent, Unused})]
    /\ overwrote \in [Tasks -> SUBSET UserRole]
    /\ ever \in [Ids -> SUBSET (UserRole \cup {Absent, Unused})]

AnyEmail == CHOOSE e \in Emails : TRUE  \* before a real one is known

(* A workspace with any roles, in which no two users share a userName and  *)
(* groups list present users; no task has run and nothing is cached.       *)
Init ==
    /\ role \in [Ids -> WorkspaceRoles \cup {Unused}]
    /\ userName \in [Ids -> Emails]
    /\ \A u \in Ids : role[u] = Unused => userName[u] = AnyEmail
    /\ \A u, v \in Ids : Present(u) /\ Present(v) /\ u # v => Fold[userName[u]] # Fold[userName[v]]
    /\ members = [g \in Groups |-> {u \in Ids : Present(u)}]
    /\ cache = [u \in Ids |-> Miss]
    /\ pc = [t \in Tasks |-> "idle"]
    /\ op = [t \in Tasks |-> "none"]
    /\ subject = [t \in Tasks |-> NonUser]
    /\ target = [t \in Tasks |-> NoRole]
    /\ email = [t \in Tasks |-> AnyEmail]
    /\ seen = [t \in Tasks |-> NoRole]
    /\ reply = [t \in Tasks |-> Failed("Unknown")]
    /\ attempts = [t \in Tasks |-> 0]
    /\ result = [t \in Tasks |-> [tag |-> "none", replaced |-> NoRole]]
    /\ faults = 0
    /\ adminMoves = 0
    /\ held = [t \in Tasks |-> {}]
    /\ overwrote = [t \in Tasks |-> {}]
    /\ ever = [u \in Ids |-> {role[u]}]

-----------------------------------------------------------------------------
(* Bookkeeping shared by the actions.                                      *)

(* Every step extends the history of each user, and of each task that has  *)
(* not reported yet.                                                       *)
Observe ==
    /\ ever' = [u \in Ids |-> ever[u] \cup {role'[u]}]
    /\ held' = [t \in Tasks |->
                  IF pc[t] = "done" \/ subject'[t] \notin Ids
                  THEN held[t]
                  ELSE held[t] \cup {role'[subject'[t]]}]

Goto(t, step) == pc' = [pc EXCEPT ![t] = step]

Report(t, tag, replaced) ==
    /\ Goto(t, "done")
    /\ result' = [result EXCEPT ![t] = [tag |-> tag, replaced |-> replaced]]

(* Mutants of the retry loop: one attempt too many; no limit and no look   *)
(* at the error's code; an exhausted loop taken for success.               *)
RetryOnceMore(t) ==
    IF reply[t].code = "Unavailable" /\ attempts[t] <= MaxAttempts
    THEN attempts' = [attempts EXCEPT ![t] = @ + 1] /\ Goto(t, "lookup") /\ UNCHANGED result
    ELSE Report(t, "error", NoRole) /\ UNCHANGED attempts

RetryForever(t) == Goto(t, "lookup") /\ UNCHANGED <<attempts, result>>

RetryOrSucceed(t) ==
    IF reply[t].code = "Unavailable" /\ attempts[t] < MaxAttempts
    THEN attempts' = [attempts EXCEPT ![t] = @ + 1] /\ Goto(t, "lookup") /\ UNCHANGED result
    ELSE Report(t, "ok", NoRole) /\ UNCHANGED attempts

(* The error path of builder.Grant and builder.Revoke: ShouldWaitAndRetry  *)
(* counts the attempt, waits and asks for another call of the handler.     *)
(* Otherwise the task fails: the error is of another kind, the attempts    *)
(* are used up, or the task's context ends during the wait.                *)
RetryOrFail(t) ==
    \/ /\ reply[t].code = "Unavailable" /\ attempts[t] < MaxAttempts
       /\ attempts' = [attempts EXCEPT ![t] = @ + 1]
       /\ Goto(t, "lookup")
       /\ UNCHANGED result
    \/ Report(t, "error", NoRole) /\ UNCHANGED attempts

(* A request arrives: Grant, Revoke and CreateAccount check it before any  *)
(* HTTP exchange.                                                          *)
Begin(t, o, p, r, e, valid, first) ==
    /\ pc[t] = "idle"
    /\ op' = [op EXCEPT ![t] = o]
    /\ subject' = [subject EXCEPT ![t] = p]
    /\ target' = [target EXCEPT ![t] = r]
    /\ email' = [email EXCEPT ![t] = e]
    /\ IF valid THEN Goto(t, first) /\ UNCHANGED result ELSE Report(t, "error", NoRole)
    /\ UNCHANGED <<store, cache, seen, reply, attempts, faults, adminMoves, overwrote>>
    /\ Observe

(* A principal C1 knows: one the server has handed out, or a non-user.     *)
Principals == {u \in Ids : role[u] # Unused} \cup {NonUser}

GrantStart(t) == \E p \in Principals, r \in AskedRoles :
    Begin(t, "Grant", p, r, email[t], p # NonUser /\ isSupportedRole(r), "lookup")

RevokeStart(t) == \E p \in Principals, r \in AskedRoles :
    Begin(t, "Revoke", p, r, email[t], p # NonUser /\ isSupportedRole(r), "lookup")

DeleteStart(t) == \E p \in Principals \ {NonUser} :
    Begin(t, "Delete", p, NoRole, email[t], TRUE, "write")

(* Bound: Ids holds an id for every account that may still be created.     *)
IdLeft == Cardinality({u \in Ids : role[u] = Unused})
            > Cardinality({t \in Tasks : op[t] = "CreateAccount" /\ pc[t] # "done"})

(* createNewUserData refuses a profile without first name, last name or    *)
(* email.                                                                  *)
CreateAccountStart(t) ==
    /\ IdLeft
    /\ \E e \in Emails, complete \in BOOLEAN :
          Begin(t, "CreateAccount", NonUser, NoRole, e, complete, "write")

-----------------------------------------------------------------------------
(* NotionClient.GetUser through BaseHttpClient.Do.                         *)

CachedReply(u) ==
    IF cache[u] = Undecodable THEN Failed(Undecodable) ELSE [code |-> "OK", role |-> cache[u]]

CacheHit(t) ==
    /\ pc[t] = "lookup"
    /\ cache[subject[t]] # Miss
    /\ reply' = [reply EXCEPT ![t] = CachedReply(subject[t])]
    /\ Goto(t, "got")
    /\ UNCHANGED <<store, cache, request, seen, attempts, result, faults, adminMoves, overwrote>>
    /\ Observe

CacheMiss(t) ==
    /\ pc[t] = "lookup"
    /\ cache[subject[t]] = Miss
    /\ Goto(t, "get")
    /\ UNCHANGED <<store, cache, request, seen, reply, attempts, result, faults, adminMoves, overwrote>>
    /\ Observe

ServeGet(t) ==
    /\ pc[t] = "get"
    /\ reply' = [reply EXCEPT ![t] = handleGetUser(subject[t])]
    /\ Goto(t, "got")
    /\ UNCHANGED <<store, cache, request, seen, attempts, result, faults, adminMoves, overwrote>>
    /\ Observe

(* The exchange fails: transport error, 408, 429, 5xx ("Unavailable"),     *)
(* anything else that is not a 404 ("Unknown"), or a 200 with a body that  *)
(* cannot be decoded.                                                      *)
GetFault(t) ==
    /\ pc[t] = "get"
    /\ faults < MaxFaults
    /\ faults' = faults + 1
    /\ \E c \in FaultCode \cup {Undecodable} : reply' = [reply EXCEPT ![t] = Failed(c)]
    /\ Goto(t, "got")
    /\ UNCHANGED <<store, cache, request, seen, attempts, result, adminMoves, overwrote>>
    /\ Observe

(* The body of a 200, if the answer is one. *)
Body(t) == IF reply[t].code = "OK" THEN reply[t].role ELSE Undecodable

Storable(t) == CacheBackend = "memory" /\ reply[t].code \in {"OK", Undecodable}

(* Mutant: a cache key without the user id. *)
CacheSetShared(t) == cache' = IF Storable(t) THEN [u \in Ids |-> Body(t)] ELSE cache

(* Do stores every 200 answer to a GET, one that came from the cache too,  *)
(* and one that cannot be decoded: that error is returned after the store. *)
CacheSet(t) == cache' = IF Storable(t) THEN [cache EXCEPT ![subject[t]] = Body(t)] ELSE cache

GrantDecide(t) ==
    /\ pc[t] = "got" /\ op[t] = "Grant"
    /\ CacheSet(t)
    /\ \/ /\ reply[t].code # "OK"
          /\ RetryOrFail(t)
          /\ UNCHANGED seen
       \/ /\ reply[t].code = "OK" /\ reply[t].role = target[t]
          /\ Report(t, "GrantAlreadyExists", NoRole)
          /\ UNCHANGED <<seen, attempts>>
       \/ /\ reply[t].code = "OK" /\ reply[t].role # target[t]
          /\ seen' = [seen EXCEPT ![t] = reply[t].role]
          /\ Goto(t, "write")
          /\ UNCHANGED <<attempts, result>>
    /\ UNCHANGED <<store, request, reply, faults, adminMoves, overwrote>>
    /\ Observe

(* Mutants: any error; no error; a nil error counted in. *)
IsAnyError(t)         == reply[t].code # "OK"
IsNoError(t)          == t \notin Tasks
IsNotFoundOrNil(t)    == reply[t].code \in {"OK", "NotFound"}

IsNotFoundError(t) == reply[t].code = "NotFound"

RevokeDecide(t) ==
    /\ pc[t] = "got" /\ op[t] = "Revoke"
    /\ CacheSet(t)
    /\ \/ /\ reply[t].code # "OK" /\ ~IsNotFoundError(t)
          /\ RetryOrFail(t)
          /\ UNCHANGED seen
       \/ /\ \/ IsNotFoundError(t)
             \/ reply[t].code = "OK" /\ reply[t].role # target[t]
          /\ Report(t, "GrantAlreadyRevoked", NoRole)
          /\ UNCHANGED <<seen, attempts>>
       \/ /\ reply[t].code = "OK" /\ reply[t].role = target[t]
          /\ target[t] = defaultRevokedRole
          /\ Report(t, "error", NoRole)
          /\ UNCHANGED <<seen, attempts>>
       \/ /\ reply[t].code = "OK" /\ reply[t].role = target[t]
          /\ target[t] # defaultRevokedRole
          /\ seen' = [seen EXCEPT ![t] = reply[t].role]
          /\ Goto(t, "write")
          /\ UNCHANGED <<attempts, result>>
    /\ UNCHANGED <<store, request, reply, faults, adminMoves, overwrote>>
    /\ Observe

(* Mutant: the error's code is not looked at. *)
StillThereAlways(t) == t \in Tasks

(* Delete's second exchange: any answer but a 404 is taken for a user that *)
(* still exists.                                                           *)
StillThere(t) == reply[t].code # "NotFound"

DeleteVerify(t) ==
    /\ pc[t] = "got" /\ op[t] = "Delete"
    /\ CacheSet(t)
    /\ Report(t, IF StillThere(t) THEN "stillExists" ELSE "ok", NoRole)
    /\ UNCHANGED <<store, request, seen, reply, attempts, faults, adminMoves, overwrote>>
    /\ Observe

-----------------------------------------------------------------------------
(* The requests that change the workspace.  The server handles one and its *)
(* answer arrives, or is lost after the change was made.                   *)

Deliver(t, answer) ==
    \/ /\ reply' = [reply EXCEPT ![t] = answer]
       /\ UNCHANGED faults
    \/ /\ faults < MaxFaults
       /\ faults' = faults + 1
       /\ \E c \in FaultCode : reply' = [reply EXCEPT ![t] = Failed(c)]

(* Role in the PATCH of Grant and of Revoke. *)
PatchRole(t) == IF op[t] = "Grant" THEN target[t] ELSE defaultRevokedRole

ServePatch(t) ==
    /\ pc[t] = "write" /\ op[t] \in {"Grant", "Revoke"}
    /\ handlePatchUser(subject[t], PatchRole(t))
    /\ Deliver(t, PatchReply(subject[t], PatchRole(t)))
    /\ overwrote' = IF Present(subject[t])
                    THEN [overwrote EXCEPT ![t] = @ \cup {role[subject[t]]}]
                    ELSE overwrote
    /\ Goto(t, "wrote")
    /\ UNCHANGED <<cache, request, seen, attempts, result, adminMoves>>
    /\ Observe

ServeDelete(t) ==
    /\ pc[t] = "write" /\ op[t] = "Delete"
    /\ handleDeleteUser(subject[t])
    /\ Deliver(t, DeleteReply(subject[t]))
    /\ Goto(t, "wrote")
    /\ UNCHANGED <<cache, request, seen, attempts, result, adminMoves, overwrote>>
    /\ Observe

ServeCreate(t) ==
    /\ pc[t] = "write" /\ op[t] = "CreateAccount"
    /\ \E id \in Ids :
          /\ role[id] = Unused
          /\ handleCreateUser(id, email[t])
          /\ subject' = IF NameTaken(email[t]) THEN subject ELSE [subject EXCEPT ![t] = id]
    /\ Deliver(t, CreateReply(email[t]))
    /\ Goto(t, "wrote")
    /\ UNCHANGED <<cache, op, target, email, seen, attempts, result, adminMoves, overwrote>>
    /\ Observe

(* The request never reaches the handler. *)
WriteFault(t) ==
    /\ pc[t] = "write"
    /\ faults < MaxFaults
    /\ faults' = faults + 1
    /\ \E c \in FaultCode : reply' = [reply EXCEPT ![t] = Failed(c)]
    /\ Goto(t, "wrote")
    /\ UNCHANGED <<store, cache, request, seen, attempts, result, adminMoves, overwrote>>
    /\ Observe

(* Mutant: no role is reported as replaced. *)
ReplacedNothing(t) == NoRole

(* GrantReplaced names the role fetched before the PATCH, if C1 knows it.  *)
Replaced(t) == IF isSupportedRole(seen[t]) THEN seen[t] ELSE NoRole

GrantFinish(t) ==
    /\ pc[t] = "wrote" /\ op[t] = "Grant"
    /\ \/ /\ reply[t].code # "OK"
          /\ RetryOrFail(t)
       \/ /\ reply[t].code = "OK"
          /\ Report(t, "ok", Replaced(t))
          /\ UNCHANGED attempts
    /\ UNCHANGED <<store, cache, request, seen, reply, faults, adminMoves, overwrote>>
    /\ Observe

RevokeFinish(t) ==
    /\ pc[t] = "wrote" /\ op[t] = "Revoke"
    /\ \/ /\ reply[t].code # "OK" /\ ~IsNotFoundError(t)
          /\ RetryOrFail(t)
       \/ /\ IsNotFoundError(t)
          /\ Report(t, "GrantAlreadyRevoked", NoRole)
          /\ UNCHANGED attempts
       \/ /\ reply[t].code = "OK"
          /\ Report(t, "ok", NoRole)
          /\ UNCHANGED attempts
    /\ UNCHANGED <<store, cache, request, seen, reply, faults, adminMoves, overwrote>>
    /\ Observe

DeleteCheck(t) ==
    /\ pc[t] = "wrote" /\ op[t] = "Delete"
    /\ IF reply[t].code = "OK" THEN Goto(t, "lookup") /\ UNCHANGED result
                               ELSE Report(t, "error", NoRole)
    /\ UNCHANGED <<store, cache, request, seen, reply, attempts, faults, adminMoves, overwrote>>
    /\ Observe

CreateAccountFinish(t) ==
    /\ pc[t] = "wrote" /\ op[t] = "CreateAccount"
    /\ Report(t, IF reply[t].code = "OK" THEN "ok" ELSE "error", NoRole)
    /\ UNCHANGED <<store, cache, request, seen, reply, attempts, faults, adminMoves, overwrote>>
    /\ Observe

-----------------------------------------------------------------------------
(* Around the tasks: an entry expires (an hour after it was last stored)   *)
(* or is evicted; a sync that ends clears every cache; an admin changes    *)
(* the workspace.                                                          *)

CacheExpire(u) ==
    /\ cache[u] # Miss
    /\ cache' = [cache EXCEPT ![u] = Miss]
    /\ UNCHANGED <<store, pc, request, seen, reply, attempts, result, faults, adminMoves, overwrote>>
    /\ Observe

ClearCaches ==
    /\ cache' = [u \in Ids |-> Miss]
    /\ UNCHANGED <<store, pc, request, seen, reply, attempts, result, faults, adminMoves, overwrote>>
    /\ Observe

Admin ==
    /\ adminMoves < MaxAdmin
    /\ adminMoves' = adminMoves + 1
    /\ \E u \in Ids :
          \/ \E r \in WorkspaceRoles : AdminSetRole(u, r)
          \/ AdminRemove(u)
          \/ AdminInviteBack(u)
    /\ UNCHANGED <<cache, pc, request, seen, reply, attempts, result, faults, overwrote>>
    /\ Observe

Start(t) == GrantStart(t) \/ RevokeStart(t) \/ DeleteStart(t) \/ CreateAccountStart(t)

Run(t) ==
    \/ CacheHit(t) \/ CacheMiss(t) \/ ServeGet(t) \/ GetFault(t)
    \/ GrantDecide(t) \/ RevokeDecide(t) \/ DeleteVerify(t)
    \/ ServePatch(t) \/ ServeDelete(t) \/ ServeCreate(t) \/ WriteFault(t)
    \/ GrantFinish(t) \/ RevokeFinish(t) \/ DeleteCheck(t) \/ CreateAccountFinish(t)

Next ==
    \/ \E t \in Tasks : Start(t) \/ Run(t)
    \/ \E u \in Ids : CacheExpire(u)
    \/ ClearCaches
    \/ Admin

Spec == Init /\ [][Next]_vars

(* A task that was started is driven by its goroutine until it reports;    *)
(* nothing obliges C1 to send one, or an entry to expire.                  *)
FairSpec == Spec /\ \A t \in Tasks : WF_vars(Run(t))
-----------------------------------------------------------------------------
(***************************************************************************)
(* Properties.                                                             *)
(***************************************************************************)
Done(t, o, tag) == pc[t] = "done" /\ op[t] = o /\ result[t].tag = tag

Applied(t) ==
    /\ Done(t, "Grant", "ok") => target[t] \in held[t]
    /\ Done(t, "Revoke", "ok") =>
         defaultRevokedRole \in held[t] /\ target[t] # defaultRevokedRole
    /\ Done(t, "Delete", "ok") => Absent \in held[t]
    /\ Done(t, "CreateAccount", "ok") =>
         /\ subject[t] \in Ids /\ RoleMember \in held[t]
         /\ userName[subject[t]] = email[t]

(* A task that reports success has done its work: while it ran, the user   *)
(* held the granted role, was downgraded, was gone, or was created with    *)
(* the email asked for.  Neither the cache, nor a lost answer and a retry, *)
(* nor another task can make Grant, Revoke, Delete or CreateAccount claim  *)
(* a change that did not happen (role.go Grant/Revoke, user.go Delete).    *)
SuccessMeansApplied == \A t \in Tasks : Applied(t)

TrueReport(t) ==
    /\ Done(t, "Grant", "GrantAlreadyExists") => target[t] \in held[t]
    /\ Done(t, "Revoke", "GrantAlreadyRevoked") => held[t] \ {target[t]} # {}
    /\ Done(t, "Grant", "ok") /\ result[t].replaced # NoRole =>
         result[t].replaced \in held[t] \ {target[t]}

(* GrantAlreadyExists and GrantAlreadyRevoked are true: the role was held, *)
(* resp. not held, at some moment of the call; and GrantReplaced names a   *)
(* role the user held during the call, other than the granted one          *)
(* (role.go:204-217, 242-252).                                             *)
AlreadyMeansTrue == \A t \in Tasks : TrueReport(t)

(* Without failed exchanges an error has a cause in the request or in the  *)
(* workspace: a bad request or a missing user for Grant, a bad request or  *)
(* the floor role for Revoke, a missing user for Delete.                   *)
NoSpuriousFailure ==
    faults = 0 => \A t \in Tasks :
        LET bad == subject[t] \notin Ids \/ ~isSupportedRole(target[t]) IN
        /\ Done(t, "Grant", "error") => bad \/ Absent \in held[t]
        /\ Done(t, "Revoke", "error") => bad \/ target[t] = defaultRevokedRole
        /\ Done(t, "Delete", "error") => Absent \in held[t]

(* Delete's message "User %s still exists" (user.go:261) is not said of a  *)
(* user who is gone, when no exchange failed and nobody else interfered.   *)
StillExistsTruthful ==
    faults = 0 /\ adminMoves = 0 =>
        \A t \in Tasks : Done(t, "Delete", "stillExists") => Present(subject[t])

(* Without failed exchanges, a Grant or Revoke that does not report        *)
(* success has written nothing ("without issuing a PATCH", role.go:180-182)*)
(* and a CreateAccount that does not has created nobody (user.go:187-190): *)
(* only a lost answer leaves a change that no report tells of.             *)
NoUnreportedWrite ==
    faults = 0 => \A t \in Tasks :
        pc[t] = "done" /\ result[t].tag # "ok" =>
            overwrote[t] = {} /\ (op[t] = "CreateAccount" => subject[t] \notin Ids)

OthersWrote(t) == \E s \in Tasks \ {t} : subject[s] = subject[t] /\ overwrote[s] # {}

ExactWrite(t) ==
    /\ Done(t, "Grant", "ok") =>
         \E r \in UserRole \ {target[t]} :
            /\ overwrote[t] = {r}
            /\ result[t].replaced = IF isSupportedRole(r) THEN r ELSE NoRole
    /\ op[t] = "Revoke" => overwrote[t] \subseteq {target[t]}

(* Between the GET and the PATCH of Grant and of Revoke only somebody      *)
(* else's write can come (role.go:199-217, 242-258): as long as no         *)
(* exchange failed and nobody else wrote to the user, GrantReplaced names  *)
(* exactly the role that the PATCH replaced, and Revoke takes away no role *)
(* but the one it was asked to - also when the role came from the cache,   *)
(* and however many other tasks read or delete the user meanwhile.         *)
SoleWriterExact ==
    faults = 0 /\ adminMoves = 0 => \A t \in Tasks : OthersWrote(t) \/ ExactWrite(t)

(* The server's groups never list a user who has left the workspace        *)
(* (handleDeleteUser filters every group).                                 *)
NoDanglingMembers == \A g \in Groups : \A u \in members[g] : Present(u)

(* However many accounts are created or invited back concurrently, no two  *)
(* present users have the same userName up to case (handleCreateUser).     *)
UniqueUserNames ==
    \A u, v \in Ids : Present(u) /\ Present(v) /\ u # v => Fold[userName[u]] # Fold[userName[v]]

CacheOnceTrue == \A u \in Ids : cache[u] \notin {Miss, Undecodable} => cache[u] \in ever[u]

DecidedOnPast(t) ==
    Done(t, "Grant", "GrantAlreadyExists") \/ (op[t] = "Revoke" /\ overwrote[t] # {}) =>
        subject[t] \in Ids /\ target[t] \in ever[subject[t]]

(* Whatever the backend, a role the cache serves was once that of the same *)
(* user, and Grant and Revoke decide on nothing else: a role they report   *)
(* as held, or take away by a downgrade, is one the user has had           *)
(* (wrapper.go:759-837, role.go:204, 250-258).                             *)
OnceTrue == CacheOnceTrue /\ \A t \in Tasks : DecidedOnPast(t)

(* Every task that starts ends with a report, whatever fails on the way    *)
(* and whoever else writes: the retry loop of builder.Grant and            *)
(* builder.Revoke is bounded.                                              *)
TaskReports == \A t \in Tasks : pc[t] # "idle" ~> pc[t] = "done"

(* Steps a task may still take: at most five for each call of its handler  *)
(* that the retry loop has left, in the order the handler goes through     *)
(* them (Delete writes before it reads).                                   *)
StepOrder(o) ==
    IF o = "Delete"
    THEN [idle |-> 6, write |-> 5, wrote |-> 4, lookup |-> 3, get |-> 2, got |-> 1, done |-> 0]
    ELSE [idle |-> 6, lookup |-> 5, get |-> 4, got |-> 3, write |-> 2, wrote |-> 1, done |-> 0]

StepsLeft(t) == 5 * (MaxAttempts - attempts[t]) + StepOrder(op[t])[pc[t]]

(* Why tasks end: whatever a task does brings it nearer to its report, a   *)
(* repeated call of the handler too, and nothing that other tasks, the     *)
(* cache or an admin do sets it back or changes what it has reported       *)
(* (retry.go:61-81, resource_provisioner.go:95, 141).                      *)
TaskProgress ==
    [][\A t \in Tasks :
         /\ pc'[t] # pc[t] => StepsLeft(t)' < StepsLeft(t)
         /\ pc'[t] = pc[t] => StepsLeft(t)' = StepsLeft(t) /\ result'[t] = result[t]]_vars

-----------------------------------------------------------------------------
(* The contract C1 relies on: Provisioning with its exchanges, cache and   *)
(* retries hidden.                                                         *)
Phase     == [t \in Tasks |-> IF pc[t] \in {"idle", "done"} THEN pc[t] ELSE "open"]
ReportTag == [t \in Tasks |-> result[t].tag]

Contract == INSTANCE TaskContract WITH
    Supported <- supportedRoles,
    AnyRole   <- UserRole,
    Floor     <- defaultRevokedRole,
    New       <- RoleMember,
    phase     <- Phase,
    tag       <- ReportTag,
    moves     <- adminMoves

(* Without a cache the tasks implement the contract: only an open task (or *)
(* an admin) changes a role, only in the way its operation is for and only *)
(* on the evidence of a role the user held while the task was open; and    *)
(* every report was true at some moment of the call.                       *)
MeetsContract == Contract!Spec

-----------------------------------------------------------------------------
(* Statements of the repository's comments and docs that the code does not *)
(* meet; each has a run whose counterexample shows how.                    *)

(* role.go:182-184: "granting a new role atomically replaces the previous  *)
(* one - Grant emits GrantReplaced so C1 marks the old role grant revoked":*)
(* a supported role that a settled Grant replaced is the one it reported.  *)
ReplacedReported ==
    \A t \in Tasks :
        Done(t, "Grant", "ok") \/ Done(t, "Grant", "GrantAlreadyExists") =>
            (overwrote[t] \cap supportedRoles) \ {target[t]} \subseteq {result[t].replaced}

(* README.md:63: "Revoking restricted_member itself is a no-op";           *)
(* docs/docs-info.md:20: it returns GrantAlreadyRevoked without a PATCH.   *)
RevokeFloorSettles ==
    faults = 0 => \A t \in Tasks :
        pc[t] = "done" /\ op[t] = "Revoke" /\ target[t] = defaultRevokedRole /\ subject[t] \in Ids
            => result[t].tag = "GrantAlreadyRevoked"

(* BUGBOT.md:306: "De-provisioning checks if resource exists before        *)
(* attempting delete": a Delete does not fail because the user was gone    *)
(* all along.                                                              *)
ExistsBeforeDelete ==
    faults = 0 => \A t \in Tasks : Done(t, "Delete", "error") => held[t] # {Absent}
=============================================================================
