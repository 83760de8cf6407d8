---------------------------- MODULE TaskContract ----------------------------
(***************************************************************************)
(* What C1 may rely on when it hands the connector provisioning tasks,     *)
(* with no word on HTTP, caching, retries or the order of exchanges.       *)
(*                                                                         *)
(* A task is opened, may change its one user's role in the one way its     *)
(* operation is for, and is closed with a report that was true at some     *)
(* moment while the task was open.  Admins change anything at any time.    *)
(***************************************************************************)
EXTENDS Naturals

CONSTANTS Ids, Tasks, NonUser, Supported, AnyRole, Floor, New, Absent, Unused

VARIABLES role, phase, op, subject, target, tag, held, moves

vars == <<role, phase, op, subject, target, tag, held, moves>>

Init ==
    /\ role \in [Ids -> AnyRole \cup {Unused}]
    /\ phase = [t \in Tasks |-> "idle"]
    /\ op = [t \in Tasks |-> "none"]
    /\ subject = [t \in Tasks |-> NonUser]
    /\ target \in [Tasks -> AnyRole]
    /\ tag = [t \in Tasks |-> "none"]
    /\ held = [t \in Tasks |-> {}]
    /\ moves = 0

(* held[t]: the roles of t's user since t was opened. *)
Observe ==
    held' = [t \in Tasks |-> IF phase[t] = "done" \/ subject'[t] \notin Ids
                             THEN held[t]
                             ELSE held[t] \cup {role'[subject'[t]]}]

(* A request arrives; a malformed one is refused at once. *)
Open(t) ==
    /\ phase[t] = "idle"
    /\ \E o \in {"Grant", "Revoke", "Delete", "CreateAccount"},
          u \in Ids \cup {NonUser}, r \in AnyRole :
          /\ op' = [op EXCEPT ![t] = o]
          /\ subject' = [subject EXCEPT ![t] = u]
          /\ target' = [target EXCEPT ![t] = r]
          /\ \/ phase' = [phase EXCEPT ![t] = "open"] /\ tag' = tag
             \/ phase' = [phase EXCEPT ![t] = "done"] /\ tag' = [tag EXCEPT ![t] = "error"]
    /\ UNCHANGED <<role, moves>>
    /\ Observe

(* The one change a task may make: a Grant gives its supported role to a   *)
(* user who was seen without it; a Revoke downgrades a user who was seen   *)
(* with its role, never from the floor; a Delete removes its user.         *)
Change(t) ==
    /\ phase[t] = "open"
    /\ subject[t] \in Ids /\ role[subject[t]] \in AnyRole
    /\ \/ /\ op[t] = "Grant" /\ target[t] \in Supported
          /\ held[t] \ {target[t]} # {}
          /\ role' = [role EXCEPT ![subject[t]] = target[t]]
       \/ /\ op[t] = "Revoke" /\ target[t] \in Supported \ {Floor}
          /\ target[t] \in held[t]
          /\ role' = [role EXCEPT ![subject[t]] = Floor]
       \/ /\ op[t] = "Delete"
          /\ role' = [role EXCEPT ![subject[t]] = Absent]
    /\ UNCHANGED <<phase, op, subject, target, tag, moves>>
    /\ Observe

(* CreateAccount's change: a new id appears, once per task. *)
Create(t) ==
    /\ phase[t] = "open" /\ op[t] = "CreateAccount" /\ subject[t] = NonUser
    /\ \E u \in Ids :
          /\ role[u] = Unused
          /\ role' = [role EXCEPT ![u] = New]
          /\ subject' = [subject EXCEPT ![t] = u]
    /\ UNCHANGED <<phase, op, target, tag, moves>>
    /\ Observe

(* Reports that may be made of an open task. *)
Truthful(t, report) ==
    \/ report \in {"error", "stillExists"}
    \/ /\ report = "ok"
       /\ \/ op[t] = "Grant" /\ target[t] \in held[t]
          \/ op[t] = "Revoke" /\ Floor \in held[t]
          \/ op[t] = "Delete" /\ Absent \in held[t]
          \/ op[t] = "CreateAccount" /\ New \in held[t]
    \/ report = "GrantAlreadyExists" /\ op[t] = "Grant" /\ target[t] \in held[t]
    \/ report = "GrantAlreadyRevoked" /\ op[t] = "Revoke" /\ held[t] \ {target[t]} # {}

Close(t) ==
    /\ phase[t] = "open"
    /\ \E report \in {"ok", "error", "stillExists", "GrantAlreadyExists", "GrantAlreadyRevoked"} :
          Truthful(t, report) /\ tag' = [tag EXCEPT ![t] = report]
    /\ phase' = [phase EXCEPT ![t] = "done"]
    /\ UNCHANGED <<role, op, subject, target, moves>>
    /\ Observe

(* Anyone else, at any time; ids are handed out by CreateAccount only.     *)
(* moves counts these changes, so that no task's step passes for one.      *)
Outside ==
    /\ moves' = moves + 1
    /\ \E u \in Ids : \E r \in AnyRole \cup {Absent} :
          role[u] # Unused /\ role' = [role EXCEPT ![u] = r]
    /\ UNCHANGED <<phase, op, subject, target, tag>>
    /\ Observe

Next == Outside \/ \E t \in Tasks : Open(t) \/ Change(t) \/ Create(t) \/ Close(t)

Spec == Init /\ [][Next]_vars
=============================================================================
