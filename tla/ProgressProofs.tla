--------------------------- MODULE ProgressProofs ---------------------------
(***************************************************************************)
(* The safety half of the argument that tasks end: StepsLeft is a natural  *)
(* number that every step of a task lowers and no other step touches, for  *)
(* any retry limit and any number of tasks, users, faults and changes.     *)
(***************************************************************************)
EXTENDS ContractProofs

(* One step forward, or another call of the handler at the cost of an      *)
(* attempt.                                                                *)
Forward(t) ==
    /\ op'[t] = op[t]
    /\ \/ /\ attempts'[t] = attempts[t]
          /\ StepOrder(op[t])[pc'[t]] < StepOrder(op[t])[pc[t]]
       \/ /\ attempts'[t] = attempts[t] + 1 /\ op[t] # "Delete"
          /\ pc[t] \in {"got", "wrote"} /\ pc'[t] = "lookup"

(* The variant is a number between 0 and its value before the start. *)
LEMMA OrderIs ==
    ASSUME NEW o
    PROVE  /\ \A s \in Steps : StepOrder(o)[s] \in 0..6
           /\ StepOrder(o).idle = 6 /\ StepOrder(o).done = 0
           /\ \A s \in Steps \ {"idle"} : StepOrder(o)[s] < 6
BY DEF StepOrder, Steps

LEMMA StepsLeftRange ==
    ASSUME TypeOK, NEW t \in Tasks
    PROVE  StepsLeft(t) \in 0..(5 * MaxAttempts + 6)
<1>1. pc[t] \in Steps /\ attempts[t] \in 0..MaxAttempts
    BY DEF TypeOK
<1>2. StepOrder(op[t])[pc[t]] \in 0..6
    BY <1>1, OrderIs
<1> QED
    BY <1>1, <1>2, BoundsAssumption DEF StepsLeft

LEMMA ForwardLowers ==
    ASSUME TypeOK, TypeOK', NEW t \in Tasks, Forward(t)
    PROVE  StepsLeft(t)' < StepsLeft(t)
<1>1. /\ pc[t] \in Steps /\ pc'[t] \in Steps
      /\ attempts[t] \in 0..MaxAttempts /\ attempts'[t] \in 0..MaxAttempts /\ MaxAttempts \in Nat
    BY BoundsAssumption DEF TypeOK
<1>2. StepOrder(op[t])[pc[t]] \in 0..6 /\ StepOrder(op[t])[pc'[t]] \in 0..6
    BY <1>1, OrderIs
<1>3. /\ StepsLeft(t) = 5 * (MaxAttempts - attempts[t]) + StepOrder(op[t])[pc[t]]
      /\ StepsLeft(t)' = 5 * (MaxAttempts - attempts'[t]) + StepOrder(op[t])[pc'[t]]
    BY DEF StepsLeft, StepOrder, Forward
<1>4. CASE /\ attempts'[t] = attempts[t]
           /\ StepOrder(op[t])[pc'[t]] < StepOrder(op[t])[pc[t]]
    BY <1>1, <1>2, <1>3, <1>4
<1>5. CASE /\ attempts'[t] = attempts[t] + 1 /\ op[t] # "Delete"
           /\ pc[t] \in {"got", "wrote"} /\ pc'[t] = "lookup"
    <2>1. StepOrder(op[t])[pc'[t]] = 5 /\ StepOrder(op[t])[pc[t]] >= 1
        BY <1>5 DEF StepOrder
    <2> QED
        BY <1>1, <1>2, <1>3, <1>5, <2>1
<1> QED
    BY <1>4, <1>5 DEF Forward

(* The first step of a task leaves "idle", which is above everything.      *)
LEMMA StartLowers ==
    ASSUME TypeOK, TypeOK', NEW t \in Tasks, Start(t)
    PROVE  StepsLeft(t)' < StepsLeft(t)
<1>1. pc[t] = "idle" /\ pc'[t] # "idle" /\ attempts'[t] = attempts[t]
    BY DEF Start, GrantStart, RevokeStart, DeleteStart, CreateAccountStart, Begin, Goto, Report, TypeOK
<1>2. /\ pc'[t] \in Steps /\ attempts[t] \in 0..MaxAttempts /\ MaxAttempts \in Nat
    BY BoundsAssumption DEF TypeOK
<1>3. /\ StepOrder(op'[t])[pc'[t]] \in 0..6 /\ StepOrder(op'[t])[pc'[t]] < 6
      /\ StepOrder(op[t])[pc[t]] = 6
    BY <1>1, <1>2, OrderIs
<1>4. /\ StepsLeft(t) = 5 * (MaxAttempts - attempts[t]) + StepOrder(op[t])[pc[t]]
      /\ StepsLeft(t)' = 5 * (MaxAttempts - attempts'[t]) + StepOrder(op'[t])[pc'[t]]
    BY DEF StepsLeft, StepOrder
<1> QED
    BY <1>1, <1>2, <1>3, <1>4

(* Every other step of a task goes forward. *)
LEMMA RunForward ==
    ASSUME TypeOK, NEW t \in Tasks, Run(t)
    PROVE  Forward(t)
<1>1. CASE CacheHit(t) \/ CacheMiss(t) \/ ServeGet(t) \/ GetFault(t)
    BY <1>1 DEF CacheHit, CacheMiss, ServeGet, GetFault, Goto, request, TypeOK, Forward, StepOrder
<1>2. CASE GrantDecide(t) \/ RevokeDecide(t)
    BY <1>2 DEF GrantDecide, RevokeDecide, RetryOrFail, Report, Goto, request, TypeOK, Forward, StepOrder
<1>3. CASE DeleteVerify(t)
    BY <1>3 DEF DeleteVerify, Report, Goto, request, TypeOK, Forward, StepOrder
<1>4. CASE ServePatch(t) \/ ServeDelete(t) \/ WriteFault(t)
    BY <1>4 DEF ServePatch, ServeDelete, WriteFault, Goto, request, TypeOK, Forward, StepOrder
<1>5. CASE ServeCreate(t)
    BY <1>5 DEF ServeCreate, Goto, TypeOK, Forward, StepOrder
<1>6. CASE GrantFinish(t) \/ RevokeFinish(t)
    BY <1>6 DEF GrantFinish, RevokeFinish, RetryOrFail, Report, Goto, request, TypeOK, Forward, StepOrder
<1>7. CASE DeleteCheck(t) \/ CreateAccountFinish(t)
    BY <1>7 DEF DeleteCheck, CreateAccountFinish, Report, Goto, request, TypeOK, Forward, StepOrder
<1> QED
    BY <1>1, <1>2, <1>3, <1>4, <1>5, <1>6, <1>7 DEF Run

-----------------------------------------------------------------------------
Progress(t) ==
    /\ pc'[t] # pc[t] => StepsLeft(t)' < StepsLeft(t)
    /\ pc'[t] = pc[t] => StepsLeft(t)' = StepsLeft(t) /\ result'[t] = result[t]

LEMMA StandsStill ==
    ASSUME NEW t \in Tasks, SameTask(t), attempts'[t] = attempts[t]
    PROVE  Progress(t)
BY DEF SameTask, Progress, StepsLeft, StepOrder

LEMMA OthersAttempts ==
    ASSUME TypeOK, NEW t \in Tasks, NEW o \in Tasks \ {t}, Start(o) \/ Run(o)
    PROVE  attempts'[t] = attempts[t]
<1>1. UNCHANGED attempts \/ attempts' = [attempts EXCEPT ![o] = @ + 1]
    BY DEF Start, GrantStart, RevokeStart, DeleteStart, CreateAccountStart, Begin, Run, CacheHit,
           CacheMiss, ServeGet, GetFault, GrantDecide, RevokeDecide, DeleteVerify, ServePatch, ServeDelete,
           ServeCreate, WriteFault, GrantFinish, RevokeFinish, DeleteCheck, CreateAccountFinish,
           RetryOrFail
<1> QED
    BY <1>1 DEF TypeOK

LEMMA NextProgress ==
    ASSUME TypeOK, TypeOK', [Next]_vars, NEW t \in Tasks
    PROVE  Progress(t)
<1>1. CASE Start(t) \/ Run(t)
    <2>1. StepsLeft(t)' < StepsLeft(t)
        BY <1>1, StartLowers, RunForward, ForwardLowers
    <2>2. pc'[t] # pc[t]
        BY <1>1 DEF Start, GrantStart, RevokeStart, DeleteStart, CreateAccountStart, Begin, Run, CacheHit,
           CacheMiss, ServeGet, GetFault, GrantDecide, RevokeDecide, DeleteVerify, ServePatch, ServeDelete,
           ServeCreate, WriteFault, GrantFinish, RevokeFinish, DeleteCheck, CreateAccountFinish,
           RetryOrFail, Report, Goto, TypeOK
    <2> QED
        BY <2>1, <2>2 DEF Progress
<1>2. CASE \E o \in Tasks \ {t} : Start(o) \/ Run(o)
    BY <1>2, OthersStay, OthersAttempts, StandsStill
<1>3. CASE UNCHANGED vars \/ (\E u \in Ids : CacheExpire(u)) \/ ClearCaches \/ Admin
    BY <1>3, StandsStill DEF SameTask, vars, request, CacheExpire, ClearCaches, Admin
<1> QED
    BY <1>1, <1>2, <1>3 DEF Next

(* No task is ever set back, by its own retries or by anyone else, and a   *)
(* report once made stays: every step of a task lowers StepsLeft and no    *)
(* other step changes it (builder.Grant, builder.Revoke).                  *)
THEOREM TasksGetOn == Spec => TaskProgress
<1>1. TypeOK /\ TypeOK' /\ [Next]_vars
        => [\A t \in Tasks : /\ pc'[t] # pc[t] => StepsLeft(t)' < StepsLeft(t)
                             /\ pc'[t] = pc[t] => StepsLeft(t)' = StepsLeft(t)
                                                    /\ result'[t] = result[t]]_vars
    BY NextProgress DEF Progress
<1> QED
    BY <1>1, TypeCorrect, PTL DEF Spec, TaskProgress

(* The number of steps left is never below 0: a Grant or Revoke takes at   *)
(* most 5 * MaxAttempts + 6 steps from its request to its report, whatever *)
(* fails on the way, and a task that has reported takes none.              *)
THEOREM TasksAreBounded == Spec => [](\A t \in Tasks : StepsLeft(t) \in 0..(5 * MaxAttempts + 6))
<1>1. TypeOK => \A t \in Tasks : StepsLeft(t) \in 0..(5 * MaxAttempts + 6)
    BY StepsLeftRange
<1> QED
    BY <1>1, TypeCorrect, PTL
=============================================================================
