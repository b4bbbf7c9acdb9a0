-------------------------- MODULE WorkflowGraphProofs --------------------------
(***************************************************************************)
(* Proofs about WorkflowGraph, for every number of steps, every set of     *)
(* decomposed workflows and every bound.                                   *)
(***************************************************************************)
EXTENDS WorkflowGraph, WellFoundedInduction, TLAPS

-----------------------------------------------------------------------------
(* The inductive invariant.                                                *)

Typed == TypeOK /\ plan \in Workflows

\* A value is asked for the step the graph is suspended on, which lacks one.
AskedLacks ==
    asked # 0 => pc = "workflow_input" /\ asked = current /\ missing[asked] > 0

\* A consent not yet spent lives from the yes to the end of the verification,
\* and is, until the step runs, one more than the runs it has had.
GrantIsFresh ==
    /\ grant # 0 => pc \in {"execute", "verify"}
    /\ pc = "execute" /\ grant = current /\ plan.gate[current] = "CONFIRM"
        => runs[current] < grants[current]

First == {"select_next_step", "execute_batch", "branches"}

\* Before the first batch is joined only steps that depend on nothing are
\* ready or wait for consent, and no step is half verified.
BatchIsFree ==
    pc \in First =>
        /\ ready \subseteq {s \in Step : plan.deps[s] = {}}
        /\ \A s \in Step :
              /\ status[s] = "WAITING_FOR_APPROVAL" => plan.deps[s] = {}
              /\ status[s] # "VERIFYING"
              /\ status[s] = "COMPLETED" => s \in proven

\* The step the nodes work on may run.
CurrentMayRun ==
    pc \in {"execute_batch", "policy", "approval", "approval_interrupt", "workflow_input",
            "execute"}
        => plan.deps[current] \subseteq proven

\* A step other than t was executed, passed and never marked: the runner came
\* back blocked, and its verdict went to the last step.
LeftBehind(t) == \E s \in Step : s # t /\ status[s] = "VERIFYING"

\* What is marked completed was found to hold, but for the last step, which is
\* marked so when another one is left behind for good.
MarkedIsProven ==
    /\ Done(status) \subseteq proven \cup {N}
    /\ N \in Done(status) \ proven => LeftBehind(current)

VerdictIsOfCurrent ==
    pc = "verify" /\ verdict = "PASS" =>
        current \in proven \/ (current = N /\ LeftBehind(N))

IInv ==
    /\ Typed /\ AskedLacks /\ GrantIsFresh /\ ConsentIsSpentOnce
    /\ BatchIsFree /\ CurrentMayRun /\ MarkedIsProven /\ VerdictIsOfCurrent
    /\ CompletionIsProven

-----------------------------------------------------------------------------
(* What the helpers of the nodes return.                                   *)

LEMMA LeastStep ==
    ASSUME NEW S, S \subseteq Nat, S # {}
    PROVE  \E m \in S : \A n \in S : m <= n
<1> DEFINE R == {ss \in Nat \X Nat : ss[1] < ss[2]}
<1>1. IsWellFoundedOn(R, Nat)
  BY NatLessThanWellFounded DEF OpToRel
<1>2. PICK m \in S : \A n \in S : <<n, m>> \notin R
  <2> HIDE DEF R
  <2> QED
    BY <1>1, WFMin
<1>3. \A n \in S : m <= n
  <2> SUFFICES ASSUME NEW n \in S
               PROVE  ~ (n < m)
    OBVIOUS
  <2> QED
    BY <1>2
<1> QED
  BY <1>3

LEMMA StepIsNat == Step \subseteq Nat /\ 1 \in Step /\ N \in Step /\ 0 \notin Step
  BY BoundsAreNat DEF Step

LEMMA MinIsMember ==
    ASSUME NEW S \in SUBSET Step, S # {}
    PROVE  Min(S) \in S
<1>1. \E m \in S : \A n \in S : m <= n
  BY StepIsNat, LeastStep
<1> QED
  BY <1>1 DEF Min

LEMMA MaxIsMember ==
    ASSUME NEW S \in SUBSET Step, S # {}
    PROVE  Max(S) \in S
<1> DEFINE T == {N - s : s \in S}
<1>1. T \subseteq Nat /\ T # {}
  <2>1. \A s \in S : N - s \in Nat
    BY BoundsAreNat DEF Step
  <2> QED
    BY <2>1
<1>2. PICK x \in T : \A y \in T : x <= y
  <2> HIDE DEF T
  <2> QED
    BY <1>1, LeastStep
<1>3. PICK m \in S : x = N - m
  BY <1>2
<1>4. \A n \in S : m >= n
  <2> SUFFICES ASSUME NEW n \in S
               PROVE  m >= n
    OBVIOUS
  <2>1. N - n \in T
    OBVIOUS
  <2>2. N - m <= N - n
    BY <1>2, <1>3, <2>1
  <2> QED
    BY <2>2, BoundsAreNat DEF Step
<1> QED
  BY <1>4 DEF Max

\* Loading a workflow completes nothing, and leaves what is half verified.
LEMMA LoadedKeeps ==
    ASSUME TypeOK
    PROVE  /\ Loaded \in [Step -> StepStatus]
           /\ Done(Loaded) = Done(status)
           /\ \A s \in Step :
                 /\ Loaded[s] = "COMPLETED" <=> status[s] = "COMPLETED"
                 /\ Loaded[s] = "VERIFYING" <=> status[s] = "VERIFYING"
                 /\ Loaded[s] = "WAITING_FOR_APPROVAL" <=> status[s] = "WAITING_FOR_APPROVAL"
<1>1. Loaded \in [Step -> StepStatus]
  BY DEF TypeOK, Loaded, StepStatus
<1>2. \A s \in Step :
         /\ Loaded[s] = "COMPLETED" <=> status[s] = "COMPLETED"
         /\ Loaded[s] = "VERIFYING" <=> status[s] = "VERIFYING"
         /\ Loaded[s] = "WAITING_FOR_APPROVAL" <=> status[s] = "WAITING_FOR_APPROVAL"
  BY DEF TypeOK, Loaded, StepStatus
<1> QED
  BY <1>1, <1>2 DEF Done

LEMMA MovedOrNot ==
    ASSUME TypeOK, NEW state \in STATES
    PROVE  Moved(state) \in {task, state} /\ Moved(state) \in STATES
  BY DEF Moved, TypeOK

LEMMA AggregateIsStatus ==
    ASSUME NEW st
    PROVE  /\ Aggregate(st) \in WorkflowStatus
           /\ Aggregate(st) = "COMPLETED" => Done(st) = Step
  BY DEF Aggregate, WorkflowStatus

LEMMA ResultsOfStep ==
    ASSUME TypeOK, NEW s \in Step, NEW granted \in BOOLEAN, NEW r \in Results(s, granted)
    PROVE  /\ r.way \in {"asked", "unstarted", "acted", "raised"}
           /\ r.verdict \in Verdict /\ r.blocked \in BOOLEAN /\ r.known \in BOOLEAN
           /\ plan.gate[s] = "CONFIRM" /\ ~ granted => r.way = "asked"
           /\ plan.gate[s] = "DENY" => r.way = "unstarted"
           /\ r.way # "acted" => r.verdict = "UNKNOWN"
  BY DEF Results, Verdict

-----------------------------------------------------------------------------
(* Types.                                                                  *)

TypesHold == Typed /\ AskedLacks

LEMMA AfterRunTypes ==
    ASSUME TypeOK, NEW s \in Step, NEW granted \in BOOLEAN,
           NEW r \in Results(s, granted), NEW whole \in BOOLEAN,
           AfterRun(s, r, whole)
    PROVE  /\ task' \in STATES /\ owner' \in 0..N
           /\ runs' \in [Step -> Nat] /\ attempts' \in [Step -> Nat]
           /\ proven' \subseteq Step
           /\ asked' = asked /\ grants' = grants
<1>1. task' \in STATES
  BY DEF AfterRun, TypeOK, STATES
<1>2. owner' \in 0..N
  BY BoundsAreNat DEF AfterRun, TypeOK, Step
<1>3. runs' \in [Step -> Nat] /\ attempts' \in [Step -> Nat]
  BY DEF AfterRun, TypeOK
<1>4. proven' \subseteq Step /\ asked' = asked /\ grants' = grants
  BY DEF AfterRun, TypeOK
<1> QED
  BY <1>1, <1>2, <1>3, <1>4

LEMMA StopTypes ==
    ASSUME TypeOK, NEW step \in StepStatus, NEW whole \in WorkflowStatus, NEW node \in Node,
           Stop(step, whole, node)
    PROVE  status' \in [Step -> StepStatus] /\ outcome' \in WorkflowStatus /\ pc' \in Node
  BY LoadedKeeps DEF Stop, Go, TypeOK

LEMMA TypesAtStart == Init => TypesHold
<1> SUFFICES ASSUME Init
             PROVE  TypesHold
  OBVIOUS
<1>1. plan \in Workflows /\ plan \in Decomposed
  BY WorkflowsAreDecomposed DEF Init
<1>2. missing \in [Step -> 0..2]
  BY <1>1 DEF Init, Decomposed
<1> QED
  BY <1>1, <1>2, BoundsAreNat
  DEF Init, TypesHold, Typed, TypeOK, AskedLacks, Step, Node, WorkflowStatus, StepStatus,
      Verdict, STATES

LEMMA TypesAreKept == TypesHold /\ [Next]_vars => TypesHold'
<1> SUFFICES ASSUME TypesHold, [Next]_vars
             PROVE  TypesHold'
  OBVIOUS
<1> USE DEF TypesHold, Typed
<1>0. CASE UNCHANGED vars
  BY <1>0 DEF vars, workflow, channels, runtime, history, TypeOK, AskedLacks
<1>1. CASE SelectNextStep
  <2> DEFINE free == {s \in Step : plan.deps[s] = {}}
  <2>1. free \in SUBSET Step /\ free # {}
    <3>1. plan.deps[1] \subseteq 1..(1 - 1)
      BY StepIsNat, WorkflowsAreDecomposed
    <3>2. plan.deps[1] = {}
      BY <3>1
    <3> QED
      BY <3>2, StepIsNat
  <2>2. current' \in Step
    <3>1. current' = Min(free)
      BY <1>1 DEF SelectNextStep
    <3> QED
      BY <2>1, <3>1, MinIsMember
  <2>3. status' \in [Step -> StepStatus]
    <3>1. Loaded \in [Step -> StepStatus]
      BY LoadedKeeps
    <3> QED
      BY <1>1, <3>1 DEF SelectNextStep, StepStatus
  <2>4. pc' \in Node /\ outcome' \in WorkflowStatus /\ ready' \subseteq Step
    BY <1>1 DEF SelectNextStep, Go, Node, WorkflowStatus
  <2>5. AskedLacks'
    BY <1>1 DEF SelectNextStep, AskedLacks, runtime
  <2> QED
    BY <1>1, <2>2, <2>3, <2>4, <2>5 DEF SelectNextStep, TypeOK, runtime, history
<1>2. CASE Policy
  <2>1. /\ status' \in [Step -> StepStatus] /\ outcome' \in WorkflowStatus /\ pc' \in Node
        /\ task' \in STATES /\ asked' \in 0..N
        /\ asked' # asked => /\ pc' = "workflow_input" /\ asked' = current
                             /\ missing[current] > 0
        /\ pc # "workflow_input"
    <3>1. CASE Stand = "ALLOW" /\ Go("execute") /\ status' = Loaded
               /\ UNCHANGED <<outcome, task, asked>>
      BY <1>2, <3>1, LoadedKeeps DEF Policy, TypeOK, Go, Node
    <3>2. CASE Stand = "CONFIRM"
               /\ Stop("WAITING_FOR_APPROVAL", "WAITING_FOR_APPROVAL", "approval")
               /\ UNCHANGED <<task, asked>>
      BY <1>2, <3>2, StopTypes DEF Policy, TypeOK, StepStatus, WorkflowStatus, Node
    <3>3. CASE Stand = "DENY" /\ Stop("FAILED", "FAILED", "failed")
               /\ UNCHANGED <<task, asked>>
      BY <1>2, <3>3, StopTypes DEF Policy, TypeOK, StepStatus, WorkflowStatus, Node
    <3>4. CASE Stand = "INPUT"
               /\ Stop("WAITING_FOR_USER", "WAITING_FOR_USER", "workflow_input")
               /\ task' = Moved("WAITING_FOR_USER")
               /\ asked' = current
      <4>1. missing[current] > 0
        <5>1. plan.gate[current] # "INPUT"
          BY DEF TypeOK, Decomposed
        <5> QED
          BY <3>4, <5>1 DEF Stand
      <4>2. task' \in STATES
        BY <3>4, MovedOrNot DEF STATES
      <4>3. asked' \in 0..N
        BY <3>4, BoundsAreNat DEF TypeOK, Step
      <4> QED
        BY <1>2, <3>4, <4>1, <4>2, <4>3, StopTypes
        DEF Policy, Stop, Go, StepStatus, WorkflowStatus, Node
    <3> QED
      BY <1>2, <3>1, <3>2, <3>3, <3>4 DEF Policy
  <2> QED
    BY <1>2, <2>1 DEF Policy, TypeOK, AskedLacks, channels, history
<1>3. CASE Approval
  <2>1. task' \in STATES
    <3>1. Moved("FAILED") \in STATES /\ "WAITING_FOR_APPROVAL" \in STATES
      BY MovedOrNot DEF STATES
    <3> QED
      BY <1>3, <3>1 DEF Approval, TypeOK
  <2>2. pc' \in Node /\ pc # "workflow_input"
    BY <1>3 DEF Approval, Go, Node
  <2>3. owner' \in 0..N
    BY <1>3, BoundsAreNat DEF Approval, TypeOK, Step
  <2> QED
    BY <1>3, <2>1, <2>2, <2>3 DEF Approval, TypeOK, AskedLacks, workflow, channels, history
<1>4. CASE ExecuteBatch
  <2>1. status' \in [Step -> StepStatus]
    <3>1. Loaded \in [Step -> StepStatus]
      BY LoadedKeeps
    <3> QED
      BY <1>4, <3>1 DEF ExecuteBatch, StepStatus
  <2>2. task' \in STATES
    BY <1>4, MovedOrNot DEF ExecuteBatch, STATES, TypeOK
  <2>3. pc' \in Node /\ outcome' \in WorkflowStatus /\ ready' \subseteq Step
    BY <1>4 DEF ExecuteBatch, Go, Node, WorkflowStatus, TypeOK
  <2>4. asked' = asked /\ asked = 0
    BY <1>4 DEF ExecuteBatch, AskedLacks
  <2> QED
    BY <1>4, <2>1, <2>2, <2>3, <2>4 DEF ExecuteBatch, TypeOK, AskedLacks, history
<1>5. CASE EndBatch
  <2> DEFINE unasked == {s \in Step : status[s] = "WAITING_FOR_APPROVAL"}
  <2>1. current' \in Step
    <3>1. CASE unasked # {}
      <4>1. current' = Max(unasked)
        BY <1>5, <3>1 DEF EndBatch
      <4>2. Max(unasked) \in unasked
        BY <3>1, MaxIsMember
      <4> QED
        BY <4>1, <4>2
    <3>2. CASE unasked = {}
      BY <1>5, <3>2 DEF EndBatch, TypeOK
    <3> QED
      BY <3>1, <3>2
  <2>2. pc' \in Node
    BY <1>5 DEF EndBatch, Go, Node
  <2>3. outcome' \in WorkflowStatus
    <3>1. Aggregate(status) \in WorkflowStatus
      BY AggregateIsStatus
    <3> QED
      BY <1>5, <3>1 DEF EndBatch, WorkflowStatus
  <2> QED
    BY <1>5, <2>1, <2>2, <2>3 DEF EndBatch, TypeOK, AskedLacks, channels, runtime, history
<1>6. CASE Execute
  <2>1. PICK r \in Results(current, grant = current) :
          LET back  == Returned(current, r)
              whole == Whole(current, r, back)
          IN  /\ AfterRun(current, r, whole)
              /\ status' = [back EXCEPT ![current] = Judged(current, r)]
              /\ outcome' = JudgedWhole(current, r, whole)
              /\ current' = CurrentReturned(current, r)
              /\ verdict' = r.verdict
    BY <1>6 DEF Execute
  <2>2. current \in Step /\ (grant = current) \in BOOLEAN
    BY DEF TypeOK
  <2>3. /\ r.way \in {"asked", "unstarted", "acted", "raised"}
        /\ r.verdict \in Verdict /\ r.blocked \in BOOLEAN
    BY <2>2, ResultsOfStep
  <2>4. /\ task' \in STATES /\ owner' \in 0..N
        /\ runs' \in [Step -> Nat] /\ attempts' \in [Step -> Nat]
        /\ proven' \subseteq Step
        /\ asked' = asked /\ grants' = grants
    <3>1. Whole(current, r, Returned(current, r)) \in BOOLEAN
      BY DEF Whole
    <3>2. AfterRun(current, r, Whole(current, r, Returned(current, r)))
      BY <2>1
    <3> HIDE DEF TypesHold, Typed
    <3>3. TypeOK
      BY DEF TypesHold, Typed
    <3> QED
      BY <2>2, <3>1, <3>2, <3>3, AfterRunTypes
  <2>5. Judged(current, r) \in StepStatus
    BY DEF Judged, StepStatus
  <2>6. status' \in [Step -> StepStatus]
    <3>1. Returned(current, r) \in [Step -> StepStatus]
      BY LoadedKeeps DEF Returned, StepStatus
    <3> QED
      BY <2>1, <2>5, <3>1
  <2>7. outcome' \in WorkflowStatus
    BY <2>1 DEF JudgedWhole, Judged, WorkflowStatus
  <2>8. current' \in Step
    BY <2>1, <2>2, StepIsNat DEF CurrentReturned
  <2>9. pc' \in Node /\ asked = 0
    BY <1>6 DEF Execute, Go, Node, AskedLacks
  <2> QED
    BY <1>6, <2>1, <2>3, <2>4, <2>6, <2>7, <2>8, <2>9 DEF Execute, TypeOK, AskedLacks
<1>7. CASE Verify
  <2>1. status' \in [Step -> StepStatus] /\ outcome' \in WorkflowStatus /\ pc' \in Node
    <3>1. CASE verdict = "PASS"
      <4>1. Stop("COMPLETED", "RUNNING", "next_step")
        BY <1>7, <3>1 DEF Verify
      <4> QED
        BY <4>1, StopTypes DEF StepStatus, WorkflowStatus, Node
    <3>2. CASE verdict = "UNKNOWN"
      <4>1. Stop("RECOVERY_REQUIRED", "RECOVERING", "recover")
        BY <1>7, <3>2 DEF Verify
      <4> QED
        BY <4>1, StopTypes DEF StepStatus, WorkflowStatus, Node
    <3>3. CASE verdict = "FAIL"
      <4>1. Stop("FAILED", "FAILED", "failed")
        BY <1>7, <3>3 DEF Verify
      <4> QED
        BY <4>1, StopTypes DEF StepStatus, WorkflowStatus, Node
    <3> QED
      BY <3>1, <3>2, <3>3 DEF TypeOK, Verdict
  <2>2. grant' \in 0..N
    BY <1>7, BoundsAreNat DEF Verify
  <2>3. asked = 0
    BY <1>7 DEF Verify, AskedLacks
  <2> QED
    BY <1>7, <2>1, <2>2, <2>3 DEF Verify, TypeOK, AskedLacks, runtime, history
<1>8. CASE Recover
  <2>1. /\ status' \in [Step -> StepStatus] /\ outcome' \in WorkflowStatus /\ pc' \in Node
        /\ recoveries' \in 0..MaxRecoveryAttempts /\ proven' \subseteq Step
    <3>1. CASE Exhausted
      BY <1>8, <3>1, LoadedKeeps DEF Recover, Go, TypeOK, WorkflowStatus, Node
    <3>2. CASE ~ Exhausted
      <4>1. recoveries' \in 0..MaxRecoveryAttempts
        BY <1>8, <3>2, BoundsAreNat DEF Recover, Exhausted, TypeOK
      <4>2. PICK fresh \in Verdict :
              /\ CASE fresh = "PASS" ->
                        Stop("COMPLETED", Aggregate([Loaded EXCEPT ![current] = "COMPLETED"]),
                             "next_step")
                   [] fresh = "FAIL" /\ plan.safety[current] = "SAFE_TO_RETRY" ->
                        Stop("READY", outcome, "next_step")
                   [] OTHER -> Stop("UNKNOWN", "UNKNOWN", "failed")
              /\ proven' = IF fresh = "PASS" THEN proven \cup {current} ELSE proven
        BY <1>8, <3>2 DEF Recover
      <4>3. proven' \subseteq Step
        BY <4>2 DEF TypeOK
      <4>4. \/ Stop("COMPLETED", Aggregate([Loaded EXCEPT ![current] = "COMPLETED"]),
                    "next_step")
            \/ Stop("READY", outcome, "next_step")
            \/ Stop("UNKNOWN", "UNKNOWN", "failed")
        BY <4>2
      <4>5. Aggregate([Loaded EXCEPT ![current] = "COMPLETED"]) \in WorkflowStatus
        BY AggregateIsStatus
      <4>6. outcome \in WorkflowStatus /\ "UNKNOWN" \in WorkflowStatus
        BY DEF TypeOK, WorkflowStatus
      <4>7. {"COMPLETED", "READY", "UNKNOWN"} \subseteq StepStatus
        BY DEF StepStatus
      <4>8. {"next_step", "failed"} \subseteq Node
        BY DEF Node
      <4>9. status' \in [Step -> StepStatus] /\ outcome' \in WorkflowStatus /\ pc' \in Node
        <5>1. CASE Stop("COMPLETED", Aggregate([Loaded EXCEPT ![current] = "COMPLETED"]),
                        "next_step")
          BY <4>5, <4>7, <4>8, <5>1, StopTypes
        <5>2. CASE Stop("READY", outcome, "next_step")
          BY <4>6, <4>7, <4>8, <5>2, StopTypes
        <5>3. CASE Stop("UNKNOWN", "UNKNOWN", "failed")
          BY <4>6, <4>7, <4>8, <5>3, StopTypes
        <5> QED
          BY <4>4, <5>1, <5>2, <5>3
      <4> QED
        BY <4>1, <4>3, <4>9
    <3> QED
      BY <3>1, <3>2
  <2>2. asked = 0
    BY <1>8 DEF Recover, AskedLacks
  <2> QED
    BY <1>8, <2>1, <2>2 DEF Recover, TypeOK, AskedLacks, channels, runtime
<1>9. CASE NextStep
  <2>1. current' \in Step
    <3>1. CASE Runnable # {}
      <4>1. Runnable \in SUBSET Step
        BY DEF Runnable
      <4>2. Min(Runnable) \in Runnable
        BY <3>1, <4>1, MinIsMember
      <4> QED
        BY <1>9, <3>1, <4>1, <4>2 DEF NextStep
    <3>2. CASE Runnable = {}
      BY <1>9, <3>2 DEF NextStep, TypeOK
    <3> QED
      BY <3>1, <3>2
  <2>2. outcome' \in WorkflowStatus
    <3>1. Aggregate(Loaded) \in WorkflowStatus
      BY AggregateIsStatus
    <3> QED
      BY <1>9, <3>1 DEF NextStep, WorkflowStatus
  <2>3. task' \in STATES
    BY <1>9, MovedOrNot DEF NextStep, TypeOK, STATES
  <2>4. pc' \in Node /\ status' \in [Step -> StepStatus] /\ asked = 0
    BY <1>9, LoadedKeeps DEF NextStep, Go, Node, AskedLacks
  <2> QED
    BY <1>9, <2>1, <2>2, <2>3, <2>4 DEF NextStep, TypeOK, AskedLacks, channels, history
<1>10. CASE Failed
  <2>1. task' \in STATES
    BY <1>10, MovedOrNot DEF Failed, TypeOK, STATES
  <2>2. /\ outcome' \in WorkflowStatus /\ pc' \in Node /\ asked = 0
        /\ status' \in [Step -> StepStatus]
    BY <1>10, LoadedKeeps DEF Failed, Go, Node, AskedLacks, WorkflowStatus
  <2> QED
    BY <1>10, <2>1, <2>2 DEF Failed, TypeOK, AskedLacks, channels, history
<1>11. ASSUME NEW s \in Step, Branch(s)
       PROVE  TypesHold'
  <2>1. PICK r \in Results(s, FALSE), fresh \in BOOLEAN :
          /\ AfterRun(s, r, fresh /\ Whole(s, r, status))
          /\ status' = [status EXCEPT ![s] =
                           IF r.way = "asked" THEN "WAITING_FOR_USER"
                           ELSE IF r.verdict = "PASS" THEN "COMPLETED"
                           ELSE IF r.verdict = "UNKNOWN" THEN "UNKNOWN" ELSE "FAILED"]
    BY <1>11 DEF Branch
  <2>2. /\ task' \in STATES /\ owner' \in 0..N
        /\ runs' \in [Step -> Nat] /\ attempts' \in [Step -> Nat]
        /\ proven' \subseteq Step
        /\ asked' = asked /\ grants' = grants
    <3>1. (fresh /\ Whole(s, r, status)) \in BOOLEAN
      OBVIOUS
    <3> QED
      BY <2>1, <3>1, AfterRunTypes
  <2>3. status' \in [Step -> StepStatus]
    BY <2>1 DEF TypeOK, StepStatus
  <2>4. asked = 0
    BY <1>11 DEF Branch, AskedLacks
  <2> QED
    BY <1>11, <2>2, <2>3, <2>4 DEF Branch, TypeOK, AskedLacks
<1>12. CASE Approve
  <2>1. status' \in [Step -> StepStatus] /\ pc' \in Node
    BY <1>12, LoadedKeeps DEF Approve, Go, Node
  <2>2. grant' \in 0..N /\ owner' \in 0..N
    BY <1>12, BoundsAreNat DEF Approve, TypeOK, Step
  <2>3. /\ task' \in STATES /\ approved' \subseteq Step /\ grants' \in [Step -> Nat]
        /\ asked = 0
    BY <1>12 DEF Approve, TypeOK, STATES, AskedLacks
  <2> QED
    BY <1>12, <2>1, <2>2, <2>3 DEF Approve, TypeOK, AskedLacks
<1>13. CASE Reject
  BY <1>13, BoundsAreNat
  DEF Reject, TypeOK, AskedLacks, workflow, channels, history, STATES
<1>14. CASE WorkflowInput
  <2>1. status' \in [Step -> StepStatus] /\ outcome' \in WorkflowStatus /\ pc' \in Node
    BY <1>14, StopTypes DEF WorkflowInput, StepStatus, WorkflowStatus, Node
  <2>2. missing' \in [Step -> 0..2]
    <3>1. missing[current] > 0
      BY <1>14, StepIsNat DEF WorkflowInput, AskedLacks, TypeOK
    <3> QED
      BY <1>14, <3>1 DEF WorkflowInput, TypeOK
  <2>3. task' \in STATES /\ asked' = 0 /\ asked' \in 0..N
    BY <1>14, MovedOrNot, BoundsAreNat DEF WorkflowInput, STATES
  <2> QED
    BY <1>14, <2>1, <2>2, <2>3 DEF WorkflowInput, TypeOK, AskedLacks, channels, history
<1>15. CASE CancelTask
  BY <1>15, BoundsAreNat
  DEF CancelTask, TypeOK, AskedLacks, workflow, channels, history, STATES
<1> QED
  BY <1>0, <1>1, <1>2, <1>3, <1>4, <1>5, <1>6, <1>7, <1>8, <1>9, <1>10, <1>11, <1>12,
     <1>13, <1>14, <1>15
  DEF Next, Graph, Person

-----------------------------------------------------------------------------
(* Consent.                                                                *)

Spending == GrantIsFresh /\ ConsentIsSpentOnce

\* Where there is no grant, a step that leaves grants and runs alone is safe.
LEMMA NothingToSpend ==
    ASSUME TypesHold, Spending, current' \in Step, pc \notin {"execute", "verify"},
           UNCHANGED <<plan, grant, runs, grants>>
    PROVE  Spending'
<1>1. grant = 0 /\ current' # 0
  BY StepIsNat DEF Spending, GrantIsFresh
<1> QED
  BY <1>1 DEF Spending, GrantIsFresh, ConsentIsSpentOnce

LEMMA SpendingIsKept ==
    TypesHold /\ TypesHold' /\ Spending /\ [Next]_vars => Spending'
<1> SUFFICES ASSUME TypesHold, TypesHold', Spending, [Next]_vars
             PROVE  Spending'
  OBVIOUS
<1>a. current \in Step /\ current' \in Step
  BY DEF TypesHold, Typed, TypeOK
<1>b. runs \in [Step -> Nat] /\ grants \in [Step -> Nat] /\ TypeOK
  BY DEF TypesHold, Typed, TypeOK
<1>0. CASE UNCHANGED vars
  BY <1>0 DEF vars, workflow, channels, history, Spending, GrantIsFresh, ConsentIsSpentOnce
<1>1. CASE \/ SelectNextStep \/ Policy \/ Approval \/ ExecuteBatch \/ EndBatch
           \/ Recover \/ NextStep \/ Failed \/ Reject \/ WorkflowInput
  <2>1. pc \notin {"execute", "verify"} /\ UNCHANGED <<plan, grant, runs, grants>>
    BY <1>1
    DEF SelectNextStep, Policy, Approval, ExecuteBatch, EndBatch, Recover, NextStep, Failed,
        Reject, WorkflowInput, channels, history
  <2> QED
    BY <1>a, <2>1, NothingToSpend
<1>2. CASE CancelTask
  BY <1>2
  DEF CancelTask, workflow, channels, history, Spending, GrantIsFresh, ConsentIsSpentOnce
<1>3. CASE Approve
  <2>1. /\ grants' = [grants EXCEPT ![current] = @ + 1]
        /\ runs' = runs /\ plan' = plan /\ pc' = "execute"
        /\ grant' = current /\ current' = current
    BY <1>3 DEF Approve, Go
  <2>2. ConsentIsSpentOnce'
    BY <1>b, <2>1 DEF Spending, ConsentIsSpentOnce
  <2>3. plan.gate[current] = "CONFIRM" => runs[current] <= grants[current]
    BY <1>a DEF Spending, ConsentIsSpentOnce
  <2> QED
    BY <1>a, <1>b, <2>1, <2>2, <2>3 DEF Spending, GrantIsFresh
<1>4. CASE Execute
  <2>1. PICK r \in Results(current, grant = current) :
          AfterRun(current, r, Whole(current, r, Returned(current, r)))
    BY <1>4 DEF Execute
  <2>2. (grant = current) \in BOOLEAN
    OBVIOUS
  <2>3. /\ plan.gate[current] = "CONFIRM" /\ grant # current => r.way = "asked"
        /\ plan.gate[current] = "DENY" => r.way = "unstarted"
    BY <1>a, <1>b, <2>2, ResultsOfStep
  <2>4. /\ grants' = grants /\ plan' = plan /\ grant' = grant /\ pc' = "verify"
        /\ runs' = IF r.way \in {"acted", "raised"}
                   THEN [runs EXCEPT ![current] = @ + 1] ELSE runs
    BY <1>4, <2>1 DEF Execute, AfterRun, Go
  <2>5. grant = current /\ plan.gate[current] = "CONFIRM" => runs[current] < grants[current]
    BY <1>4 DEF Execute, Spending, GrantIsFresh
  <2>6. ConsentIsSpentOnce'
    <3> SUFFICES ASSUME NEW s \in Step
                 PROVE  /\ plan.gate[s] = "CONFIRM" => runs'[s] <= grants[s]
                        /\ plan.gate[s] = "DENY" => runs'[s] = 0
      BY <2>4 DEF ConsentIsSpentOnce
    <3>1. /\ plan.gate[s] = "CONFIRM" => runs[s] <= grants[s]
          /\ plan.gate[s] = "DENY" => runs[s] = 0
      BY DEF Spending, ConsentIsSpentOnce
    <3>2. CASE s # current \/ r.way \notin {"acted", "raised"}
      BY <1>b, <2>4, <3>1, <3>2
    <3>3. CASE s = current /\ r.way \in {"acted", "raised"}
      <4>1. plan.gate[s] # "DENY"
        BY <2>3, <3>3
      <4>2. plan.gate[s] = "CONFIRM" => grant = current
        BY <2>3, <3>3
      <4>3. runs'[s] = runs[s] + 1
        BY <1>a, <1>b, <2>4, <3>3
      <4> QED
        BY <1>b, <2>5, <3>3, <4>1, <4>2, <4>3
    <3> QED
      BY <3>2, <3>3
  <2> QED
    BY <2>4, <2>6 DEF Spending, GrantIsFresh
<1>5. CASE Verify
  <2>1. /\ grant' = 0 /\ UNCHANGED <<plan, runs, grants>> /\ current' # 0
    BY <1>5, <1>a, StepIsNat DEF Verify, history
  <2> QED
    BY <2>1 DEF Spending, GrantIsFresh, ConsentIsSpentOnce
<1>6. ASSUME NEW s \in Step, Branch(s)
      PROVE  Spending'
  <2>1. PICK r \in Results(s, FALSE), whole \in BOOLEAN : AfterRun(s, r, whole)
    <3>1. PICK r \in Results(s, FALSE), fresh \in BOOLEAN :
             AfterRun(s, r, fresh /\ Whole(s, r, status))
      BY <1>6 DEF Branch
    <3>2. (fresh /\ Whole(s, r, status)) \in BOOLEAN
      OBVIOUS
    <3> QED
      BY <3>1, <3>2
  <2>2. /\ plan.gate[s] = "CONFIRM" => r.way = "asked"
        /\ plan.gate[s] = "DENY" => r.way = "unstarted"
    BY <1>b, ResultsOfStep
  <2>3. /\ UNCHANGED <<plan, grant, pc, current>> /\ grants' = grants
        /\ runs' = IF r.way \in {"acted", "raised"} THEN [runs EXCEPT ![s] = @ + 1] ELSE runs
        /\ pc = "branches"
    BY <1>6, <2>1 DEF Branch, AfterRun
  <2>4. ConsentIsSpentOnce'
    <3> SUFFICES ASSUME NEW t \in Step
                 PROVE  /\ plan.gate[t] = "CONFIRM" => runs'[t] <= grants[t]
                        /\ plan.gate[t] = "DENY" => runs'[t] = 0
      BY <2>3 DEF ConsentIsSpentOnce
    <3>1. /\ plan.gate[t] = "CONFIRM" => runs[t] <= grants[t]
          /\ plan.gate[t] = "DENY" => runs[t] = 0
      BY DEF Spending, ConsentIsSpentOnce
    <3>2. plan.gate[t] \in {"CONFIRM", "DENY"} => runs'[t] = runs[t]
      BY <1>b, <2>2, <2>3
    <3> QED
      BY <3>1, <3>2
  <2> QED
    BY <2>3, <2>4 DEF Spending, GrantIsFresh
<1> QED
  BY <1>0, <1>1, <1>2, <1>3, <1>4, <1>5, <1>6 DEF Next, Graph, Person

-----------------------------------------------------------------------------
(* Prerequisites and completion.                                           *)

Marking ==
    /\ BatchIsFree /\ CurrentMayRun /\ MarkedIsProven /\ VerdictIsOfCurrent
    /\ CompletionIsProven

\* When everything is marked completed nothing is left behind.
LEMMA AllMarkedIsProven ==
    ASSUME TypesHold, MarkedIsProven, Done(status) = Step
    PROVE  proven = Step
  BY StepIsNat DEF TypesHold, Typed, TypeOK, MarkedIsProven, Done, LeftBehind

\* A node that marks nothing but the current step, and marks that one completed
\* only on its own verification or when it already left another behind.
LEMMA MarksStay ==
    ASSUME TypesHold, TypesHold', MarkedIsProven, current' = current, proven \subseteq proven',
           \A s \in Step \ {current} :
              /\ status'[s] = "COMPLETED" <=> status[s] = "COMPLETED"
              /\ status'[s] = "VERIFYING" <=> status[s] = "VERIFYING",
           status'[current] = "COMPLETED" =>
              \/ status[current] = "COMPLETED"
              \/ current \in proven'
              \/ current = N /\ LeftBehind(N)
    PROVE  MarkedIsProven'
<1>1. LeftBehind(current) => LeftBehind(current)'
  BY DEF LeftBehind
<1>2. Done(status') \subseteq proven' \cup {N}
  BY DEF MarkedIsProven, Done
<1>3. N \in Done(status') \ proven' => LeftBehind(current)
  <2> SUFFICES ASSUME N \in Done(status') \ proven'
               PROVE  LeftBehind(current)
    OBVIOUS
  <2>1. CASE N = current
    BY <2>1 DEF MarkedIsProven, Done
  <2>2. CASE N # current
    BY <2>2 DEF MarkedIsProven, Done
  <2> QED
    BY <2>1, <2>2
<1> QED
  BY <1>1, <1>2, <1>3 DEF MarkedIsProven, Done

\* A node outside the first batch and before a verdict is read.
LEMMA PlainNode ==
    ASSUME pc' \notin First, pc' # "verify"
    PROVE  BatchIsFree' /\ VerdictIsOfCurrent'
  BY DEF BatchIsFree, VerdictIsOfCurrent

LEMMA CompletionStays ==
    ASSUME TypesHold', CompletionIsProven, proven \subseteq proven',
           task' = "COMPLETED" => task = "COMPLETED" \/ proven' = Step,
           pc' = "END" /\ outcome' = "COMPLETED" =>
              (pc = "END" /\ outcome = "COMPLETED") \/ proven' = Step
    PROVE  CompletionIsProven'
  BY DEF CompletionIsProven, TypesHold, Typed, TypeOK

LEMMA MarkingAtStart == Init => Marking
<1> SUFFICES ASSUME Init
             PROVE  Marking
  OBVIOUS
<1>1. BatchIsFree /\ CurrentMayRun /\ VerdictIsOfCurrent /\ CompletionIsProven
  BY DEF Init, BatchIsFree, CurrentMayRun, VerdictIsOfCurrent, CompletionIsProven
<1>2. MarkedIsProven
  BY StepIsNat DEF Init, MarkedIsProven, Done
<1> QED
  BY <1>1, <1>2 DEF Marking

LEMMA MarkingIsKept ==
    TypesHold /\ TypesHold' /\ Marking /\ [Next]_vars => Marking'
<1> SUFFICES ASSUME TypesHold, TypesHold', Marking, [Next]_vars
             PROVE  Marking'
  OBVIOUS
<1>t. /\ TypeOK /\ current \in Step /\ current' \in Step /\ plan \in Workflows
      /\ status \in [Step -> StepStatus] /\ proven \subseteq Step /\ proven' \subseteq Step
      /\ task \in STATES
  BY DEF TypesHold, Typed, TypeOK
<1>l. /\ Loaded \in [Step -> StepStatus]
      /\ Done(Loaded) = Done(status)
      /\ \A s \in Step :
            /\ Loaded[s] = "COMPLETED" <=> status[s] = "COMPLETED"
            /\ Loaded[s] = "VERIFYING" <=> status[s] = "VERIFYING"
            /\ Loaded[s] = "WAITING_FOR_APPROVAL" <=> status[s] = "WAITING_FOR_APPROVAL"
  BY <1>t, LoadedKeeps
<1>m. BatchIsFree /\ CurrentMayRun /\ MarkedIsProven /\ VerdictIsOfCurrent /\ CompletionIsProven
  BY DEF Marking
<1>0. CASE UNCHANGED vars
  BY <1>0
  DEF vars, workflow, channels, runtime, history, Marking, BatchIsFree, CurrentMayRun,
      MarkedIsProven, VerdictIsOfCurrent, CompletionIsProven, LeftBehind, Done
<1>1. CASE SelectNextStep
  <2> DEFINE free == {s \in Step : plan.deps[s] = {}}
  <2>1. /\ UNCHANGED <<plan, proven, task>> /\ ready' = free
        /\ status' = [s \in Step |-> IF s \in free THEN "READY" ELSE Loaded[s]]
        /\ current' = Min(free) /\ pc' \in {"execute_batch", "policy"}
        /\ pc \in First
    BY <1>1 DEF SelectNextStep, runtime, history, Go, First
  <2>2. BatchIsFree'
    BY <1>l, <1>m, <2>1 DEF BatchIsFree
  <2>3. MarkedIsProven'
    BY <1>l, <1>m, <2>1 DEF BatchIsFree, MarkedIsProven, Done
  <2>4. plan.deps[current'] = {}
    <3>1. free # {}
      <4>1. plan.deps[1] \subseteq 1..(1 - 1)
        BY <1>t, StepIsNat, WorkflowsAreDecomposed
      <4>2. plan.deps[1] = {}
        BY <4>1
      <4> QED
        BY <4>2, StepIsNat
    <3>2. free \in SUBSET Step
      OBVIOUS
    <3>3. Min(free) \in free
      BY <3>1, <3>2, MinIsMember
    <3> QED
      BY <2>1, <3>3
  <2>5. CurrentMayRun' /\ VerdictIsOfCurrent'
    BY <2>1, <2>4 DEF CurrentMayRun, VerdictIsOfCurrent
  <2>6. CompletionIsProven'
    BY <1>m, <2>1, CompletionStays
  <2> QED
    BY <2>2, <2>3, <2>5, <2>6 DEF Marking
<1>2. CASE Policy
  <2>1. /\ UNCHANGED <<plan, proven, current>>
        /\ pc = "policy" /\ pc' \in {"execute", "approval", "failed", "workflow_input"}
        /\ task' \in {task, "WAITING_FOR_USER"}
    BY <1>2, <1>t, MovedOrNot DEF Policy, Stop, Go, history, STATES
  <2>2. \A s \in Step : status'[s] = Loaded[s] \/
                        (s = current /\ status'[s] # "COMPLETED")
    BY <1>2, <1>l DEF Policy, Stop
  <2>3. MarkedIsProven'
    BY <1>l, <1>m, <1>t, <2>1, <2>2, MarksStay
  <2>4. BatchIsFree' /\ VerdictIsOfCurrent'
    BY <2>1, PlainNode DEF First
  <2>5. CurrentMayRun'
    BY <1>m, <2>1 DEF CurrentMayRun
  <2>6. CompletionIsProven'
    BY <1>m, <2>1, CompletionStays
  <2> QED
    BY <2>3, <2>4, <2>5, <2>6 DEF Marking
<1>3. CASE Approval
  <2>1. /\ UNCHANGED <<plan, proven, current, status>>
        /\ pc = "approval" /\ pc' \in {"approval_interrupt", "raised"}
        /\ task' \in {task, "WAITING_FOR_APPROVAL", "FAILED"}
    BY <1>3, <1>t, MovedOrNot DEF Approval, Go, history, workflow, STATES
  <2>2. MarkedIsProven'
    BY <1>m, <1>t, <2>1, MarksStay
  <2>3. BatchIsFree' /\ VerdictIsOfCurrent'
    BY <2>1, PlainNode DEF First
  <2>4. CurrentMayRun'
    BY <1>m, <2>1 DEF CurrentMayRun
  <2>5. CompletionIsProven'
    BY <1>m, <2>1, CompletionStays
  <2> QED
    BY <2>2, <2>3, <2>4, <2>5 DEF Marking
<1>4. CASE ExecuteBatch
  <2>1. /\ UNCHANGED <<plan, proven, current>> /\ pc = "execute_batch"
        /\ pc' \in {"branches", "workflow_input"}
        /\ ready' \subseteq ready /\ task' \in {task, "WAITING_FOR_USER"}
    BY <1>4, <1>t, MovedOrNot DEF ExecuteBatch, Go, history, STATES
  <2>2. \A s \in Step :
           /\ status'[s] \notin {"VERIFYING", "COMPLETED"} \/ status'[s] = Loaded[s]
           /\ status'[s] = "WAITING_FOR_APPROVAL" => s \in ready \/ status'[s] = Loaded[s]
    BY <1>4 DEF ExecuteBatch
  <2>3. /\ \A s \in Step : status[s] # "VERIFYING"
        /\ \A s \in Step : status[s] = "COMPLETED" => s \in proven
        /\ \A s \in Step : status[s] = "WAITING_FOR_APPROVAL" => plan.deps[s] = {}
        /\ ready \subseteq {s \in Step : plan.deps[s] = {}}
    BY <1>m, <2>1 DEF BatchIsFree, First
  <2>4. BatchIsFree'
    BY <1>l, <2>1, <2>2, <2>3 DEF BatchIsFree
  <2>5. MarkedIsProven'
    BY <1>l, <2>1, <2>2, <2>3 DEF MarkedIsProven, Done
  <2>6. CurrentMayRun'
    BY <1>m, <2>1 DEF CurrentMayRun
  <2>7. VerdictIsOfCurrent' /\ CompletionIsProven'
    BY <1>m, <2>1, CompletionStays DEF VerdictIsOfCurrent
  <2> QED
    BY <2>4, <2>5, <2>6, <2>7 DEF Marking
<1>5. CASE EndBatch
  <2> DEFINE unasked == {s \in Step : status[s] = "WAITING_FOR_APPROVAL"}
  <2>1. /\ UNCHANGED <<plan, proven, status, task>> /\ pc = "branches"
        /\ pc' \in {"approval", "END", "failed", "next_step"}
    BY <1>5 DEF EndBatch, Go, history, runtime
  <2>2. /\ Done(status) \subseteq proven
        /\ \A s \in unasked : plan.deps[s] = {}
    BY <1>m, <2>1 DEF BatchIsFree, First, Done
  <2>3. MarkedIsProven'
    BY <2>1, <2>2 DEF MarkedIsProven, Done
  <2>4. CurrentMayRun'
    <3> SUFFICES ASSUME pc' = "approval"
                 PROVE  plan'.deps[current'] \subseteq proven'
      BY <2>1 DEF CurrentMayRun
    <3>1. unasked # {} /\ current' = Max(unasked)
      BY <1>5 DEF EndBatch, Go
    <3>2. Max(unasked) \in unasked
      BY <3>1, MaxIsMember
    <3> QED
      BY <2>1, <2>2, <3>1, <3>2
  <2>5. CompletionIsProven'
    <3>1. outcome' = "COMPLETED" => Done(status) = Step
      <4>1. outcome' \in {"WAITING_FOR_APPROVAL", Aggregate(status)}
        BY <1>5 DEF EndBatch
      <4> QED
        BY <4>1, AggregateIsStatus
    <3> QED
      BY <1>m, <1>t, <2>1, <2>2, <3>1, CompletionStays
  <2>6. BatchIsFree' /\ VerdictIsOfCurrent'
    BY <2>1, PlainNode DEF First
  <2> QED
    BY <2>3, <2>4, <2>5, <2>6 DEF Marking
<1>6. CASE Execute
  <2>1. PICK r \in Results(current, grant = current) :
          LET back  == Returned(current, r)
              whole == Whole(current, r, back)
          IN  /\ AfterRun(current, r, whole)
              /\ status' = [back EXCEPT ![current] = Judged(current, r)]
              /\ outcome' = JudgedWhole(current, r, whole)
              /\ current' = CurrentReturned(current, r)
              /\ verdict' = r.verdict
    BY <1>6 DEF Execute
  <2> DEFINE back == Returned(current, r)
             whole == Whole(current, r, back)
  <2>2. /\ r.verdict \in Verdict /\ r.blocked \in BOOLEAN
        /\ r.way # "acted" => r.verdict = "UNKNOWN"
    <3>1. (grant = current) \in BOOLEAN
      OBVIOUS
    <3> QED
      BY <1>t, <3>1, ResultsOfStep
  <2>3. /\ UNCHANGED plan /\ pc = "execute" /\ pc' = "verify"
        /\ proven' = IF r.verdict = "PASS" THEN proven \cup {current} ELSE proven
        /\ task' = "COMPLETED" => task = "COMPLETED" \/ (whole /\ r.verdict = "PASS")
        /\ current' = IF r.blocked THEN N ELSE current
    BY <1>6, <2>1 DEF Execute, Go, AfterRun, CurrentReturned
  <2>4. /\ status'[current] = Judged(current, r)
        /\ \A s \in Step \ {current} :
              status'[s] = IF r.blocked /\ s > current THEN "PENDING" ELSE Loaded[s]
    <3>1. \A s \in Step :
             back[s] = IF r.blocked /\ s > current THEN "PENDING" ELSE Loaded[s]
      BY DEF Returned
    <3>2. back \in [Step -> StepStatus]
      BY <1>l DEF Returned, StepStatus
    <3> QED
      BY <1>t, <2>1, <3>1, <3>2
  <2>5. /\ Judged(current, r) # "COMPLETED"
        /\ r.verdict = "PASS" => Judged(current, r) = "VERIFYING" \/ r.way = "asked"
    BY DEF Judged
  <2>6. MarkedIsProven' /\ VerdictIsOfCurrent'
    <3>1. CASE r.blocked
      <4>1. N \notin Done(status')
        BY <1>t, <2>4, <2>5, <3>1, BoundsAreNat DEF Done, Step
      <4>2. Done(status') \subseteq Done(status)
        BY <1>l, <2>4, <2>5 DEF Done
      <4>3. MarkedIsProven'
        BY <1>m, <2>3, <4>1, <4>2 DEF MarkedIsProven
      <4>4. VerdictIsOfCurrent'
        <5> SUFFICES ASSUME verdict' = "PASS", current' \notin proven'
                     PROVE  current' = N /\ LeftBehind(N)'
          BY DEF VerdictIsOfCurrent
        <5>1. r.verdict = "PASS" /\ current' = N
          BY <2>1, <2>3, <3>1
        <5>2. current # N /\ status'[current] = "VERIFYING"
          BY <2>2, <2>3, <2>4, <2>5, <5>1
        <5> QED
          BY <1>t, <5>1, <5>2 DEF LeftBehind
      <4> QED
        BY <4>3, <4>4
    <3>2. CASE ~ r.blocked
      <4>1. current' = current /\ proven \subseteq proven'
        BY <2>3, <3>2
      <4>2. \A s \in Step \ {current} : status'[s] = Loaded[s]
        BY <2>4, <3>2
      <4>3. MarkedIsProven'
        BY <1>l, <1>m, <2>4, <2>5, <4>1, <4>2, MarksStay
      <4>4. VerdictIsOfCurrent'
        BY <2>1, <2>3, <4>1 DEF VerdictIsOfCurrent
      <4> QED
        BY <4>3, <4>4
    <3> QED
      BY <3>1, <3>2
  <2>7. CompletionIsProven'
    <3>1. whole /\ r.verdict = "PASS" => proven' = Step
      <4> SUFFICES ASSUME whole, r.verdict = "PASS"
                   PROVE  proven' = Step
        OBVIOUS
      <4>1. ~ r.blocked /\ Step \ {current} \subseteq Done(back)
        BY DEF Whole
      <4>2. \A s \in Step : back[s] = Loaded[s]
        BY <4>1 DEF Returned
      <4>3. Step \ {current} \subseteq Done(status)
        BY <1>l, <4>1, <4>2 DEF Done
      <4>4. ~ LeftBehind(current)
        BY <4>3 DEF LeftBehind, Done
      <4>5. Done(status) \subseteq proven
        BY <1>m, <4>4 DEF MarkedIsProven
      <4> QED
        BY <1>t, <2>3, <4>3, <4>5
    <3>2. proven \subseteq proven' /\ pc' # "END"
      BY <2>3
    <3>3. task' = "COMPLETED" => task = "COMPLETED" \/ proven' = Step
      BY <2>3, <3>1
    <3> QED
      BY <1>m, <3>2, <3>3, CompletionStays
  <2>8. BatchIsFree' /\ CurrentMayRun'
    BY <2>3 DEF BatchIsFree, CurrentMayRun, First
  <2> QED
    BY <2>6, <2>7, <2>8 DEF Marking
<1>7. CASE Verify
  <2>1. /\ UNCHANGED <<plan, proven, current, task>> /\ pc = "verify"
        /\ pc' \in {"next_step", "recover", "failed"}
    BY <1>7, <1>t DEF Verify, Stop, Go, runtime, history, TypeOK, Verdict
  <2>2. PICK x \in StepStatus : /\ status' = [Loaded EXCEPT ![current] = x]
                                /\ x = "COMPLETED" => verdict = "PASS"
                                /\ x # "VERIFYING"
    BY <1>7, <1>t DEF Verify, Stop, TypeOK, Verdict, StepStatus
  <2>3. MarkedIsProven'
    <3>1. status'[current] = "COMPLETED" =>
             current \in proven' \/ (current = N /\ LeftBehind(N))
      BY <1>l, <1>m, <1>t, <2>1, <2>2 DEF VerdictIsOfCurrent
    <3> QED
      BY <1>l, <1>m, <1>t, <2>1, <2>2, <3>1, MarksStay
  <2>4. BatchIsFree' /\ VerdictIsOfCurrent' /\ CurrentMayRun'
    BY <2>1, PlainNode DEF First, CurrentMayRun
  <2>5. CompletionIsProven'
    BY <1>m, <2>1, CompletionStays
  <2> QED
    BY <2>3, <2>4, <2>5 DEF Marking
<1>8. CASE Recover
  <2>1. /\ UNCHANGED <<plan, current, task>> /\ proven \subseteq proven'
        /\ pc' \in {"next_step", "failed"}
    BY <1>8 DEF Recover, Stop, Go, runtime
  <2>2. \/ status' = Loaded
        \/ \E x \in StepStatus : /\ status' = [Loaded EXCEPT ![current] = x]
                                 /\ x = "COMPLETED" => current \in proven'
                                 /\ x # "VERIFYING"
    <3>1. CASE Exhausted
      BY <1>8, <3>1 DEF Recover
    <3>2. CASE ~ Exhausted
      BY <1>8, <3>2 DEF Recover, Stop, StepStatus
    <3> QED
      BY <3>1, <3>2
  <2>3. MarkedIsProven'
    <3>1. CASE status' = Loaded
      BY <1>l, <1>m, <1>t, <2>1, <3>1, MarksStay
    <3>2. ASSUME NEW x \in StepStatus,
                 status' = [Loaded EXCEPT ![current] = x],
                 x = "COMPLETED" => current \in proven'
          PROVE  MarkedIsProven'
      <4>1. status'[current] = "COMPLETED" => current \in proven'
        BY <1>l, <1>t, <3>2
      <4> QED
        BY <1>l, <1>m, <1>t, <2>1, <3>2, <4>1, MarksStay
    <3> QED
      BY <2>2, <3>1, <3>2
  <2>4. BatchIsFree' /\ VerdictIsOfCurrent' /\ CurrentMayRun'
    BY <2>1, PlainNode DEF First, CurrentMayRun
  <2>5. CompletionIsProven'
    BY <1>m, <2>1, CompletionStays
  <2> QED
    BY <2>3, <2>4, <2>5 DEF Marking
<1>9. CASE NextStep
  <2>1. /\ UNCHANGED <<plan, proven>> /\ status' = Loaded /\ pc = "next_step"
        /\ pc' \in {"policy", "END", "failed"}
    BY <1>9 DEF NextStep, Go, history
  <2>2. CASE Runnable # {}
    <3>1. current' = Min(Runnable) /\ pc' = "policy" /\ task' = task
      BY <1>9, <2>2 DEF NextStep, Go
    <3>2. current' \in Runnable
      <4>1. Runnable \in SUBSET Step
        BY DEF Runnable
      <4> QED
        BY <2>2, <3>1, <4>1, MinIsMember
    <3>3. status[current'] # "VERIFYING"
      BY <1>l, <3>2 DEF Runnable
    <3>4. MarkedIsProven'
      BY <1>l, <1>m, <2>1, <3>3 DEF MarkedIsProven, LeftBehind, Done
    <3>5. CurrentMayRun'
      <4>1. plan.deps[current'] \subseteq proven \cup {N}
        BY <1>l, <1>m, <3>2 DEF Runnable, MarkedIsProven
      <4>2. plan.deps[current'] \subseteq 1..(current' - 1)
        BY <1>t, WorkflowsAreDecomposed
      <4>3. N \notin 1..(current' - 1)
        <5>1. current' \in 1..N
          BY <1>t DEF Step
        <5>2. \A c \in 1..N : N \notin 1..(c - 1)
          BY BoundsAreNat
        <5> QED
          BY <5>1, <5>2
      <4> QED
        BY <2>1, <4>1, <4>2, <4>3 DEF CurrentMayRun
    <3>6. BatchIsFree' /\ VerdictIsOfCurrent'
      BY <3>1, PlainNode DEF First
    <3>7. CompletionIsProven'
      BY <1>m, <2>1, <3>1, CompletionStays
    <3> QED
      BY <3>4, <3>5, <3>6, <3>7 DEF Marking
  <2>3. CASE Runnable = {}
    <3>1. /\ current' = current /\ outcome' = Aggregate(Loaded)
          /\ pc' \in {"END", "failed"}
          /\ task' = task \/ (outcome' = "COMPLETED" /\ task' = Moved("COMPLETED"))
      BY <1>9, <2>3 DEF NextStep, Go
    <3>2. MarkedIsProven'
      BY <1>l, <1>m, <1>t, <2>1, <3>1, MarksStay
    <3>3. BatchIsFree' /\ VerdictIsOfCurrent' /\ CurrentMayRun'
      BY <3>1, PlainNode DEF First, CurrentMayRun
    <3>4. outcome' = "COMPLETED" => proven' = Step
      BY <1>l, <1>m, <2>1, <3>1, AggregateIsStatus, AllMarkedIsProven
    <3>5. CompletionIsProven'
      BY <1>m, <2>1, <3>1, <3>4, CompletionStays
    <3> QED
      BY <3>2, <3>3, <3>5 DEF Marking
  <2> QED
    BY <2>2, <2>3
<1>10. CASE Failed
  <2>1. /\ UNCHANGED <<plan, proven, current>> /\ status' = Loaded
        /\ pc = "failed" /\ pc' = "END" /\ outcome' # "COMPLETED"
        /\ task' \in {task, "FAILED"}
    BY <1>10, <1>t, MovedOrNot DEF Failed, Go, history, STATES
  <2>2. MarkedIsProven'
    BY <1>l, <1>m, <1>t, <2>1, MarksStay
  <2>3. BatchIsFree' /\ VerdictIsOfCurrent' /\ CurrentMayRun'
    BY <2>1, PlainNode DEF First, CurrentMayRun
  <2>4. CompletionIsProven'
    BY <1>m, <2>1, CompletionStays
  <2> QED
    BY <2>2, <2>3, <2>4 DEF Marking
<1>11. ASSUME NEW s \in Step, Branch(s)
       PROVE  Marking'
  <2>1. PICK r \in Results(s, FALSE), fresh \in BOOLEAN :
          /\ AfterRun(s, r, fresh /\ Whole(s, r, status))
          /\ status' = [status EXCEPT ![s] =
                           IF r.way = "asked" THEN "WAITING_FOR_USER"
                           ELSE IF r.verdict = "PASS" THEN "COMPLETED"
                           ELSE IF r.verdict = "UNKNOWN" THEN "UNKNOWN" ELSE "FAILED"]
    BY <1>11 DEF Branch
  <2>2. /\ UNCHANGED <<plan, pc, current>> /\ pc = "branches" /\ ready' \subseteq ready
        /\ s \in ready
        /\ proven' = IF r.verdict = "PASS" THEN proven \cup {s} ELSE proven
        /\ task' = "COMPLETED" =>
              task = "COMPLETED" \/ (Whole(s, r, status) /\ r.verdict = "PASS")
    BY <1>11, <2>1 DEF Branch, AfterRun
  <2>3. \A t \in Step \ {s} : status'[t] = status[t]
    BY <1>t, <2>1
  <2>4. /\ status'[s] \notin {"VERIFYING", "WAITING_FOR_APPROVAL"}
        /\ status'[s] = "COMPLETED" => s \in proven'
    BY <1>t, <2>1, <2>2
  <2>5. /\ \A t \in Step : status[t] # "VERIFYING"
        /\ \A t \in Step : status[t] = "COMPLETED" => t \in proven
        /\ \A t \in Step : status[t] = "WAITING_FOR_APPROVAL" => plan.deps[t] = {}
        /\ ready \subseteq {t \in Step : plan.deps[t] = {}}
    BY <1>m, <2>2 DEF BatchIsFree, First
  <2>6. BatchIsFree'
    BY <2>2, <2>3, <2>4, <2>5 DEF BatchIsFree
  <2>7. MarkedIsProven'
    BY <2>2, <2>3, <2>4, <2>5 DEF MarkedIsProven, Done
  <2>8. CompletionIsProven'
    <3>1. Whole(s, r, status) /\ r.verdict = "PASS" => proven' = Step
      BY <1>t, <2>2, <2>5 DEF Whole, Done
    <3> QED
      BY <1>m, <2>2, <3>1, CompletionStays
  <2>9. VerdictIsOfCurrent' /\ CurrentMayRun'
    BY <2>2 DEF VerdictIsOfCurrent, CurrentMayRun
  <2> QED
    BY <2>6, <2>7, <2>8, <2>9 DEF Marking
<1>12. CASE Approve
  <2>1. /\ UNCHANGED <<plan, proven, current>> /\ status' = Loaded
        /\ pc = "approval_interrupt" /\ pc' = "execute" /\ task' = "RUNNING"
    BY <1>12 DEF Approve, Go
  <2>2. MarkedIsProven'
    BY <1>l, <1>m, <1>t, <2>1, MarksStay
  <2>3. BatchIsFree' /\ VerdictIsOfCurrent'
    BY <2>1, PlainNode DEF First
  <2>4. CurrentMayRun' /\ CompletionIsProven'
    BY <1>m, <2>1, CompletionStays DEF CurrentMayRun
  <2> QED
    BY <2>2, <2>3, <2>4 DEF Marking
<1>13. CASE Reject \/ CancelTask
  <2>1. UNCHANGED <<plan, proven, current, status, pc, outcome, ready, verdict>>
        /\ task' = "CANCELLED"
    BY <1>13 DEF Reject, CancelTask, workflow, channels, history
  <2>2. CompletionIsProven'
    BY <1>m, <2>1 DEF CompletionIsProven
  <2> QED
    BY <1>m, <2>1, <2>2
    DEF Marking, BatchIsFree, CurrentMayRun, MarkedIsProven, VerdictIsOfCurrent, LeftBehind,
        Done
<1>14. CASE WorkflowInput
  <2>1. /\ UNCHANGED <<plan, proven, current>> /\ status' = [Loaded EXCEPT ![current] = "PENDING"]
        /\ pc = "workflow_input" /\ pc' = "policy" /\ task' \in {task, "RUNNING"}
    BY <1>14, <1>t, MovedOrNot DEF WorkflowInput, Stop, Go, history, STATES
  <2>2. MarkedIsProven'
    BY <1>l, <1>m, <1>t, <2>1, MarksStay
  <2>3. BatchIsFree' /\ VerdictIsOfCurrent'
    BY <2>1, PlainNode DEF First
  <2>4. CurrentMayRun' /\ CompletionIsProven'
    BY <1>m, <2>1, CompletionStays DEF CurrentMayRun
  <2> QED
    BY <2>2, <2>3, <2>4 DEF Marking
<1> QED
  BY <1>0, <1>1, <1>2, <1>3, <1>4, <1>5, <1>6, <1>7, <1>8, <1>9, <1>10, <1>11, <1>12,
     <1>13, <1>14
  DEF Next, Graph, Person

-----------------------------------------------------------------------------
(* The results.                                                            *)

\* In every reachable state the variables are typed, an unspent consent is one
\* more than the runs its step has had, the step at hand may run, and whatever
\* is marked completed without its own verification leaves another step behind
\* that never will be (graph.py and nodes.py, all nodes).
THEOREM Soundness == Spec => []IInv
<1>1. Init => IInv
  <2>1. Init => Spending
    BY DEF Init, Spending, GrantIsFresh, ConsentIsSpentOnce
  <2> QED
    BY <2>1, TypesAtStart, MarkingAtStart DEF IInv, TypesHold, Spending, Marking
<1>2. IInv /\ [Next]_vars => IInv'
  <2> SUFFICES ASSUME IInv, [Next]_vars
               PROVE  IInv'
    OBVIOUS
  <2>1. TypesHold /\ Spending /\ Marking
    BY DEF IInv, TypesHold, Spending, Marking
  <2>2. TypesHold'
    BY <2>1, TypesAreKept
  <2>3. Spending' /\ Marking'
    BY <2>1, <2>2, SpendingIsKept, MarkingIsKept
  <2> QED
    BY <2>2, <2>3 DEF IInv, TypesHold, Spending, Marking
<1> QED
  BY <1>1, <1>2, PTL DEF Spec

\* For every workflow: a step policy wants confirmed runs at most once for every
\* yes to it, and a step policy denies never runs (nodes.py, policy, approval,
\* execute and verify).
THEOREM OneRunPerYes == Spec => []ConsentIsSpentOnce
<1>1. IInv => ConsentIsSpentOnce
  BY DEF IInv
<1> QED
  BY <1>1, Soundness, PTL

\* For every workflow: one that is completed, in the graph or in the durable
\* task, had every step found to hold (scheduler.aggregate, nodes.verify and the
\* session's move of the task).
THEOREM Completion == Spec => []CompletionIsProven
<1>1. IInv => CompletionIsProven
  BY DEF IInv
<1> QED
  BY <1>1, Soundness, PTL

\* For every workflow: a step is executed only after each step it depends on
\* was found to hold by its own verification (nodes.next_step, execute_batch).
THEOREM Prerequisites == Spec => PrerequisitesHold
<1>1. IInv /\ [Next]_vars =>
        [\A s \in Step : runs'[s] > runs[s] => plan.deps[s] \subseteq proven]_vars
  <2> SUFFICES ASSUME IInv, [Next]_vars, NEW s \in Step, runs'[s] > runs[s]
               PROVE  plan.deps[s] \subseteq proven
    OBVIOUS
  <2>1. runs \in [Step -> Nat]
    BY DEF IInv, Typed, TypeOK
  <2>2. runs' # runs
    <3>1. runs[s] \in Nat
      BY <2>1
    <3> QED
      BY <3>1
  <2>3. Execute \/ \E t \in Step : Branch(t)
    BY <2>2
    DEF Next, Graph, Person, vars, history, SelectNextStep, Policy, Approval, ExecuteBatch,
        EndBatch, Verify, Recover, NextStep, Failed, Approve, Reject, WorkflowInput, CancelTask
  <2>4. CASE Execute
    <3>1. PICK r \in Results(current, grant = current) :
            AfterRun(current, r, Whole(current, r, Returned(current, r)))
      BY <2>4 DEF Execute
    <3>2. s = current
      BY <2>1, <2>2, <3>1 DEF AfterRun
    <3>3. pc = "execute"
      BY <2>4 DEF Execute
    <3> QED
      BY <3>2, <3>3 DEF IInv, CurrentMayRun
  <2>5. ASSUME NEW t \in Step, Branch(t)
        PROVE  plan.deps[s] \subseteq proven
    <3>1. PICK r \in Results(t, FALSE), fresh \in BOOLEAN :
            AfterRun(t, r, fresh /\ Whole(t, r, status))
      BY <2>5 DEF Branch
    <3>2. runs' \in {runs, [runs EXCEPT ![t] = @ + 1]}
      BY <3>1 DEF AfterRun
    <3>3. s = t
      <4>1. s # t => runs'[s] = runs[s]
        BY <2>1, <3>2
      <4>2. runs'[s] # runs[s]
        BY <2>1
      <4> QED
        BY <4>1, <4>2
    <3>4. t \in ready /\ pc = "branches"
      BY <2>5 DEF Branch
    <3>5. plan.deps[t] = {}
      BY <3>4 DEF IInv, BatchIsFree, First
    <3> QED
      BY <3>3, <3>5
  <2> QED
    BY <2>3, <2>4, <2>5
<1> QED
  BY <1>1, Soundness, PTL DEF Spec, PrerequisitesHold

=============================================================================
