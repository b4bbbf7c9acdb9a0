----------------------------- MODULE WorkflowGraph -----------------------------
(***************************************************************************)
(* agent_control/workflow/graph.py and nodes.py: the graph that takes one  *)
(* workflow from selection to its end, one action per node, together with  *)
(* what the nodes reach: the run of a single step by the runner, the       *)
(* durable task and approval of the RuntimeManager, and the person who     *)
(* approves, refuses, answers or cancels.                                  *)
(*                                                                         *)
(* The thread that invoked the graph runs its nodes one after another.     *)
(* It stops at an interrupt, where the checkpoint is durable, and whoever  *)
(* answers runs the interrupted node again from its first line.            *)
(*                                                                         *)
(* Left out: load_workflow, decompose and observe, which change nothing    *)
(* kept here; cancel_requested, which nothing outside the tests sets; the  *)
(* resumption of an approval with False, which the session never performs; *)
(* an interrupted process, whose workflow nobody resumes; contents.        *)
(***************************************************************************)
EXTENDS Naturals, FiniteSets, FiniteSetsExt, TaskStates

CONSTANTS
    N,                   \* number of steps
    Resource,
    NoResource,
    Workflows,           \* bound: the workflows the decomposer hands over
    MaxStepRetries,      \* WorkflowStep.max_step_retries
    MaxRecoveryAttempts  \* Workflow.max_recovery_attempts

Step == 1..N

Verdict == {"PASS", "FAIL", "UNKNOWN"}

StepStatus == {"PENDING", "READY", "WAITING_RESOURCE", "WAITING_FOR_APPROVAL",
               "WAITING_FOR_USER", "RUNNING", "VERIFYING", "COMPLETED", "FAILED",
               "RECOVERY_REQUIRED", "CANCELLED", "UNKNOWN", "BLOCKED", "RECOVERING"}

WorkflowStatus == {"PENDING", "RUNNING", "WAITING_FOR_APPROVAL",
                   "WAITING_FOR_USER", "RECOVERING", "COMPLETED", "FAILED",
                   "PARTIAL_FAILURE", "UNKNOWN", "BLOCKED", "CANCELLED"}

\* The nodes, the two places where the graph is suspended on a person, the
\* join of a batch, and the two ways an invocation is over.
Node == {"select_next_step", "policy", "approval", "approval_interrupt",
         "workflow_input", "execute_batch", "branches", "execute", "verify",
         "recover", "next_step", "failed", "END", "raised"}

Suspended == {"approval_interrupt", "workflow_input"}

\* A decomposed workflow: what each step depends on and locks, what policy
\* says of it, how safely it repeats, and how many parameters it lacks.
Decomposed ==
    [deps : [Step -> SUBSET Step], key : [Step -> Resource \cup {NoResource}],
     gate : [Step -> {"ALLOW", "CONFIRM", "DENY"}],
     safety : [Step -> {"SAFE_TO_RETRY", "REOBSERVE_FIRST", "ASK_USER"}],
     missing : [Step -> 0..2]]

ASSUME BoundsAreNat ==
    N \in Nat \ {0} /\ MaxStepRetries \in Nat /\ MaxRecoveryAttempts \in Nat

ASSUME NoResourceIsNone == NoResource \notin Resource

\* infer_dependencies lets a step depend on earlier steps only.
ASSUME WorkflowsAreDecomposed ==
    /\ Workflows \subseteq Decomposed
    /\ \A w \in Workflows : \A s \in Step : w.deps[s] \subseteq 1..(s - 1)

VARIABLES
    plan,        \* the decomposed workflow
    missing,     \* how many parameters the action of a step still lacks
    pc,          \* the node about to run
    outcome,     \* workflow.status
    current,     \* workflow.current_step
    status,      \* step.status, as serialized between nodes
    approved,    \* the steps whose policy_state is APPROVED
    attempts,    \* step.attempt_count
    recoveries,  \* workflow.recovery_attempts
    ready,       \* ready_step_ids, then the branches not yet joined
    grant,       \* approved_action: the step it belongs to, or 0
    verdict,     \* the verdict in step_verification
    task,        \* RuntimeManager: the state of the workflow's task
    owner,       \* RuntimeManager: the step of the pending approval, or 0
    asked,       \* the step the persisted workflow shows waiting for a value, or 0
    runs, grants, proven  \* history: times a step was executed and granted,
                          \* and the steps found to hold by their own verification

workflow == <<outcome, current, status, approved, attempts, recoveries>>
channels == <<ready, grant, verdict>>
runtime  == <<task, owner, asked>>
history  == <<runs, grants, proven>>
vars == <<plan, missing, pc, workflow, channels, runtime, history>>

TypeOK ==
    /\ plan \in Decomposed
    /\ missing \in [Step -> 0..2]
    /\ pc \in Node
    /\ outcome \in WorkflowStatus
    /\ current \in Step
    /\ status \in [Step -> StepStatus]
    /\ approved \subseteq Step
    /\ attempts \in [Step -> Nat]
    /\ recoveries \in 0..MaxRecoveryAttempts
    /\ ready \subseteq Step
    /\ grant \in 0..N
    /\ verdict \in Verdict
    /\ task \in STATES
    /\ owner \in 0..N
    /\ asked \in 0..N
    /\ runs \in [Step -> Nat]
    /\ grants \in [Step -> Nat]
    /\ proven \subseteq Step

\* _start_workflow has made the task RUNNING; load_workflow and decompose ran.
Init ==
    /\ plan \in Workflows
    /\ missing = plan.missing
    /\ pc = "select_next_step"
    /\ outcome = "RUNNING"
    /\ current = 1
    /\ status = [s \in Step |-> "PENDING"]
    /\ approved = {}
    /\ attempts = [s \in Step |-> 0]
    /\ recoveries = 0
    /\ ready = {} /\ grant = 0 /\ verdict = "UNKNOWN"
    /\ task = "RUNNING" /\ owner = 0 /\ asked = 0
    /\ runs = [s \in Step |-> 0]
    /\ grants = [s \in Step |-> 0]
    /\ proven = {}

-----------------------------------------------------------------------------
(* What every node uses.                                                   *)

\* Workflow.from_json, with which every node begins, rewrites two statuses.
Loaded ==
    [s \in Step |-> CASE status[s] = "UNKNOWN" -> "RECOVERY_REQUIRED"
                      [] status[s] = "BLOCKED" -> "PENDING"
                      [] OTHER -> status[s]]

Done(st) == {s \in Step : st[s] = "COMPLETED"}

\* DependencyScheduler.aggregate, of a workflow nobody cancelled.
Aggregate(st) ==
    LET Some(S) == \E s \in Step : st[s] \in S
    IN  IF Done(st) = Step THEN "COMPLETED"
        ELSE IF \A s \in Step : st[s] = "CANCELLED" THEN "CANCELLED"
        ELSE IF Some({"UNKNOWN"}) THEN "UNKNOWN"
        ELSE IF Some({"WAITING_FOR_APPROVAL"}) THEN "WAITING_FOR_APPROVAL"
        ELSE IF Some({"WAITING_FOR_USER"}) THEN "WAITING_FOR_USER"
        ELSE IF ~Some({"FAILED", "BLOCKED", "CANCELLED"}) THEN "RUNNING"
        ELSE IF Done(st) # {} THEN "PARTIAL_FAILURE" ELSE "FAILED"

\* _runtime_transition: a transition the table refuses is only journalled.
Moved(state) == IF Reaches(task, state) THEN state ELSE task

Go(node) == pc' = node

-----------------------------------------------------------------------------
(* The run of one step.                                                    *)

\* How the runner may come back: asked for a missing consent; unstarted,
\* refused before the action; acted; raised, an exception on the way out.  It
\* is blocked when it ended on a failed action.  Only a PASS of the final
\* verification makes the result ok, and it is asked for even after a failure.
\* known: the failure is of a category that execute takes for final.
Results(s, granted) ==
    IF plan.gate[s] = "CONFIRM" /\ ~granted
    THEN [way : {"asked"}, blocked : {FALSE}, verdict : {"UNKNOWN"}, known : {FALSE}]
    ELSE IF plan.gate[s] = "DENY"
    THEN [way : {"unstarted"}, blocked : {TRUE}, verdict : {"UNKNOWN"}, known : {TRUE}]
    ELSE [way : {"acted"}, blocked : BOOLEAN, verdict : {"PASS"}, known : {FALSE}]
       \cup [way : {"acted"}, blocked : BOOLEAN, verdict : {"FAIL", "UNKNOWN"}, known : BOOLEAN]
       \cup [way : {"unstarted"}, blocked : BOOLEAN, verdict : {"UNKNOWN"}, known : BOOLEAN]
       \cup [way : {"raised"}, blocked : {FALSE}, verdict : {"UNKNOWN"}, known : BOOLEAN]

\* The workflow the runner returns: a failed action has made every later step,
\* whatever it was, pending again, and the last step the current one.
Returned(s, r) ==
    [t \in Step |-> IF r.blocked /\ t > s THEN "PENDING" ELSE Loaded[t]]

CurrentReturned(s, r) == IF r.blocked THEN N ELSE s

\* Fault: a child that passed is taken for the whole workflow.
WholeOfOne(s, r, st) == r.way = "acted" /\ ~r.blocked

\* The copy of the workflow the runner had ended with every step completed.
Whole(s, r, st) ==
    r.way = "acted" /\ ~r.blocked /\ Step \ {s} \subseteq Done(st)

\* What the run leaves of the task: the session moves it once the runner is
\* back.
AfterRun(s, r, whole) ==
    /\ task' = IF task \in TERMINAL THEN task
               ELSE IF r.way = "asked" THEN "WAITING_FOR_APPROVAL"
               ELSE IF r.verdict # "PASS" THEN "FAILED"
               ELSE IF whole THEN "COMPLETED" ELSE "RUNNING"
    /\ owner' = IF r.way = "asked" /\ task \notin TERMINAL THEN s ELSE owner
    /\ runs' = IF r.way \in {"acted", "raised"} THEN [runs EXCEPT ![s] = @ + 1] ELSE runs
    /\ proven' = IF r.verdict = "PASS" THEN proven \cup {s} ELSE proven
    /\ attempts' = [attempts EXCEPT ![s] = @ + 1]
    /\ UNCHANGED <<asked, grants>>

CanRetry(s) == plan.safety[s] \in {"SAFE_TO_RETRY", "REOBSERVE_FIRST"}

Judged(s, r) ==
    IF r.way = "asked" THEN "WAITING_FOR_APPROVAL"
    ELSE IF r.verdict = "PASS" THEN "VERIFYING"
    ELSE IF r.known THEN "FAILED"
    ELSE IF r.verdict = "UNKNOWN" \/ CanRetry(s) THEN "RECOVERY_REQUIRED"
    ELSE "UNKNOWN"

\* workflow.status after the run: of a PASS the runner's, else what the step is.
JudgedWhole(s, r, whole) ==
    LET step == Judged(s, r)
    IN  IF r.way = "asked" THEN "WAITING_FOR_USER"
        ELSE IF step = "RECOVERY_REQUIRED" THEN "RECOVERING"
        ELSE IF step # "VERIFYING" THEN step
        ELSE IF whole THEN "COMPLETED"
        ELSE IF r.blocked THEN "FAILED" ELSE "RUNNING"

-----------------------------------------------------------------------------
(* The nodes.                                                              *)

\* Every step of a fresh workflow is pending, so the first one is ready.
SelectNextStep ==
    LET free == {s \in Step : plan.deps[s] = {}}
    IN  /\ pc = "select_next_step"
        /\ status' = [s \in Step |-> IF s \in free THEN "READY" ELSE Loaded[s]]
        /\ current' = Min(free)
        /\ outcome' = "RUNNING"
        /\ ready' = free
        /\ Go(IF Cardinality(free) > 1 THEN "execute_batch" ELSE "policy")
        /\ UNCHANGED <<plan, missing, approved, attempts, recoveries, grant,
                       verdict, runtime, history>>

\* What the policy node makes of the current step.
Stand ==
    IF current \in approved THEN "ALLOW"
    ELSE IF missing[current] > 0 THEN "INPUT" ELSE plan.gate[current]

Stop(step, whole, node) ==
    /\ status' = [Loaded EXCEPT ![current] = step]
    /\ outcome' = whole
    /\ Go(node)

Policy ==
    /\ pc = "policy"
    /\ \/ Stand = "ALLOW" /\ Go("execute") /\ status' = Loaded
          /\ UNCHANGED <<outcome, task, asked>>
       \/ Stand = "CONFIRM"
          /\ Stop("WAITING_FOR_APPROVAL", "WAITING_FOR_APPROVAL", "approval")
          /\ UNCHANGED <<task, asked>>
       \/ Stand = "DENY" /\ Stop("FAILED", "FAILED", "failed")
          /\ UNCHANGED <<task, asked>>
       \/ Stand = "INPUT"
          /\ Stop("WAITING_FOR_USER", "WAITING_FOR_USER", "workflow_input")
          /\ task' = Moved("WAITING_FOR_USER")
          /\ asked' = current
    /\ UNCHANGED <<plan, missing, current, approved, attempts, recoveries,
                   channels, owner, history>>

\* The first pass of the approval node, up to the interrupt.  A task already
\* waiting must wait for this very step; one that can no longer be made to
\* wait makes request_approval raise.  What raises out of the first invocation
\* fails the task, what raises out of a later one does not.
Approval ==
    /\ pc = "approval"
    /\ IF IF task = "WAITING_FOR_APPROVAL" THEN owner = current
          ELSE Reaches(task, "WAITING_FOR_APPROVAL")
       THEN task' = "WAITING_FOR_APPROVAL" /\ owner' = current /\ Go("approval_interrupt")
       ELSE task' \in {task, Moved("FAILED")} /\ UNCHANGED owner /\ Go("raised")
    /\ UNCHANGED <<plan, missing, workflow, channels, asked, history>>

\* The task waits for an answer on exactly the interrupted step.
Owned == task = "WAITING_FOR_APPROVAL" /\ owner = current

\* A yes: the node runs again, finds the approval its own and consumes it.
\* On any other task it raises before changing anything.
Approve ==
    /\ pc = "approval_interrupt"
    /\ Owned
    /\ task' = "RUNNING" /\ owner' = 0
    /\ approved' = approved \cup {current}
    /\ grant' = current
    /\ grants' = [grants EXCEPT ![current] = @ + 1]
    /\ status' = Loaded
    /\ Go("execute")
    /\ UNCHANGED <<plan, missing, outcome, current, attempts, recoveries, ready,
                   verdict, asked, runs, proven>>

\* A no settles the durable approval; the graph is left where it is.
Reject ==
    /\ pc = "approval_interrupt"
    /\ Owned
    /\ task' = "CANCELLED" /\ owner' = 0
    /\ UNCHANGED <<plan, missing, pc, workflow, channels, asked, history>>

\* Fault: the answer is consumed and not stored in the parameters.
WorkflowInputUnstored ==
    /\ pc = "workflow_input"
    /\ asked = current
    /\ Stop("PENDING", "RUNNING", "policy")
    /\ task' = Moved("RUNNING")
    /\ asked' = 0
    /\ UNCHANGED <<plan, missing, current, approved, attempts, recoveries,
                   channels, owner, history>>

\* The session accepts a value only for the step the persisted workflow shows
\* both waiting and current.
WorkflowInput ==
    /\ pc = "workflow_input"
    /\ asked = current
    /\ missing' = [missing EXCEPT ![current] = @ - 1]
    /\ Stop("PENDING", "RUNNING", "policy")
    /\ task' = Moved("RUNNING")
    /\ asked' = 0
    /\ UNCHANGED <<plan, current, approved, attempts, recoveries, channels,
                   owner, history>>

\* The policy pass over the ready steps: the first that lacks a parameter ends
\* the node; what was settled before it stays settled.
ExecuteBatch ==
    LET lacking == {s \in ready : missing[s] > 0}
        seen    == IF lacking = {} THEN ready ELSE {s \in ready : s < Min(lacking)}
        allowed == {s \in seen : plan.gate[s] = "ALLOW"}
        taken   == {s \in allowed : \E t \in allowed :
                        t < s /\ plan.key[t] = plan.key[s] /\ plan.key[s] # NoResource}
        Sorted(s) ==
            CASE s \in lacking /\ s = Min(lacking) -> "WAITING_FOR_USER"
              [] s \in seen /\ plan.gate[s] = "CONFIRM" -> "WAITING_FOR_APPROVAL"
              [] s \in seen /\ plan.gate[s] = "DENY" -> "FAILED"
              [] lacking = {} /\ s \in taken -> "WAITING_RESOURCE"
              [] lacking = {} /\ s \in allowed \ taken -> "RUNNING"
              [] OTHER -> Loaded[s]
    IN  /\ pc = "execute_batch"
        /\ status' = [s \in Step |-> Sorted(s)]
        /\ IF lacking = {}
           THEN ready' = allowed \ taken /\ Go("branches") /\ UNCHANGED <<outcome, task>>
           ELSE /\ Go("workflow_input")
                /\ outcome' = "WAITING_FOR_USER"
                /\ task' = Moved("WAITING_FOR_USER")
                /\ UNCHANGED ready
        /\ UNCHANGED <<plan, missing, current, approved, attempts, recoveries,
                       grant, verdict, owner, asked, history>>

\* One branch runs and its future is joined, in any order.  The copy of the
\* workflow it was given may or may not show the others completed.
Branch(s) ==
    /\ pc = "branches"
    /\ s \in ready
    /\ \E r \in Results(s, FALSE), fresh \in BOOLEAN :
          /\ AfterRun(s, r, fresh /\ Whole(s, r, status))
          /\ status' = [status EXCEPT ![s] =
                           IF r.way = "asked" THEN "WAITING_FOR_USER"
                           ELSE IF r.verdict = "PASS" THEN "COMPLETED"
                           ELSE IF r.verdict = "UNKNOWN" THEN "UNKNOWN" ELSE "FAILED"]
    /\ ready' = ready \ {s}
    /\ UNCHANGED <<plan, missing, pc, outcome, current, approved, recoveries,
                   grant, verdict>>

\* route_after_batch sends a workflow the batch has completed straight to END.
EndBatch ==
    LET unasked == {s \in Step : status[s] = "WAITING_FOR_APPROVAL"}
        result  == Aggregate(status)
    IN  /\ pc = "branches"
        /\ ready = {}
        /\ IF unasked # {}
           THEN /\ current' = Max(unasked)
                /\ outcome' = "WAITING_FOR_APPROVAL"
                /\ Go("approval")
           ELSE /\ UNCHANGED current
                /\ outcome' = result
                /\ Go(IF result = "COMPLETED" THEN "END"
                      ELSE IF result \in {"FAILED", "PARTIAL_FAILURE", "UNKNOWN"}
                      THEN "failed" ELSE "next_step")
        /\ UNCHANGED <<plan, missing, status, approved, attempts, recoveries,
                       channels, runtime, history>>

Execute ==
    /\ pc = "execute"
    /\ \E r \in Results(current, grant = current) :
          LET back  == Returned(current, r)
              whole == Whole(current, r, back)
          IN  /\ AfterRun(current, r, whole)
              /\ status' = [back EXCEPT ![current] = Judged(current, r)]
              /\ outcome' = JudgedWhole(current, r, whole)
              /\ current' = CurrentReturned(current, r)
              /\ verdict' = r.verdict
    /\ Go("verify")
    /\ UNCHANGED <<plan, missing, approved, recoveries, ready, grant>>

\* Fault: the consent outlives the verification of what it was given for.
VerifyKeepsGrant ==
    /\ pc = "verify"
    /\ CASE verdict = "PASS" -> Stop("COMPLETED", "RUNNING", "next_step")
         [] verdict = "UNKNOWN" -> Stop("RECOVERY_REQUIRED", "RECOVERING", "recover")
         [] OTHER -> Stop("FAILED", "FAILED", "failed")
    /\ UNCHANGED <<plan, missing, current, approved, attempts, recoveries, ready,
                   grant, verdict, runtime, history>>

\* The verdict is written on the step that is current by now.
Verify ==
    /\ pc = "verify"
    /\ CASE verdict = "PASS" -> Stop("COMPLETED", "RUNNING", "next_step")
         [] verdict = "UNKNOWN" -> Stop("RECOVERY_REQUIRED", "RECOVERING", "recover")
         [] OTHER -> Stop("FAILED", "FAILED", "failed")
    /\ grant' = 0
    /\ UNCHANGED <<plan, missing, current, approved, attempts, recoveries, ready,
                   verdict, runtime, history>>

Exhausted ==
    attempts[current] > MaxStepRetries \/ recoveries >= MaxRecoveryAttempts

\* Reached after an inconclusive verdict only, so recovery always observes
\* again and asks the step's own verifier before anything else.
Recover ==
    /\ pc = "recover"
    /\ IF Exhausted
       THEN /\ outcome' = "UNKNOWN" /\ status' = Loaded /\ Go("failed")
            /\ UNCHANGED <<recoveries, proven>>
       ELSE /\ recoveries' = recoveries + 1
            /\ \E fresh \in Verdict :
                 /\ CASE fresh = "PASS" ->
                           Stop("COMPLETED", Aggregate([Loaded EXCEPT ![current] = "COMPLETED"]),
                                "next_step")
                      [] fresh = "FAIL" /\ plan.safety[current] = "SAFE_TO_RETRY" ->
                           Stop("READY", outcome, "next_step")
                      [] OTHER -> Stop("UNKNOWN", "UNKNOWN", "failed")
                 /\ proven' = IF fresh = "PASS" THEN proven \cup {current} ELSE proven
    /\ UNCHANGED <<plan, missing, current, approved, attempts, channels, runtime,
                   runs, grants>>

\* Fault: the next pending step, whatever it depends on.
RunnableInOrder == {s \in Step : Loaded[s] = "PENDING"}

Runnable ==
    {s \in Step : Loaded[s] = "PENDING" /\ plan.deps[s] \subseteq Done(Loaded)}

NextStep ==
    /\ pc = "next_step"
    /\ IF Runnable # {}
       THEN /\ current' = Min(Runnable) /\ outcome' = "RUNNING" /\ Go("policy")
            /\ UNCHANGED task
       ELSE /\ UNCHANGED current
            /\ outcome' = Aggregate(Loaded)
            /\ IF outcome' = "COMPLETED"
               THEN task' = Moved("COMPLETED") /\ Go("END")
               ELSE UNCHANGED task /\ Go("failed")
    /\ status' = Loaded
    /\ UNCHANGED <<plan, missing, approved, attempts, recoveries, channels, owner,
                   asked, history>>

\* emit_workflow_event moves the task on WORKFLOW_FAILED, not on the event of
\* a partial completion or a cancellation.
Failed ==
    /\ pc = "failed"
    /\ outcome' = IF outcome \in {"FAILED", "PARTIAL_FAILURE", "UNKNOWN", "CANCELLED"}
                  THEN outcome ELSE "FAILED"
    /\ task' = IF outcome' \in {"FAILED", "UNKNOWN"} THEN Moved("FAILED") ELSE task
    /\ status' = Loaded
    /\ Go("END")
    /\ UNCHANGED <<plan, missing, current, approved, attempts, recoveries, channels,
                   owner, asked, history>>

\* Session's cancel command, from another thread or while the graph waits.
CancelTask ==
    /\ Reaches(task, "CANCELLED")
    /\ task \notin TERMINAL
    /\ task' = "CANCELLED" /\ owner' = 0
    /\ UNCHANGED <<plan, missing, pc, workflow, channels, asked, history>>

Graph ==
    \/ SelectNextStep \/ Policy \/ Approval \/ ExecuteBatch \/ EndBatch
    \/ Execute \/ Verify \/ Recover \/ NextStep \/ Failed
    \/ \E s \in Step : Branch(s)

Person == Approve \/ Reject \/ WorkflowInput \/ CancelTask

Next == Graph \/ Person

Spec == Init /\ [][Next]_vars

FairSpec == Spec /\ WF_vars(Graph)

-----------------------------------------------------------------------------
(* Properties.                                                             *)

\* A step that policy wants confirmed is executed at most once for every yes
\* a person gave to that step, however often the graph comes back to it: the
\* consent the policy node remembers (policy_state) lets it skip the question,
\* and only the grant, gone once verify has run, makes the runner act.  What
\* policy denies is never executed.
ConsentIsSpentOnce ==
    \A s \in Step :
        /\ plan.gate[s] = "CONFIRM" => runs[s] <= grants[s]
        /\ plan.gate[s] = "DENY" => runs[s] = 0

\* No step is executed before every step it depends on was found to hold by
\* that step's own verification, though verdicts travel in a channel of the
\* graph and the step they are written on may have changed underneath.
PrerequisitesHold ==
    [][\A s \in Step : runs'[s] > runs[s] => plan.deps[s] \subseteq proven]_vars

\* A completed workflow, in the graph or in the durable task, is one whose
\* every step was found to hold.
CompletionIsProven ==
    (pc = "END" /\ outcome = "COMPLETED") \/ task = "COMPLETED" => proven = Step

\* Every invocation of the graph ends, or stops where a person must answer.
EveryRunSettles == <>[](pc \in {"END", "raised"} \cup Suspended)

=============================================================================
