------------------------------- MODULE Scheduler -------------------------------
(***************************************************************************)
(* agent_control/workflow/scheduler.py: DependencyScheduler.run drives a   *)
(* workflow in rounds.  A round scans the steps for those that are ready,  *)
(* submits a batch of them to a thread pool under exclusive resource       *)
(* locks, joins every one, and aggregates.  The thread that called run     *)
(* does all of this; the pool threads only execute.  Another thread may    *)
(* set cancel_requested at any moment, and another scheduler that was      *)
(* given the same ResourceLockManager takes and releases locks.            *)
(*                                                                         *)
(* Left out: policy_state, to which the code gives only values the scan    *)
(* accepts; the substitution of published data into the parameters of      *)
(* later steps; error texts.                                               *)
(***************************************************************************)
EXTENDS Integers, FiniteSets

CONSTANTS
    N,               \* number of steps
    Resource,        \* resource keys
    Key,             \* names of context values steps may require
    NoResource,
    Free, Outsider,  \* a lock nobody holds, one another scheduler holds
    Restored,        \* the statuses a (persisted) workflow may start with
    Reported,        \* bound: the statuses executors report
    MaxConcurrency,  \* max_concurrency
    MaxRounds,       \* max_rounds
    MaxRecoveries    \* bound: explicit recoveries of one step

\* Steps carry their position; the code scans them in this order.
Step == 1..N

StepStatus == {"PENDING", "READY", "WAITING_RESOURCE", "WAITING_FOR_APPROVAL",
               "WAITING_FOR_USER", "RUNNING", "VERIFYING", "COMPLETED", "FAILED",
               "RECOVERY_REQUIRED", "CANCELLED", "UNKNOWN", "BLOCKED", "RECOVERING"}

WorkflowStatus == {"PENDING", "RUNNING", "WAITING_FOR_APPROVAL",
                   "WAITING_FOR_USER", "COMPLETED", "FAILED",
                   "PARTIAL_FAILURE", "UNKNOWN", "CANCELLED", "BLOCKED",
                   "RECOVERING"}

\* Fault: a step whose outcome is unknown is scanned like one not yet run.
OpenUnknown == {"PENDING", "WAITING_RESOURCE", "READY", "UNKNOWN"}

\* Statuses the scan considers, and those that fail a dependent.
Open == {"PENDING", "WAITING_RESOURCE", "READY"}

Dead == {"FAILED", "UNKNOWN", "BLOCKED", "CANCELLED", "RECOVERY_REQUIRED"}

\* What an executor's answer amounts to; any other answer, and an exception,
\* count as FAILED.
Answers == {"COMPLETED", "UNKNOWN", "RECOVERING", "WAITING_FOR_APPROVAL",
            "WAITING_FOR_USER", "CANCELLED", "FAILED"}

ASSUME BoundsAreNat ==
    /\ N \in Nat
    /\ MaxConcurrency \in Nat \ {0}
    /\ MaxRounds \in Nat
    /\ MaxRecoveries \in Nat

ASSUME NamesAreDistinct ==
    /\ NoResource \notin Resource
    /\ Free \notin Step \cup {Outsider}
    /\ Outsider \notin Step

ASSUME StatusesAreKnown ==
    /\ Restored \subseteq StepStatus \ {"RUNNING"}
    /\ Reported \subseteq Answers

\* The status, whether verification says PASS, and the values it publishes.
Answer == [status : Reported, pass : BOOLEAN, data : SUBSET Key]

NoAnswer == [status |-> "NONE", pass |-> FALSE, data |-> {}]

VARIABLES
    deps, key, needs,  \* dependencies, resource_key, requires_data of each step
    status,            \* step.status
    verified,          \* the steps whose verification verdict is PASS
    published,         \* context.values: which steps published each key
    outcome,           \* workflow.status
    cancel,            \* cancel_requested
    pc,                \* where run is: idle, round, batch or join
    rounds,
    batch,             \* ready steps of this round not yet considered
    futures,           \* steps submitted this round and not yet joined
    thread,            \* the future of each step: none, queued, executing, returned
    answer,            \* what the executor of a returned step answered
    holder,            \* ResourceLockManager: who holds each resource
    runs, allowance    \* history: executions of a step, and how many it was
                       \* allowed: one, and one per explicit recovery

graph == <<deps, key, needs>>
steps == <<status, verified, published>>
main  == <<pc, rounds, batch, futures>>
pool  == <<thread, answer>>
vars  == <<graph, steps, outcome, cancel, main, pool, holder, runs, allowance>>

TypeOK ==
    /\ deps \in [Step -> SUBSET Step]
    /\ key \in [Step -> Resource \cup {NoResource}]
    /\ needs \in [Step -> SUBSET Key]
    /\ status \in [Step -> StepStatus]
    /\ verified \subseteq Step
    /\ published \in [Key -> SUBSET Step]
    /\ outcome \in WorkflowStatus
    /\ cancel \in BOOLEAN
    /\ pc \in {"idle", "round", "batch", "join"}
    /\ rounds \in 0..MaxRounds
    /\ batch \subseteq Step
    /\ futures \subseteq Step
    /\ thread \in [Step -> {"none", "queued", "executing", "returned"}]
    /\ answer \in [Step -> Answer \cup {NoAnswer}]
    /\ holder \in [Resource -> Step \cup {Free, Outsider}]
    /\ runs \in [Step -> Nat]
    /\ allowance \in [Step -> Nat]

\* Workflow.from_actions lets a step depend on earlier steps only.  A restored
\* workflow brings its context values with it.
Init ==
    /\ deps \in {d \in [Step -> SUBSET Step] : \A n \in Step : d[n] \subseteq 1..(n - 1)}
    /\ key \in [Step -> Resource \cup {NoResource}]
    /\ needs \in [Step -> SUBSET Key]
    /\ status \in [Step -> Restored]
    /\ verified = {n \in Step : status[n] = "COMPLETED"}
    /\ published \in [Key -> SUBSET verified]
    /\ outcome = "PENDING"
    /\ cancel = FALSE
    /\ pc = "idle" /\ rounds = 0 /\ batch = {} /\ futures = {}
    /\ thread = [n \in Step |-> "none"]
    /\ answer = [n \in Step |-> NoAnswer]
    /\ holder = [r \in Resource |-> Free]
    /\ runs = [n \in Step |-> 0]
    /\ allowance = [n \in Step |-> IF status[n] \in Open THEN 1 ELSE 0]

-----------------------------------------------------------------------------
(* Eligibility.                                                            *)

\* validate: no step waits for one that was cancelled or blocked.  That the
\* dependencies are known and acyclic holds of every workflow Init admits.
Valid == \A n \in Step : \A d \in deps[n] : status[d] \notin {"CANCELLED", "BLOCKED"}

Completed == {n \in Step : status[n] = "COMPLETED"}

\* Fault: a dependency need only not have failed.
ReadyUnlessFailed ==
    {n \in Step :
        /\ status[n] \in Open
        /\ \A d \in deps[n] : status[d] \notin Dead
        /\ \A k \in needs[n] : published[k] # {}}

\* The list ready_nodes returns.
ReadyNodes ==
    {n \in Step :
        /\ status[n] \in Open
        /\ deps[n] \subseteq Completed
        /\ \A k \in needs[n] : published[k] # {}}

\* Fault: the pass judges by the statuses it found, not by those it has set.
DoomedDirectly ==
    {n \in Step : status[n] \in Open /\ \E d \in deps[n] : status[d] = "FAILED"}

\* The steps ready_nodes blocks: one pass in order, so a step sees those the
\* same pass has blocked before it.
Doomed ==
    LET dead[n \in Step] ==
            \/ status[n] \in Dead
            \/ status[n] \in Open /\ \E d \in deps[n] : dead[d]
    IN  {n \in Step : status[n] \in Open /\ \E d \in deps[n] : dead[d]}

Scanned ==
    [n \in Step |-> IF n \in ReadyNodes THEN "READY"
                    ELSE IF n \in Doomed THEN "BLOCKED"
                    ELSE status[n]]

\* Fault: the aggregate forgets the cancellation.
AggregateUncancelled(st) ==
    IF \A n \in Step : st[n] = "COMPLETED" THEN "COMPLETED"
    ELSE IF \E n \in Step : st[n] \in {"FAILED", "UNKNOWN", "BLOCKED"} THEN "FAILED"
    ELSE "RUNNING"

Aggregate(st) ==
    LET All(s) == \A n \in Step : st[n] = s
        Some(S) == \E n \in Step : st[n] \in S
    IN  IF cancel \/ outcome = "CANCELLED" THEN "CANCELLED"
        ELSE IF All("COMPLETED") THEN "COMPLETED"
        ELSE IF All("CANCELLED") THEN "CANCELLED"
        ELSE IF Some({"UNKNOWN"}) THEN "UNKNOWN"
        ELSE IF Some({"WAITING_FOR_APPROVAL"}) THEN "WAITING_FOR_APPROVAL"
        ELSE IF Some({"WAITING_FOR_USER"}) THEN "WAITING_FOR_USER"
        ELSE IF ~Some({"FAILED", "BLOCKED", "CANCELLED"}) THEN "RUNNING"
        ELSE IF Some({"COMPLETED"}) THEN "PARTIAL_FAILURE" ELSE "FAILED"

Settled == {"COMPLETED", "PARTIAL_FAILURE", "UNKNOWN", "FAILED", "CANCELLED"}

\* The outcome when a scan finds nothing ready.
Verdict ==
    LET result == Aggregate(Scanned)
    IN  IF result = "RUNNING" /\ \E n \in Step : Scanned[n] \in Open
        THEN "BLOCKED" ELSE result

-----------------------------------------------------------------------------
(* The thread that calls run.                                              *)

RoundsLeft == rounds < MaxRounds

Run ==
    /\ pc = "idle"
    /\ Valid
    /\ pc' = "round"
    /\ rounds' = 0
    /\ UNCHANGED <<graph, steps, outcome, cancel, batch, futures, pool, holder, runs, allowance>>

\* WorkflowGraphError: the workflow is left as it is.
RefuseRun ==
    /\ pc = "idle"
    /\ ~Valid
    /\ UNCHANGED vars

CancelRound ==
    /\ pc = "round" /\ RoundsLeft
    /\ cancel \/ outcome = "CANCELLED"
    /\ status' = [n \in Step |->
           IF status[n] = "COMPLETED" THEN "COMPLETED" ELSE "CANCELLED"]
    /\ outcome' = "CANCELLED"
    /\ pc' = "idle"
    /\ rounds' = rounds + 1
    /\ UNCHANGED <<graph, verified, published, cancel, batch, futures, pool, holder, runs, allowance>>

ScanRound ==
    /\ pc = "round" /\ RoundsLeft
    /\ ~cancel /\ outcome # "CANCELLED"
    /\ status' = Scanned
    /\ batch' = ReadyNodes
    /\ rounds' = rounds + 1
    /\ \/ ReadyNodes # {} /\ pc' = "batch" /\ UNCHANGED outcome
       \/ ReadyNodes = {} /\ pc' = "idle" /\ outcome' = Verdict
    /\ UNCHANGED <<graph, verified, published, cancel, futures, pool, holder, runs, allowance>>

\* Out of rounds: run returns the status the workflow happens to have.
GiveUp ==
    /\ pc = "round" /\ ~RoundsLeft
    /\ pc' = "idle"
    /\ UNCHANGED <<graph, steps, outcome, cancel, rounds, batch, futures, pool, holder, runs, allowance>>

\* The step of the batch the loop is at.
Turn(n) ==
    /\ pc = "batch"
    /\ n \in batch
    /\ \A m \in batch : n <= m
    /\ batch' = batch \ {n}

\* Fault: the batch does not ask for the lock before it takes it.
AvailableAlways(n) == key[n] \in Resource \cup {NoResource}

Available(n) == key[n] \in Resource => holder[key[n]] = Free

Full == Cardinality(futures) >= MaxConcurrency

Submit(n) ==
    /\ Turn(n)
    /\ ~Full /\ Available(n)
    /\ holder' = [r \in Resource |-> IF r = key[n] THEN n ELSE holder[r]]
    /\ status' = [status EXCEPT ![n] = "RUNNING"]
    /\ futures' = futures \cup {n}
    /\ thread' = [thread EXCEPT ![n] = "queued"]
    /\ UNCHANGED <<graph, verified, published, outcome, cancel, pc, rounds, answer, runs, allowance>>

Defer(n) ==
    /\ Turn(n)
    /\ Full \/ ~Available(n)
    /\ status' = [status EXCEPT ![n] = "WAITING_RESOURCE"]
    /\ UNCHANGED <<graph, verified, published, outcome, cancel, pc, rounds, futures, pool, holder, runs, allowance>>

\* Fault: a round that starts nothing is not counted.
EndBatchUncounted ==
    /\ pc = "batch" /\ batch = {}
    /\ IF futures = {} THEN pc' = "round" /\ rounds' = rounds - 1
       ELSE pc' = "join" /\ UNCHANGED rounds
    /\ UNCHANGED <<graph, steps, outcome, cancel, batch, futures, pool, holder, runs, allowance>>

\* A batch that started nothing goes straight to the next round.
EndBatch ==
    /\ pc = "batch" /\ batch = {}
    /\ pc' = IF futures = {} THEN "round" ELSE "join"
    /\ UNCHANGED <<graph, steps, outcome, cancel, rounds, batch, futures, pool, holder, runs, allowance>>

\* Only a verified completion publishes.
Publishes(n, k) ==
    answer[n].status = "COMPLETED" /\ answer[n].pass /\ k \in answer[n].data

\* Fault: an executor that fails keeps its lock.
ReleasedOnSuccess(n) ==
    [r \in Resource |->
        IF answer[n].status = "COMPLETED" /\ r = key[n] /\ holder[r] = n
        THEN Free ELSE holder[r]]

\* The locks after step n gives back the one it holds.
Released(n) ==
    [r \in Resource |-> IF r = key[n] /\ holder[r] = n THEN Free ELSE holder[r]]

\* as_completed yields the answers in any order; the lock is released
\* whatever the answer.
Join(n) ==
    /\ pc = "join"
    /\ n \in futures
    /\ thread[n] = "returned"
    /\ status' = [status EXCEPT ![n] = answer[n].status]
    /\ verified' = IF answer[n].pass THEN verified \cup {n} ELSE verified \ {n}
    /\ published' = [k \in Key |->
           IF Publishes(n, k) THEN published[k] \cup {n} ELSE published[k]]
    /\ holder' = Released(n)
    /\ futures' = futures \ {n}
    /\ thread' = [thread EXCEPT ![n] = "none"]
    /\ answer' = [answer EXCEPT ![n] = NoAnswer]
    /\ UNCHANGED <<graph, outcome, cancel, pc, rounds, batch, runs, allowance>>

\* The batch is joined: stop unless a branch is still open.
EndRound ==
    /\ pc = "join" /\ futures = {}
    /\ outcome' = Aggregate(status)
    /\ pc' = IF outcome' \in Settled /\ \A n \in Step : status[n] \notin Open
             THEN "idle" ELSE "round"
    /\ UNCHANGED <<graph, steps, cancel, rounds, batch, futures, pool, holder, runs, allowance>>

-----------------------------------------------------------------------------
(* The pool threads, and everybody else.                                   *)

Begin(n) ==
    /\ thread[n] = "queued"
    /\ thread' = [thread EXCEPT ![n] = "executing"]
    /\ runs' = [runs EXCEPT ![n] = @ + 1]
    /\ UNCHANGED <<graph, steps, outcome, cancel, main, answer, holder, allowance>>

Finish(n) ==
    /\ thread[n] = "executing"
    /\ \E a \in Answer :
           /\ a.status # "COMPLETED" => ~a.pass /\ a.data = {}
           /\ answer' = [answer EXCEPT ![n] = a]
    /\ thread' = [thread EXCEPT ![n] = "returned"]
    /\ UNCHANGED <<graph, steps, outcome, cancel, main, holder, runs, allowance>>

RequestCancel ==
    /\ ~cancel
    /\ cancel' = TRUE
    /\ UNCHANGED <<graph, steps, outcome, main, pool, holder, runs, allowance>>

\* recover_failed_node, called between runs.
RecoverFailedNode(n) ==
    /\ pc = "idle"
    /\ status[n] \in {"FAILED", "UNKNOWN", "RECOVERY_REQUIRED"}
    /\ allowance[n] <= MaxRecoveries
    /\ status' = [status EXCEPT ![n] = "READY"]
    /\ allowance' = [allowance EXCEPT ![n] = @ + 1]
    /\ UNCHANGED <<graph, verified, published, outcome, cancel, main, pool, holder, runs>>

OutsiderTakes(r) ==
    /\ holder[r] = Free
    /\ holder' = [holder EXCEPT ![r] = Outsider]
    /\ UNCHANGED <<graph, steps, outcome, cancel, main, pool, runs, allowance>>

OutsiderReleases(r) ==
    /\ holder[r] = Outsider
    /\ holder' = [holder EXCEPT ![r] = Free]
    /\ UNCHANGED <<graph, steps, outcome, cancel, main, pool, runs, allowance>>

-----------------------------------------------------------------------------
MainStep ==
    \/ CancelRound \/ ScanRound \/ GiveUp
    \/ \E n \in Step : Submit(n) \/ Defer(n)
    \/ EndBatch
    \/ \E n \in Step : Join(n)
    \/ EndRound

Execute(n) == Begin(n) \/ Finish(n)

Next ==
    \/ Run \/ RefuseRun
    \/ MainStep
    \/ \E n \in Step : Execute(n) \/ RecoverFailedNode(n)
    \/ RequestCancel
    \/ \E r \in Resource : OutsiderTakes(r) \/ OutsiderReleases(r)

Spec == Init /\ [][Next]_vars

\* The calling thread and the pool threads run, and an executor returns (run
\* itself waits for it without a limit).  Nobody has to call run, cancel, or
\* give a lock back.
FairSpec ==
    /\ Spec
    /\ WF_vars(MainStep)
    /\ \A n \in Step : WF_vars(Execute(n))

-----------------------------------------------------------------------------
(* Safety.                                                                 *)

Executing == {n \in Step : thread[n] = "executing"}

\* A step executes only while it holds its resource and everything it depends
\* on is completed, and never beside more steps than max_concurrency.
ExecutionIsGuarded ==
    /\ \A n \in Executing :
           /\ \A d \in deps[n] : status[d] = "COMPLETED"
           /\ key[n] # NoResource => holder[key[n]] = n
    /\ Cardinality(Executing) <= MaxConcurrency

\* The values an executing step requires come from completed, verified steps.
DataIsVerified ==
    \A n \in Executing : \A k \in needs[n] :
        /\ published[k] # {}
        /\ published[k] \subseteq verified \cap Completed

\* No step is executed twice on the strength of one request or recovery,
\* whatever is deferred, cancelled, joined late or run again.
NothingIsReplayed == \A n \in Step : runs[n] <= allowance[n]

\* When run has returned, nothing it started is still active, and no lock of
\* the shared manager is left with it: exceptions and cancellation included.
NothingIsLeftBehind ==
    pc = "idle" =>
        /\ \A n \in Step : thread[n] = "none" /\ status[n] # "RUNNING"
        /\ \A r \in Resource : holder[r] \in {Free, Outsider}

\* A run that ends before its rounds are used up leaves no open step behind a
\* prerequisite that failed, however long the chain between them.
FailureReachesDependents ==
    pc = "idle" /\ outcome # "PENDING" /\ rounds < MaxRounds =>
        \A n \in Step : status[n] \in Open =>
            \A d \in deps[n] : status[d] \notin Dead

\* The detailed scheduler does what DagExecution promises.
Dag == INSTANCE DagExecution WITH
    active <- {n \in Step : thread[n] # "none"},
    done <- Completed

RunsAsDag == Dag!Spec

-----------------------------------------------------------------------------
(* Liveness, under FairSpec.                                               *)

\* A run that was asked to cancel ends cancelled, unless it is out of rounds.
CancelTakesEffect ==
    (cancel /\ pc # "idle") ~> (pc = "idle" /\ (outcome = "CANCELLED" \/ rounds = MaxRounds))

\* Every run ends, also when another scheduler never gives a lock back.
RunEnds == pc # "idle" ~> pc = "idle"

=============================================================================
