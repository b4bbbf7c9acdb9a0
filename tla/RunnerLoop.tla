------------------------------- MODULE RunnerLoop -------------------------------
(***************************************************************************)
(* agent_control/runner.py, recovery.py, the ledger of general_task.py and *)
(* the status of api.py: one run of a request.  The planner proposes       *)
(* batches of actions; each is checked for freshness, permitted, executed, *)
(* verified and, on failure, recovered from within a budget that belongs   *)
(* to the whole run.  A run of a single known action (the fast path) does  *)
(* without the planner.                                                    *)
(*                                                                         *)
(* The world is the set of effects that hold.  Others may undo an effect   *)
(* at any time.  An execution that reports a failure may have had its      *)
(* effect, and a verifier may fail to see what is there; a PASS is true    *)
(* when it is read.                                                        *)
(*                                                                         *)
(* Every action is consequential and checked for freshness, the defaults   *)
(* of the program.  Left out: loop.replan, which only labels the trace;    *)
(* the deferred verification of a skill, which no verifier of the          *)
(* repository reports; retry_safety NEVER, treated like ASK_USER; teardown.*)
(***************************************************************************)
EXTENDS Naturals, Sequences, FiniteSets

CONSTANTS
    Cases,                \* bound: the requests, see CasesAreRequests
    MaxBatch,             \* bound: actions in a planner step
    MaxSteps,             \* RunConfig.max_steps
    MaxAttempts,          \* attempts per action: max_step_retries + 1, at most 4
    MaxRetries, MaxReobserves, MaxReplans, MaxRecoveryAttempts  \* RecoveryBudget

ASSUME LimitsAreNat ==
    /\ MaxBatch \in Nat \ {0} /\ MaxSteps \in Nat \ {0} /\ MaxAttempts \in 1..4
    /\ MaxRetries \in Nat /\ MaxReobserves \in Nat /\ MaxReplans \in Nat
    /\ MaxRecoveryAttempts \in Nat

Verdict == {"PASS", "FAIL", "UNKNOWN"}

\* An action: its kind, the target its effect is about, what it puts there,
\* who executes it, what policy says of it and how safely it repeats.
\* "tracked" kinds are in the effect ledger, "skill" ones are verified by
\* their skill, "inspection" ones change nothing.
Action ==
    [kind : STRING, target : STRING, content : STRING,
     via : {"tracked", "skill", "inspection"},
     gate : {"ALLOW", "CONFIRM", "DENY", "INCOMPLETE"},
     safety : {"SAFE_TO_RETRY", "REOBSERVE_FIRST", "ASK_USER"}]

\* A request: how it is run, with a person present or not, the actions its
\* planner may propose, and the effects its wording names.  The fast path has
\* been given its one action.
ASSUME CasesAreRequests ==
    \A c \in Cases :
        /\ DOMAIN c = {"mode", "interactive", "offer", "wanted"}
        /\ c.mode \in {"general", "direct"}
        /\ c.interactive \in BOOLEAN
        /\ c.wanted \subseteq STRING
        /\ \A a \in c.offer : a \in Action
        /\ c.mode = "direct" => \E a \in c.offer : c.offer = {a}

FailureClass ==
    {"TRANSIENT", "STALE_STATE", "PRECONDITION_FAILED", "ACTION_FAILED",
     "EXPECTED_STATE_NOT_REACHED", "NAVIGATION_TIMEOUT", "VERIFICATION_FAILED",
     "PERMISSION_DENIED", "ENVIRONMENT", "INCONCLUSIVE", "AMBIGUOUS", "UNKNOWN",
     "EXECUTION_EXCEPTION", "BROWSER_CONNECTION_FAILED", "TARGET_NOT_FOUND",
     "ACTION_MAY_HAVE_SUCCEEDED"}

\* Why a run was aborted: the class it starts with, or one of the ceilings.
Reason == FailureClass \cup {"none", "attempts", "steps", "no actions", "harness",
                                  "cancelled"}

Terminal == {"COMPLETED", "FAILED", "WAITING_FOR_USER", "CANCELLED"}

Nothing == [ok |-> FALSE, class |-> "UNKNOWN", executed |-> FALSE]

VARIABLES
    request,   \* the case
    pc,        \* PLANNING, the next STEP, ACTING, VERIFYING, REOBSERVED, the
               \* end of the BATCH, FINAL, or a terminal state
    index,     \* the planner step
    batch,     \* its actions not yet finished, the one being run first
    done,      \* the planner called it its last
    attempt,   \* of the action being run
    result,    \* what its execution reported
    used,      \* RecoveryBudget: what has been spent
    abort,     \* loop.abort_reason
    reported,  \* reported_success
    final,     \* the verdict of the final verification
    ledger, verified, external, untracked, uncertain,  \* GeneralTask
    records,   \* skill_verification_records
    holds,     \* the world: the actions whose effect is there
    ran, repeats, denied, attempted  \* history

\* ran: what is known of the last execution of the action being run; repeats:
\* executions that were not the first of their action; denied: policy refused
\* an action; attempted: the tracked actions executed, of each effect the last.
loop == <<pc, index, batch, done, attempt, result, used, abort, reported, final>>
task == <<ledger, verified, external, untracked, uncertain, records>>
history == <<ran, repeats, denied, attempted>>
vars == <<request, loop, task, holds, history>>

Effort == {"retries", "reobserves", "replans", "attempts"}

TypeOK ==
    /\ request \in Cases
    /\ pc \in Terminal \cup {"PLANNING", "STEP", "ACTING", "VERIFYING", "REOBSERVED",
                             "BATCH", "FINAL"}
    /\ index \in 0..(MaxSteps - 1)
    /\ batch \in Seq(request.offer) /\ Len(batch) <= MaxBatch
    /\ done \in BOOLEAN
    /\ attempt \in 0..(MaxAttempts - 1)
    /\ result \in [ok : BOOLEAN, class : FailureClass, executed : BOOLEAN]
    /\ used \in [Effort -> Nat]
    /\ used.retries <= MaxRetries /\ used.reobserves <= MaxReobserves
    /\ used.replans <= MaxReplans /\ used.attempts <= MaxRecoveryAttempts
    /\ abort \in Reason
    /\ reported \in BOOLEAN
    /\ final \in Verdict
    /\ ledger \subseteq request.offer /\ verified \subseteq request.offer
    /\ external \subseteq {a.kind : a \in request.offer}
    /\ untracked \subseteq {"skill", "inspection"}
    /\ uncertain \in BOOLEAN
    /\ records \subseteq request.offer
    /\ holds \subseteq request.offer
    /\ ran \in {"not", "known", "maybe", "inconclusive"} /\ repeats \in Nat
    /\ denied \in BOOLEAN
    /\ attempted \subseteq request.offer

\* run_task: the fast path runs its action at once, any other plans first.
Init ==
    /\ request \in Cases
    /\ IF request.mode = "direct"
       THEN /\ pc = "ACTING" /\ done = TRUE
            /\ \E a \in request.offer : batch = <<a>>
       ELSE pc = "PLANNING" /\ done = FALSE /\ batch = <<>>
    /\ index = 0 /\ attempt = 0 /\ result = Nothing
    /\ used = [e \in Effort |-> 0]
    /\ abort = "none" /\ reported = FALSE /\ final = "UNKNOWN"
    /\ ledger = {} /\ verified = {} /\ external = {} /\ untracked = {}
    /\ uncertain = FALSE /\ records = {} /\ holds = {}
    /\ ran = "not" /\ repeats = 0
    /\ denied = FALSE /\ attempted = {}

-----------------------------------------------------------------------------
(* The world and what verifiers see of it.                                 *)

\* Two effects are the same one, of which the later supersedes.
Same(a, b) == a.kind = b.kind /\ a.target = b.target

Put(set, a) == {b \in set : ~ Same(a, b)} \cup {a}

\* A skill may also miss at its deadline what is there.
ReadingIn(world, a) ==
    IF a \in world
    THEN IF a.via = "skill" THEN Verdict ELSE {"PASS", "UNKNOWN"}
    ELSE {"FAIL", "UNKNOWN"}

Reading(a) == ReadingIn(holds, a)

\* VerificationResult.verdict, of the verdicts of its checks.
Combined(verdicts) ==
    IF "FAIL" \in verdicts THEN "FAIL"
    ELSE IF "UNKNOWN" \in verdicts \/ verdicts = {} THEN "UNKNOWN" ELSE "PASS"

\* The verdicts a check of several effects can combine to.
Verdicts(effects) ==
    {v \in Verdict : \E r \in [effects -> Verdict] :
        /\ \A a \in effects : r[a] \in Reading(a)
        /\ v = Combined({r[a] : a \in effects})}

\* Somebody else undoes an effect while the run goes on.
Undo ==
    /\ pc \notin Terminal
    /\ \E a \in holds : holds' = holds \ {a}
    /\ UNCHANGED <<request, loop, task, history>>

-----------------------------------------------------------------------------
(* recovery.py.                                                            *)

\* What a decision is charged for; every such decision also costs an attempt.
\* Mutant: a retry after a fresh observation is charged as an observation only.
CostOfLooking == [RETRY |-> {"retries"}, REOBSERVE |-> {"reobserves"},
                  REOBSERVE_THEN_RETRY |-> {"reobserves"}, REPLAN |-> {"replans"}]

Cost == [RETRY |-> {"retries"}, REOBSERVE |-> {"reobserves"},
         REOBSERVE_THEN_RETRY |-> {"reobserves", "retries"},
         REPLAN |-> {"replans"}]

Limit == [retries |-> MaxRetries, reobserves |-> MaxReobserves,
          replans |-> MaxReplans]

Affordable(decision) ==
    /\ used.attempts < MaxRecoveryAttempts
    /\ \A e \in Cost[decision] : used[e] < Limit[e]

Charge(counters) == [e \in Effort |-> IF e \in counters THEN used[e] + 1 ELSE used[e]]

\* RecoveryBudget.spend, granted.
Spend(decision) == used' = Charge(Cost[decision] \cup {"attempts"})

\* Refused: the attempt has been counted already, and only REOBSERVE gives
\* it back.
SpendRefused(decision) ==
    used' = IF used.attempts < MaxRecoveryAttempts /\ decision # "REOBSERVE"
            THEN Charge({"attempts"}) ELSE used

Strategy(class) ==
    CASE class \in {"TRANSIENT", "ACTION_FAILED", "EXECUTION_EXCEPTION"} -> "RETRY"
      [] class \in {"STALE_STATE", "EXPECTED_STATE_NOT_REACHED", "VERIFICATION_FAILED",
                    "INCONCLUSIVE", "BROWSER_CONNECTION_FAILED",
                    "ACTION_MAY_HAVE_SUCCEEDED"} -> "REOBSERVE_THEN_RETRY"
      [] class \in {"PRECONDITION_FAILED", "TARGET_NOT_FOUND"} -> "REPLAN"
      [] class \in {"PERMISSION_DENIED", "AMBIGUOUS"} -> "ASK_USER"
      [] OTHER -> "ABORT"

\* action_can_retry: after a skill has executed and found nothing,
CanRetry(a) == a.safety # "ASK_USER"

\* Mutant: a fresh observation is taken to be enough.
CanRetryReobserved(a) == a.safety # "ASK_USER"

\* and when it is not known what an execution did.
CanRetryUnknown(a) == a.safety = "SAFE_TO_RETRY"

-----------------------------------------------------------------------------
(* _drive: the planner and the batch.                                      *)

General == request.mode = "general"

\* Every effect the request names has passed its own verification.
RequestedEffectsComplete ==
    /\ General /\ request.wanted # {}
    /\ request.wanted \subseteq {a.kind : a \in verified} \cup external

PlannerFails ==
    /\ pc = "PLANNING" /\ pc' = "FINAL"
    /\ IF RequestedEffectsComplete
       THEN UNCHANGED <<abort, uncertain>>
       ELSE abort' = "UNKNOWN" /\ uncertain' = TRUE
    /\ UNCHANGED <<request, index, batch, done, attempt, result, used, reported, final,
                   ledger, verified, external, untracked, records, holds, history>>

PlannerProposes ==
    /\ pc = "PLANNING" /\ pc' = "STEP"
    /\ \E n \in 1..MaxBatch : batch' \in [1..n -> request.offer]
    /\ done' \in BOOLEAN
    /\ UNCHANGED <<request, index, attempt, result, used, abort, reported, final, task,
                   holds, ran, repeats, denied, attempted>>

\* No actions: the planner is done, or has nothing to offer.
PlannerStops ==
    /\ pc = "PLANNING" /\ pc' = "FINAL"
    /\ batch' = <<>>
    /\ \/ reported' = TRUE /\ UNCHANGED abort
       \/ abort' = "no actions" /\ UNCHANGED reported
    /\ UNCHANGED <<request, index, done, attempt, result, used, final, task, holds,
                   ran, repeats, denied, attempted>>

\* The action is finished: the next one of the batch, or the end of it.
Advance ==
    /\ batch' = Tail(batch) /\ attempt' = 0
    /\ pc' = IF ~ General THEN "FINAL" ELSE IF Len(batch) > 1 THEN "STEP" ELSE "BATCH"
    /\ reported' = ~ General

\* _run_action returns no result: the rest of the batch does not run.
Leave ==
    /\ batch' = <<>> /\ attempt' = 0
    /\ pc' = IF General THEN "BATCH" ELSE "FINAL"

\* verified_equivalent: what passed once is read again and, if it still
\* passes, not done again.
NextAction ==
    /\ pc = "STEP"
    /\ LET a == Head(batch) IN
       \/ /\ a \in verified /\ "PASS" \in Reading(a)
          /\ Advance /\ UNCHANGED <<verified, ran>>
       \/ /\ a \notin verified \/ Reading(a) # {"PASS"}
          /\ pc' = "ACTING" /\ ran' = "not"
          /\ verified' = verified \ {a}
          /\ UNCHANGED <<batch, attempt, reported>>
    /\ UNCHANGED <<request, index, done, result, used, abort, final, ledger, external,
                   untracked, uncertain, records, holds, repeats, denied,
                   attempted>>

EndBatch ==
    /\ pc = "BATCH"
    /\ IF abort # "none"
       THEN pc' = "FINAL" /\ UNCHANGED <<index, abort, reported>>
       ELSE IF RequestedEffectsComplete \/ done
       THEN pc' = "FINAL" /\ reported' = TRUE /\ UNCHANGED <<index, abort>>
       ELSE IF index + 1 = MaxSteps
       THEN pc' = "FINAL" /\ abort' = "steps" /\ UNCHANGED <<index, reported>>
       ELSE pc' = "PLANNING" /\ index' = index + 1 /\ UNCHANGED <<abort, reported>>
    /\ UNCHANGED <<request, batch, done, attempt, result, used, final, task, holds, history>>

-----------------------------------------------------------------------------
(* _dispatch: what follows a failure of the action being run.              *)

\* The same action once more, unless its attempts are used up.
Retry ==
    IF attempt + 1 < MaxAttempts
    THEN /\ pc' = "ACTING" /\ attempt' = attempt + 1
         /\ UNCHANGED <<batch, abort>>
    ELSE abort' = "attempts" /\ Leave

GiveUp(class) == abort' = class /\ Leave

\* An action that may have taken effect is not repeated by the strategy.
MayHaveHappened(class, a) ==
    /\ class \in {"INCONCLUSIVE", "ACTION_MAY_HAVE_SUCCEEDED"}
    /\ ~ CanRetryUnknown(a)

Reobserve(class) ==
    IF Affordable("REOBSERVE")
    THEN /\ pc' = "REOBSERVED" /\ Spend("REOBSERVE")
         /\ UNCHANGED <<batch, attempt, abort>>
    ELSE GiveUp(class) /\ UNCHANGED used

Dispatch(class, a) ==
    LET decision == Strategy(class) IN
    IF MayHaveHappened(class, a) THEN Reobserve(class)
    ELSE IF decision \in {"ASK_USER", "ABORT"} THEN GiveUp(class) /\ UNCHANGED used
    ELSE IF ~ Affordable(decision) THEN GiveUp(class) /\ SpendRefused(decision)
    ELSE /\ Spend(decision)
         /\ IF decision = "REPLAN" THEN Leave /\ UNCHANGED abort ELSE Retry

-----------------------------------------------------------------------------
(* _run_action: one attempt at the first action of the batch.              *)

\* The reading is too old, the state changed while the planner thought, or
\* the fast path could not resolve its target.
StalePrecondition ==
    /\ pc = "ACTING" /\ Dispatch("STALE_STATE", Head(batch))
    /\ UNCHANGED <<request, index, done, result, reported, final, task, holds, ran,
                   repeats, denied, attempted>>

\* _permit_and_execute asks a person: for a missing parameter, or for consent.
NeedUserInput ==
    /\ pc = "ACTING"
    /\ \/ Head(batch).gate = "INCOMPLETE"
       \/ Head(batch).gate = "CONFIRM" /\ request.interactive
    /\ IF request.interactive
       THEN pc' = "WAITING_FOR_USER" /\ UNCHANGED abort
       ELSE pc' = "FAILED" /\ abort' = "AMBIGUOUS"
    /\ UNCHANGED <<request, index, batch, done, attempt, result, used, reported, final,
                   task, holds, history>>

\* Policy refuses; there is nobody to confirm in a run that is not interactive.
Refuse ==
    /\ pc = "ACTING" /\ pc' = "VERIFYING"
    /\ \/ Head(batch).gate = "DENY"
       \/ Head(batch).gate = "CONFIRM" /\ ~ request.interactive
    /\ result' = [ok |-> FALSE, class |-> "PERMISSION_DENIED", executed |-> FALSE]
    /\ denied' = TRUE
    /\ UNCHANGED <<request, index, batch, done, attempt, used, abort, reported, final,
                   task, holds, ran, repeats, attempted>>

\* Failures that come before any effect, and those that may come after it.
Before == [tracked |-> {"PRECONDITION_FAILED"}, inspection |-> {"PRECONDITION_FAILED"},
           skill |-> {"TARGET_NOT_FOUND"}]
After  == [tracked |-> {"ACTION_FAILED", "ENVIRONMENT"}, inspection |-> {"ACTION_FAILED"},
           skill |-> {"ACTION_FAILED", "BROWSER_CONNECTION_FAILED", "NAVIGATION_TIMEOUT"}]

Reports(ok, class, executed) ==
    result' = [ok |-> ok, class |-> class, executed |-> executed]

\* os_tools.execute.  ran keeps whether the effect may be there.
ExecuteNatively(a) ==
    /\ a.via # "skill" /\ UNCHANGED records
    /\ \/ /\ holds' \in {holds, IF a.via = "tracked" THEN Put(holds, a) ELSE holds}
          /\ \/ Reports(TRUE, "UNKNOWN", FALSE) /\ ran' = "known"
             \/ \E c \in After[a.via] : Reports(FALSE, c, FALSE) /\ ran' = "maybe"
       \/ /\ UNCHANGED holds /\ ran' = "known"
          /\ \E c \in Before[a.via] : Reports(FALSE, c, FALSE)

\* _execute_skill_action: the skill executes, then its verifier looks; an
\* outcome it cannot see fails like one it sees is missing.  An execution that
\* fails, or raises, leaves no record for the final check.
ExecuteSkill(a) ==
    /\ a.via = "skill"
    /\ \/ /\ holds' \in {holds, Put(holds, a)} /\ UNCHANGED records
          /\ \E c \in After["skill"] : Reports(FALSE, c, FALSE) /\ ran' = "maybe"
       \/ /\ UNCHANGED <<holds, records>> /\ ran' = "known"
          /\ \E c \in Before["skill"] : Reports(FALSE, c, FALSE)
       \/ /\ holds' \in {holds, Put(holds, a)} /\ records' = records \cup {a}
          /\ \E v \in ReadingIn(holds', a) :
                IF v = "PASS" THEN Reports(TRUE, "UNKNOWN", TRUE) /\ ran' = "known"
                ELSE /\ Reports(FALSE, "VERIFICATION_FAILED", TRUE)
                     /\ ran' = IF v = "UNKNOWN" THEN "inconclusive" ELSE "known"

Execute ==
    /\ pc = "ACTING" /\ pc' = "VERIFYING"
    /\ Head(batch).gate = "ALLOW"
    /\ ExecuteNatively(Head(batch)) \/ ExecuteSkill(Head(batch))
    /\ repeats' = IF ran = "not" THEN repeats ELSE repeats + 1
    /\ attempted' = IF Head(batch).via = "tracked" THEN Put(attempted, Head(batch))
                    ELSE attempted
    /\ UNCHANGED <<request, index, batch, done, attempt, used, abort, reported, final,
                   ledger, verified, external, untracked, uncertain, denied>>

\* GeneralTask.verify_checkpoint: the attempt enters the ledger whatever came
\* of it, unless policy refuses its very path; "none" stands for an action
\* without an outcome of its own.
\* CheckpointOfSuccess is a mutant: only what passed is remembered.
CheckpointOfSuccess(a, check) ==
    IF General /\ a.via = "tracked"
    THEN /\ check \in Reading(a)
         /\ ledger' = IF check = "PASS" THEN Put(ledger, a) ELSE ledger
         /\ verified' = IF check = "PASS" THEN verified \cup {a} ELSE verified \ {a}
         /\ UNCHANGED untracked
    ELSE /\ check = "none"
         /\ untracked' = IF General THEN untracked \cup {a.via} ELSE untracked
         /\ UNCHANGED <<ledger, verified>>

Checkpoint(a, check) ==
    IF General /\ a.via = "tracked"
    THEN \/ /\ check \in Reading(a)
            /\ ledger' = Put(ledger, a)
            /\ verified' = IF check = "PASS" THEN verified \cup {a} ELSE verified \ {a}
            /\ UNCHANGED untracked
         \/ /\ a.gate = "DENY" /\ check = "none"
            /\ UNCHANGED <<ledger, verified, untracked>>
    ELSE /\ check = "none"
         /\ untracked' = IF General THEN untracked \cup {a.via} ELSE untracked
         /\ UNCHANGED <<ledger, verified>>

\* recovery.classify, of a fresh reading, and what _run_action makes of a
\* skill's failure when the action must not be repeated.
Classify(a, check) ==
    IF ~ result.ok
    THEN IF result.executed /\ ~ CanRetry(a) THEN "ACTION_MAY_HAVE_SUCCEEDED"
         ELSE result.class
    ELSE IF check = "FAIL" THEN "VERIFICATION_FAILED" ELSE "INCONCLUSIVE"

VerifyCheckpoint ==
    /\ pc = "VERIFYING"
    /\ \E check \in Verdict \cup {"none"} :
        LET a == Head(batch) IN
        /\ Checkpoint(a, check)
        /\ IF result.ok /\ check \in {"none", "PASS"}
           THEN /\ Advance
                /\ external' = IF General /\ a.kind = "browser_play_song"
                               THEN external \cup {a.kind} ELSE external
                /\ UNCHANGED <<used, abort, ran>>
           ELSE /\ Dispatch(Classify(a, check), a)
                /\ ran' = IF result.ok /\ check = "UNKNOWN" THEN "inconclusive" ELSE ran
                /\ UNCHANGED <<external, reported>>
    /\ UNCHANGED <<request, index, done, result, final, uncertain, records, holds,
                   repeats, denied, attempted>>

\* After a fresh observation: the effect is there after all, or the action is
\* left as it is, without abort and without another execution.
VerifyReobserved ==
    /\ pc = "REOBSERVED"
    /\ \E check \in Verdict \cup {"none"} :
        /\ Checkpoint(Head(batch), check)
        /\ IF check = "PASS" THEN Advance
           ELSE Leave /\ UNCHANGED reported
    /\ UNCHANGED <<request, index, done, result, used, abort, final, external, uncertain,
                   records, holds, ran, repeats, denied, attempted>>

-----------------------------------------------------------------------------
(* run_task: the end of a run.                                             *)

\* _final_skill_verification: the verifiers of the skills that executed look
\* again, each at the browser as it is now.
SkillVerdicts == Verdicts(records)

\* verify_final of a general task reads the whole ledger again; with nothing in
\* it, and no abort, it is left to the skills.
GeneralVerdict(v) ==
    \E w \in Verdicts(ledger) :
        LET of == IF uncertain THEN Combined({w, "UNKNOWN"}) ELSE w
        IN  IF of = "UNKNOWN" /\ abort = "none" /\ ledger = {} /\ records # {}
            THEN v \in SkillVerdicts
            ELSE v = of

\* The task of the fast path asks the verifier of its one skill action.
DirectVerdict(v) == \E a \in request.offer : v \in Reading(a)

InspectionOnly == ledger = {} /\ untracked = {"inspection"}

InspectionCompleted == General /\ InspectionOnly /\ reported /\ abort = "none"

VerifyFinal ==
    /\ pc = "FINAL"
    /\ final' \in Verdict
    /\ IF General THEN GeneralVerdict(final') ELSE DirectVerdict(final')
    /\ pc' = IF abort = "none" /\ (final' = "PASS" \/ InspectionCompleted)
             THEN "COMPLETED" ELSE "FAILED"
    /\ UNCHANGED <<request, index, batch, done, attempt, result, used, abort, reported,
                   task, holds, history>>

\* An exception that nothing inside the run catches.
RunRaises ==
    /\ pc \in {"STEP", "ACTING", "VERIFYING", "FINAL"} /\ pc' = "FAILED"
    /\ abort' = IF abort = "none" THEN "harness" ELSE abort
    /\ UNCHANGED <<request, index, batch, done, attempt, result, used, reported, final,
                   task, holds, history>>

KeyboardInterrupt ==
    /\ pc \notin Terminal /\ pc' = "CANCELLED"
    /\ abort' = "cancelled"
    /\ UNCHANGED <<request, index, batch, done, attempt, result, used, reported, final,
                   task, holds, history>>

Next ==
    \/ PlannerFails \/ PlannerProposes \/ PlannerStops
    \/ NextAction \/ EndBatch
    \/ StalePrecondition \/ NeedUserInput \/ Refuse \/ Execute
    \/ VerifyCheckpoint \/ VerifyReobserved
    \/ VerifyFinal \/ RunRaises \/ KeyboardInterrupt
    \/ Undo

Spec == Init /\ [][Next]_vars

\* Mutant: the verdict is looked at before the refusal.
StatusByVerdict ==
    IF pc = "CANCELLED" THEN "CANCELLED"
    ELSE IF pc = "WAITING_FOR_USER" THEN "NEEDS_INPUT"
    ELSE IF final = "PASS" THEN "SUCCESS"
    ELSE IF abort = "PERMISSION_DENIED" THEN "POLICY_BLOCKED"
    ELSE "NOT_ESTABLISHED"

\* api._status of a run that is over.
Status ==
    IF pc = "CANCELLED" THEN "CANCELLED"
    ELSE IF pc = "WAITING_FOR_USER" THEN "NEEDS_INPUT"
    ELSE IF abort = "PERMISSION_DENIED" THEN "POLICY_BLOCKED"
    ELSE IF final = "PASS" THEN "SUCCESS"
    ELSE "NOT_ESTABLISHED"

-----------------------------------------------------------------------------
(* Properties.                                                             *)

\* A run repeats executions no more often than its retries allow, however many
\* actions and planner steps it takes: the budget is the run's (recovery.py:3).
RepeatsAreBudgeted == repeats <= used.retries

Executes == pc = "ACTING" /\ pc' = "VERIFYING" /\ result'.class # "PERMISSION_DENIED"

\* "NEVER let the generic recovery policy turn that UNKNOWN into a blind second
\* execution for a non-idempotent action" (runner.py:365): an action that is not
\* safe to repeat, and succeeded with an outcome that could not be verified, is
\* not executed again by recovery.
InconclusiveIsNotRepeated ==
    [][ran = "inconclusive" /\ Executes => Head(batch).safety = "SAFE_TO_RETRY"]_vars

\* What the code does of it: recovery executes such an action again only when it
\* is safe to repeat, or when it was left to a skill and is none of those a
\* person must be asked about (runner.py, _dispatch and _run_action).
RepeatsOfUnseen ==
    [][ran = "inconclusive" /\ Executes =>
          LET a == Head(batch)
          IN  a.safety = "SAFE_TO_RETRY" \/ (a.via = "skill" /\ a.safety # "ASK_USER")]_vars

\* A run in which policy refused an action is never a success, whatever the
\* final verification finds of its other actions (api.py, _status).
DenialIsNotSuccess == denied => pc # "COMPLETED" /\ Status # "SUCCESS"

\* A completed run left no tracked change undone: the last one it attempted of
\* every effect holds when it is reported, also one whose action failed and
\* was abandoned, or that was verified and then undone by somebody else.
CompletionHolds == pc = "COMPLETED" => attempted \subseteq holds

=============================================================================
