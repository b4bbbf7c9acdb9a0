---------------------------- MODULE RunnerLoopProofs ----------------------------
(***************************************************************************)
(* Proofs about RunnerLoop, for every set of requests and every budget.    *)
(***************************************************************************)
EXTENDS RunnerLoop, TLAPS

-----------------------------------------------------------------------------
(* The inductive invariant.                                                *)

AtAction == {"STEP", "ACTING", "VERIFYING", "REOBSERVED"}

Typed == TypeOK /\ (pc \in AtAction => batch # <<>>)

\* Every execution that was not the first of its action has been paid for, and
\* the next one of an action that ran before is paid for in advance.
RepeatsArePaid ==
    /\ repeats <= used.retries
    /\ pc = "ACTING" /\ ran # "not" => repeats < used.retries

MayComeBack(a) == a.safety = "SAFE_TO_RETRY" \/ (a.via = "skill" /\ a.safety # "ASK_USER")

\* An action whose success could not be verified comes back only if it may; one
\* a skill has just executed is not dispatched yet.
OnlySafeComesBack ==
    /\ pc = "ACTING" /\ ran = "inconclusive" => MayComeBack(Head(batch))
    /\ pc = "VERIFYING" /\ ran = "inconclusive" =>
          \/ MayComeBack(Head(batch))
          \/ Head(batch).via = "skill" /\ ~ result.ok /\ result.executed

\* An abort leads to the end of the run, and only the end has a verdict.
AbortEnds ==
    /\ abort # "none" => pc \in {"BATCH", "FINAL"} \cup Terminal
    /\ pc \notin Terminal => final = "UNKNOWN"

\* A refusal is about to be verified, or has aborted the run, or the run broke.
DenialAborts ==
    denied =>
        \/ /\ pc = "VERIFYING"
           /\ result = [ok |-> FALSE, class |-> "PERMISSION_DENIED", executed |-> FALSE]
        \/ pc \in {"BATCH", "FINAL", "FAILED"} /\ abort = "PERMISSION_DENIED"
        \/ pc = "FAILED" /\ final # "PASS"
        \/ pc = "CANCELLED"

\* While nothing was refused: what is being verified was permitted and is the
\* last attempt of its effect, and every other last attempt is in the ledger.
AttemptsAreRemembered ==
    ~ denied =>
        /\ pc \in {"VERIFYING", "REOBSERVED"} =>
              /\ Head(batch).gate = "ALLOW"
              /\ \A b \in attempted :
                    Head(batch).via = "tracked" /\ Same(b, Head(batch)) => b = Head(batch)
        /\ General /\ pc \notin Terminal =>
              IF pc = "VERIFYING" /\ Head(batch).via = "tracked"
              THEN attempted \subseteq Put(ledger, Head(batch))
              ELSE attempted \subseteq ledger

IInv ==
    /\ Typed /\ RepeatsArePaid /\ OnlySafeComesBack /\ AbortEnds /\ DenialAborts
    /\ AttemptsAreRemembered /\ CompletionHolds

-----------------------------------------------------------------------------
(* What the budget and the dispatch of a failure do.                       *)

Charged == {"RETRY", "REOBSERVE", "REOBSERVE_THEN_RETRY", "REPLAN"}

LEMMA Costs ==
    /\ \A d \in Charged : Cost[d] \subseteq {"retries", "reobserves", "replans"}
    /\ "retries" \in Cost["RETRY"] /\ "retries" \in Cost["REOBSERVE_THEN_RETRY"]
  BY DEF Cost, Charged

WithinBudget(u) ==
    /\ u \in [Effort -> Nat]
    /\ u.retries <= MaxRetries /\ u.reobserves <= MaxReobserves
    /\ u.replans <= MaxReplans /\ u.attempts <= MaxRecoveryAttempts

LEMMA SpendingIsBudgeted ==
    ASSUME WithinBudget(used), NEW d \in Charged, Affordable(d), Spend(d)
    PROVE  /\ WithinBudget(used')
           /\ used'.retries = IF "retries" \in Cost[d] THEN used.retries + 1 ELSE used.retries
<1>1. used' = [e \in Effort |-> IF e \in Cost[d] \cup {"attempts"} THEN used[e] + 1 ELSE used[e]]
  BY DEF Spend, Charge
<1>2. Cost[d] \subseteq {"retries", "reobserves", "replans"}
  BY Costs
<1>3. used'.attempts = used.attempts + 1 /\ used.attempts < MaxRecoveryAttempts
  BY <1>1 DEF Effort, Affordable
<1>4. /\ "retries" \in Cost[d] => used.retries < MaxRetries
      /\ "reobserves" \in Cost[d] => used.reobserves < MaxReobserves
      /\ "replans" \in Cost[d] => used.replans < MaxReplans
  BY DEF Affordable, Limit
<1>5. /\ used'.retries = IF "retries" \in Cost[d] THEN used.retries + 1 ELSE used.retries
      /\ used'.reobserves =
            IF "reobserves" \in Cost[d] THEN used.reobserves + 1 ELSE used.reobserves
      /\ used'.replans = IF "replans" \in Cost[d] THEN used.replans + 1 ELSE used.replans
  BY <1>1 DEF Effort
<1>6. used' \in [Effort -> Nat]
  BY <1>1 DEF WithinBudget
<1>7. /\ used.retries \in Nat /\ used.reobserves \in Nat /\ used.replans \in Nat
      /\ used.attempts \in Nat
  BY DEF WithinBudget, Effort
<1> QED
  BY <1>3, <1>4, <1>5, <1>6, <1>7, LimitsAreNat DEF WithinBudget

LEMMA RefusalIsBudgeted ==
    ASSUME WithinBudget(used), NEW d, SpendRefused(d)
    PROVE  WithinBudget(used') /\ used'.retries = used.retries
<1>1. CASE used' = used
  BY <1>1
<1>2. CASE used.attempts < MaxRecoveryAttempts /\ used' = Charge({"attempts"})
  <2>1. used' = [e \in Effort |-> IF e = "attempts" THEN used[e] + 1 ELSE used[e]]
    BY <1>2 DEF Charge
  <2>2. /\ used'.retries = used.retries /\ used'.reobserves = used.reobserves
        /\ used'.replans = used.replans /\ used'.attempts = used.attempts + 1
    BY <2>1 DEF Effort
  <2>3. used' \in [Effort -> Nat] /\ used.attempts \in Nat
    BY <2>1 DEF WithinBudget, Effort
  <2> QED
    BY <1>2, <2>2, <2>3, LimitsAreNat DEF WithinBudget
<1> QED
  BY <1>1, <1>2 DEF SpendRefused

LEMMA Strategies ==
    ASSUME NEW class
    PROVE  /\ Strategy(class) \in {"RETRY", "REOBSERVE_THEN_RETRY", "REPLAN", "ASK_USER", "ABORT"}
           /\ class = "PERMISSION_DENIED" => Strategy(class) = "ASK_USER"
  BY DEF Strategy

\* A dispatch comes back to the action only for a retry it has paid for, and
\* looks again only at what may have happened; otherwise the action is left.
LEMMA DispatchDoes ==
    ASSUME WithinBudget(used), NEW class \in FailureClass, NEW a, Dispatch(class, a),
           attempt \in 0..(MaxAttempts - 1), abort \in Reason
    PROVE  /\ WithinBudget(used') /\ used'.retries >= used.retries
           /\ attempt' \in 0..(MaxAttempts - 1)
           /\ abort' \in Reason
           /\ \/ /\ pc' = "ACTING" /\ batch' = batch /\ abort' = abort
                 /\ used'.retries = used.retries + 1 /\ ~ MayHaveHappened(class, a)
              \/ /\ pc' = "REOBSERVED" /\ batch' = batch /\ abort' = abort
                 /\ MayHaveHappened(class, a)
              \/ pc' \in {"BATCH", "FINAL"} /\ batch' = <<>>
           /\ class = "PERMISSION_DENIED" =>
                 pc' \in {"BATCH", "FINAL"} /\ abort' = "PERMISSION_DENIED"
<1>n. used.retries \in Nat /\ 0 \in 0..(MaxAttempts - 1)
  BY LimitsAreNat DEF WithinBudget, Effort
<1>r. class \in Reason /\ "attempts" \in Reason
  BY DEF Reason
<1>d. class = "PERMISSION_DENIED" =>
        ~ MayHaveHappened(class, a) /\ Strategy(class) = "ASK_USER"
  BY Strategies DEF MayHaveHappened
<1>1. CASE MayHaveHappened(class, a)
  <2>1. Reobserve(class)
    BY <1>1 DEF Dispatch
  <2>2. CASE Affordable("REOBSERVE")
    <3>1. WithinBudget(used') /\ used'.retries >= used.retries
      BY <1>n, <2>1, <2>2, SpendingIsBudgeted DEF Reobserve, Charged
    <3> QED
      BY <1>1, <1>d, <2>1, <2>2, <3>1 DEF Reobserve
  <2>3. CASE ~ Affordable("REOBSERVE")
    BY <1>1, <1>d, <1>n, <1>r, <2>1, <2>3 DEF Reobserve, GiveUp, Leave
  <2> QED
    BY <2>2, <2>3
<1>2. CASE ~ MayHaveHappened(class, a) /\ Strategy(class) \in {"ASK_USER", "ABORT"}
  <2>1. GiveUp(class) /\ used' = used
    BY <1>2 DEF Dispatch
  <2> QED
    BY <1>n, <1>r, <2>1 DEF GiveUp, Leave
<1>3. CASE /\ ~ MayHaveHappened(class, a)
           /\ Strategy(class) \notin {"ASK_USER", "ABORT"} /\ ~ Affordable(Strategy(class))
  <2>1. GiveUp(class) /\ SpendRefused(Strategy(class))
    BY <1>3 DEF Dispatch
  <2>2. WithinBudget(used') /\ used'.retries = used.retries
    BY <2>1, RefusalIsBudgeted
  <2> QED
    BY <1>3, <1>d, <1>n, <1>r, <2>1, <2>2 DEF GiveUp, Leave
<1>4. CASE /\ ~ MayHaveHappened(class, a)
           /\ Strategy(class) \notin {"ASK_USER", "ABORT"} /\ Affordable(Strategy(class))
  <2>1. /\ Spend(Strategy(class))
        /\ IF Strategy(class) = "REPLAN" THEN Leave /\ UNCHANGED abort ELSE Retry
    BY <1>4 DEF Dispatch
  <2>2. Strategy(class) \in Charged
    BY <1>4, Strategies DEF Charged
  <2>3. /\ WithinBudget(used')
        /\ used'.retries = IF "retries" \in Cost[Strategy(class)]
                           THEN used.retries + 1 ELSE used.retries
    BY <1>4, <2>1, <2>2, SpendingIsBudgeted
  <2>4. used'.retries >= used.retries
    BY <1>n, <2>3
  <2>5. CASE Strategy(class) = "REPLAN"
    BY <1>4, <1>d, <1>n, <2>1, <2>3, <2>4, <2>5 DEF Leave
  <2>6. CASE Strategy(class) # "REPLAN"
    <3>1. Strategy(class) \in {"RETRY", "REOBSERVE_THEN_RETRY"}
      BY <1>4, <2>6, Strategies
    <3>2. used'.retries = used.retries + 1
      BY <2>3, <3>1, Costs
    <3>3. CASE attempt + 1 < MaxAttempts
      <4>1. attempt' \in 0..(MaxAttempts - 1)
        BY <2>1, <2>6, <3>3, LimitsAreNat DEF Retry
      <4> QED
        BY <1>4, <1>d, <2>1, <2>3, <2>4, <2>6, <3>2, <3>3, <4>1 DEF Retry
    <3>4. CASE ~ (attempt + 1 < MaxAttempts)
      BY <1>4, <1>d, <1>n, <1>r, <2>1, <2>3, <2>4, <2>6, <3>4 DEF Retry, Leave
    <3> QED
      BY <3>3, <3>4
  <2> QED
    BY <2>5, <2>6
<1> QED
  BY <1>1, <1>2, <1>3, <1>4

-----------------------------------------------------------------------------
(* Types.                                                                  *)

LEMMA SequenceFacts ==
    ASSUME NEW S, NEW q \in Seq(S)
    PROVE  /\ Len(q) \in Nat
           /\ q # <<>> => /\ Head(q) \in S /\ Tail(q) \in Seq(S)
                          /\ Len(Tail(q)) = Len(q) - 1
           /\ Len(q) > 1 => Tail(q) # <<>>
  OBVIOUS

LEMMA EmptyFacts ==
    ASSUME NEW S
    PROVE  <<>> \in Seq(S) /\ Len(<<>>) = 0 /\ Len(<<>>) <= MaxBatch
  BY LimitsAreNat

LEMMA SingleFacts ==
    ASSUME NEW S, NEW a \in S
    PROVE  <<a>> \in Seq(S) /\ Len(<<a>>) = 1 /\ <<a>> # <<>> /\ Head(<<a>>) = a
  OBVIOUS

LEMMA BatchFacts ==
    ASSUME Typed, pc \in AtAction
    PROVE  /\ Head(batch) \in request.offer /\ batch \in Seq(request.offer)
           /\ batch # <<>> /\ Len(batch) <= MaxBatch
           /\ Tail(batch) \in Seq(request.offer) /\ Len(Tail(batch)) <= MaxBatch
           /\ Len(batch) > 1 => Tail(batch) # <<>>
<1>1. batch \in Seq(request.offer) /\ batch # <<>> /\ Len(batch) <= MaxBatch
  BY DEF Typed, TypeOK
<1>2. /\ Len(batch) \in Nat /\ Head(batch) \in request.offer
      /\ Tail(batch) \in Seq(request.offer) /\ Len(Tail(batch)) = Len(batch) - 1
      /\ Len(batch) > 1 => Tail(batch) # <<>>
  BY <1>1, SequenceFacts
<1>3. Len(Tail(batch)) <= MaxBatch
  BY <1>1, <1>2, LimitsAreNat
<1> QED
  BY <1>1, <1>2, <1>3

LEMMA AdvanceDoes ==
    ASSUME Typed, pc \in AtAction, Advance
    PROVE  /\ batch' \in Seq(request.offer) /\ Len(batch') <= MaxBatch
           /\ attempt' = 0 /\ reported' \in BOOLEAN
           /\ pc' \in {"FINAL", "STEP", "BATCH"} /\ (pc' = "STEP" => batch' # <<>>)
  BY BatchFacts DEF Advance

LEMMA NoAttempts == 0 \in 0..(MaxAttempts - 1) /\ Len(<<>>) = 0
  BY LimitsAreNat

LEMMA OfferIsActions ==
    ASSUME TypeOK
    PROVE  /\ \A a \in request.offer : a \in Action
           /\ request.mode = "direct" => \E a \in request.offer : request.offer = {a}
           /\ request.mode \in {"general", "direct"} /\ request.interactive \in BOOLEAN
  BY CasesAreRequests DEF TypeOK

LEMMA PutTypes ==
    ASSUME NEW S, NEW T, T \subseteq S, NEW a \in S
    PROVE  Put(T, a) \subseteq S
  BY DEF Put

LEMMA ReportTypes ==
    ASSUME NEW ok \in BOOLEAN, NEW class \in FailureClass, NEW executed \in BOOLEAN,
           Reports(ok, class, executed)
    PROVE  result' \in [ok : BOOLEAN, class : FailureClass, executed : BOOLEAN]
  BY DEF Reports

LEMMA CheckpointTypes ==
    ASSUME TypeOK, NEW a \in request.offer, NEW check, Checkpoint(a, check)
    PROVE  /\ ledger' \subseteq request.offer /\ verified' \subseteq request.offer
           /\ untracked' \subseteq {"skill", "inspection"}
<1>1. ledger' \subseteq request.offer /\ verified' \subseteq request.offer
  BY PutTypes DEF Checkpoint, TypeOK
<1>2. a.via \in {"tracked", "skill", "inspection"}
  BY OfferIsActions DEF Action
<1>3. untracked' \subseteq {"skill", "inspection"}
  BY <1>2, OfferIsActions DEF Checkpoint, TypeOK, General
<1> QED
  BY <1>1, <1>3

LEMMA TypesAtStart == Init => Typed
<1> SUFFICES ASSUME Init
             PROVE  Typed
  OBVIOUS
<1>1. batch \in Seq(request.offer) /\ Len(batch) <= MaxBatch /\ (pc \in AtAction => batch # <<>>)
  <2>1. CASE request.mode = "direct"
    <3>1. PICK a \in request.offer : batch = <<a>>
      BY <2>1 DEF Init
    <3>2. batch \in Seq(request.offer) /\ Len(batch) = 1 /\ batch # <<>>
      BY <3>1, SingleFacts
    <3> QED
      BY <3>2, LimitsAreNat
  <2>2. CASE request.mode # "direct"
    BY <2>2, EmptyFacts DEF Init, AtAction
  <2> QED
    BY <2>1, <2>2
<1>2. pc \in {"ACTING", "PLANNING"} /\ done \in BOOLEAN
  BY DEF Init
<1>3. index \in 0..(MaxSteps - 1) /\ attempt \in 0..(MaxAttempts - 1)
  BY LimitsAreNat DEF Init
<1>4. /\ used \in [Effort -> Nat]
      /\ used.retries <= MaxRetries /\ used.reobserves <= MaxReobserves
      /\ used.replans <= MaxReplans /\ used.attempts <= MaxRecoveryAttempts
  BY LimitsAreNat DEF Init, Effort
<1>5. result \in [ok : BOOLEAN, class : FailureClass, executed : BOOLEAN] /\ abort \in Reason
  BY DEF Init, Nothing, FailureClass, Reason
<1> QED
  BY <1>1, <1>2, <1>3, <1>4, <1>5 DEF Init, Typed, TypeOK, Verdict

LEMMA TypesAreKept == Typed /\ [Next]_vars => Typed'
<1> SUFFICES ASSUME Typed, [Next]_vars
             PROVE  Typed'
  OBVIOUS
<1>t. TypeOK /\ WithinBudget(used) /\ attempt \in 0..(MaxAttempts - 1) /\ abort \in Reason
  BY DEF Typed, TypeOK, WithinBudget
<1>0. CASE UNCHANGED vars
  BY <1>0 DEF vars, loop, task, history, Typed, TypeOK
<1>1. CASE PlannerFails
  <2>1. abort' \in Reason /\ uncertain' \in BOOLEAN /\ pc' = "FINAL"
    BY <1>1, <1>t DEF PlannerFails, TypeOK, Reason, FailureClass
  <2> QED
    BY <1>1, <1>t, <2>1 DEF PlannerFails, Typed, TypeOK, AtAction, history
<1>2. CASE PlannerProposes
  <2>1. batch' \in Seq(request.offer) /\ Len(batch') <= MaxBatch /\ batch' # <<>>
    <3>1. PICK n \in 1..MaxBatch : batch' \in [1..n -> request.offer]
      BY <1>2 DEF PlannerProposes
    <3>2. batch' \in Seq(request.offer) /\ Len(batch') = n
      BY <3>1, LimitsAreNat
    <3> QED
      BY <3>1, <3>2, LimitsAreNat
  <2> QED
    BY <1>2, <1>t, <2>1 DEF PlannerProposes, Typed, TypeOK, AtAction, task
<1>3. CASE PlannerStops
  <2>1. batch' \in Seq(request.offer) /\ Len(batch') <= MaxBatch
    BY <1>3, EmptyFacts DEF PlannerStops
  <2>2. abort' \in Reason /\ reported' \in BOOLEAN /\ pc' = "FINAL"
    BY <1>3, <1>t DEF PlannerStops, TypeOK, Reason
  <2> QED
    BY <1>3, <1>t, <2>1, <2>2 DEF PlannerStops, Typed, TypeOK, AtAction, task
<1>4. CASE NextAction
  <2>1. /\ batch' \in Seq(request.offer) /\ Len(batch') <= MaxBatch
        /\ attempt' \in 0..(MaxAttempts - 1) /\ reported' \in BOOLEAN
        /\ pc' \in {"FINAL", "STEP", "BATCH", "ACTING"}
        /\ pc' \in {"STEP", "ACTING"} => batch' # <<>>
        /\ verified' \subseteq request.offer
        /\ ran' \in {"not", "known", "maybe", "inconclusive"}
    <3>1. pc \in AtAction
      BY <1>4 DEF NextAction, AtAction
    <3>2. CASE Advance /\ UNCHANGED <<verified, ran>>
      BY <1>t, <3>1, <3>2, AdvanceDoes, NoAttempts DEF TypeOK
    <3>3. CASE /\ pc' = "ACTING" /\ ran' = "not"
               /\ verified' = verified \ {Head(batch)}
               /\ UNCHANGED <<batch, attempt, reported>>
      BY <1>t, <3>1, <3>3, BatchFacts DEF TypeOK
    <3> QED
      BY <1>4, <3>2, <3>3 DEF NextAction
  <2> QED
    BY <1>4, <1>t, <2>1 DEF NextAction, Typed, TypeOK, AtAction
<1>5. CASE EndBatch
  <2>1. /\ index' \in 0..(MaxSteps - 1) /\ abort' \in Reason /\ reported' \in BOOLEAN
        /\ pc' \in {"FINAL", "PLANNING"}
    <3>1. index' = index \/ (index' = index + 1 /\ index + 1 # MaxSteps)
      BY <1>5 DEF EndBatch
    <3>2. index \in 0..(MaxSteps - 1)
      BY <1>t DEF TypeOK
    <3>3. index' \in 0..(MaxSteps - 1)
      BY <3>1, <3>2, LimitsAreNat
    <3>4. abort' \in Reason /\ reported' \in BOOLEAN /\ pc' \in {"FINAL", "PLANNING"}
      BY <1>5, <1>t DEF EndBatch, TypeOK, Reason
    <3> QED
      BY <3>3, <3>4
  <2> QED
    BY <1>5, <1>t, <2>1 DEF EndBatch, Typed, TypeOK, AtAction, task, history
<1>6. CASE StalePrecondition
  <2>1. /\ WithinBudget(used') /\ attempt' \in 0..(MaxAttempts - 1) /\ abort' \in Reason
        /\ \/ pc' \in {"ACTING", "REOBSERVED"} /\ batch' = batch
           \/ pc' \in {"BATCH", "FINAL"} /\ batch' = <<>>
    <3>1. Dispatch("STALE_STATE", Head(batch)) /\ "STALE_STATE" \in FailureClass
      BY <1>6 DEF StalePrecondition, FailureClass
    <3> QED
      BY <1>t, <3>1, DispatchDoes
  <2>2. pc \in AtAction
    BY <1>6 DEF StalePrecondition, AtAction
  <2>3. /\ batch' \in Seq(request.offer) /\ Len(batch') <= MaxBatch
        /\ pc' \in AtAction => batch' # <<>>
    BY <2>1, <2>2, BatchFacts, EmptyFacts DEF AtAction
  <2> QED
    BY <1>6, <1>t, <2>1, <2>3 DEF StalePrecondition, Typed, TypeOK, WithinBudget, task
<1>7. CASE NeedUserInput
  <2>1. pc' \in {"WAITING_FOR_USER", "FAILED"} /\ abort' \in Reason
    BY <1>7, <1>t DEF NeedUserInput, Reason, FailureClass
  <2> QED
    BY <1>7, <1>t, <2>1 DEF NeedUserInput, Typed, TypeOK, AtAction, Terminal, task, history
<1>8. CASE Refuse
  <2>1. result' \in [ok : BOOLEAN, class : FailureClass, executed : BOOLEAN]
    BY <1>8 DEF Refuse, FailureClass
  <2> QED
    BY <1>8, <1>t, <2>1 DEF Refuse, Typed, TypeOK, AtAction, task
<1>9. CASE Execute
  <2>1. Head(batch) \in request.offer /\ batch # <<>>
    BY <1>9, BatchFacts DEF Execute, AtAction
  <2>2. /\ result' \in [ok : BOOLEAN, class : FailureClass, executed : BOOLEAN]
        /\ holds' \subseteq request.offer /\ records' \subseteq request.offer
        /\ ran' \in {"not", "known", "maybe", "inconclusive"}
    <3>1. Put(holds, Head(batch)) \subseteq request.offer
      BY <1>t, <2>1, PutTypes DEF TypeOK
    <3>2. CASE ExecuteNatively(Head(batch))
      <4>1. Head(batch).via \in {"tracked", "inspection"}
        BY <1>t, <2>1, <3>2, OfferIsActions DEF ExecuteNatively, Action
      <4>2. /\ After[Head(batch).via] \subseteq FailureClass
            /\ Before[Head(batch).via] \subseteq FailureClass /\ "UNKNOWN" \in FailureClass
        BY <4>1 DEF After, Before, FailureClass
      <4>3. holds' \subseteq request.offer /\ records' \subseteq request.offer
        BY <1>t, <3>1, <3>2 DEF ExecuteNatively, TypeOK
      <4>4. ran' \in {"known", "maybe"}
        BY <3>2 DEF ExecuteNatively
      <4>5. result' \in [ok : BOOLEAN, class : FailureClass, executed : BOOLEAN]
        BY <3>2, <4>2, ReportTypes DEF ExecuteNatively
      <4> QED
        BY <4>3, <4>4, <4>5
    <3>3. CASE ExecuteSkill(Head(batch))
      <4>1. /\ After["skill"] \subseteq FailureClass /\ Before["skill"] \subseteq FailureClass
            /\ {"UNKNOWN", "VERIFICATION_FAILED"} \subseteq FailureClass
        BY DEF After, Before, FailureClass
      <4>2. holds' \subseteq request.offer /\ records' \subseteq request.offer
        BY <1>t, <2>1, <3>1, <3>3 DEF ExecuteSkill, TypeOK
      <4>3. ran' \in {"known", "maybe", "inconclusive"}
        BY <3>3 DEF ExecuteSkill
      <4>4. result' \in [ok : BOOLEAN, class : FailureClass, executed : BOOLEAN]
        BY <3>3, <4>1, ReportTypes DEF ExecuteSkill
      <4> QED
        BY <4>2, <4>3, <4>4
    <3> QED
      BY <1>9, <3>2, <3>3 DEF Execute
  <2>3. attempted' \subseteq request.offer /\ repeats' \in Nat /\ pc' = "VERIFYING"
    BY <1>9, <1>t, <2>1, PutTypes DEF Execute, TypeOK
  <2> QED
    BY <1>9, <1>t, <2>1, <2>2, <2>3 DEF Execute, Typed, TypeOK
<1>10. CASE VerifyCheckpoint
  <2>1. pc \in AtAction
    BY <1>10 DEF VerifyCheckpoint, AtAction
  <2>2. Head(batch) \in request.offer
    BY <2>1, BatchFacts
  <2>3. PICK check \in Verdict \cup {"none"} :
          LET a == Head(batch) IN
          /\ Checkpoint(a, check)
          /\ IF result.ok /\ check \in {"none", "PASS"}
             THEN /\ Advance
                  /\ external' = IF General /\ a.kind = "browser_play_song"
                                 THEN external \cup {a.kind} ELSE external
                  /\ UNCHANGED <<used, abort, ran>>
             ELSE /\ Dispatch(Classify(a, check), a)
                  /\ ran' = IF result.ok /\ check = "UNKNOWN" THEN "inconclusive" ELSE ran
                  /\ UNCHANGED <<external, reported>>
    BY <1>10 DEF VerifyCheckpoint
  <2>4. /\ ledger' \subseteq request.offer /\ verified' \subseteq request.offer
        /\ untracked' \subseteq {"skill", "inspection"}
    BY <1>t, <2>2, <2>3, CheckpointTypes
  <2>5. /\ WithinBudget(used') /\ attempt' \in 0..(MaxAttempts - 1) /\ abort' \in Reason
        /\ batch' \in Seq(request.offer) /\ Len(batch') <= MaxBatch
        /\ pc' \in {"FINAL", "STEP", "BATCH", "ACTING", "REOBSERVED"}
        /\ pc' \in AtAction => batch' # <<>>
        /\ reported' \in BOOLEAN /\ external' \subseteq {a.kind : a \in request.offer}
        /\ ran' \in {"not", "known", "maybe", "inconclusive"}
    <3>1. CASE result.ok /\ check \in {"none", "PASS"}
      <4>1. /\ Advance /\ UNCHANGED <<used, abort, ran>>
            /\ external' \in {external, external \cup {Head(batch).kind}}
        BY <2>3, <3>1
      <4>2. external' \subseteq {a.kind : a \in request.offer}
        BY <1>t, <2>2, <4>1 DEF TypeOK
      <4> QED
        BY <1>t, <2>1, <4>1, <4>2, AdvanceDoes, NoAttempts DEF AtAction, TypeOK
    <3>2. CASE ~ (result.ok /\ check \in {"none", "PASS"})
      <4>1. Classify(Head(batch), check) \in FailureClass
        BY <1>t DEF Classify, TypeOK, FailureClass
      <4>2. /\ Dispatch(Classify(Head(batch), check), Head(batch))
            /\ ran' \in {"inconclusive", ran} /\ UNCHANGED <<external, reported>>
        BY <2>3, <3>2
      <4>3. /\ WithinBudget(used') /\ attempt' \in 0..(MaxAttempts - 1) /\ abort' \in Reason
            /\ \/ pc' \in {"ACTING", "REOBSERVED"} /\ batch' = batch
               \/ pc' \in {"BATCH", "FINAL"} /\ batch' = <<>>
        BY <1>t, <4>1, <4>2, DispatchDoes
      <4>4. /\ batch' \in Seq(request.offer) /\ Len(batch') <= MaxBatch
            /\ pc' \in AtAction => batch' # <<>>
        BY <2>1, <4>3, BatchFacts, EmptyFacts DEF AtAction
      <4> QED
        BY <1>t, <4>2, <4>3, <4>4 DEF TypeOK
    <3> QED
      BY <3>1, <3>2
  <2> QED
    BY <1>10, <1>t, <2>4, <2>5 DEF VerifyCheckpoint, Typed, TypeOK, WithinBudget
<1>11. CASE VerifyReobserved
  <2>1. pc \in AtAction
    BY <1>11 DEF VerifyReobserved, AtAction
  <2>2. Head(batch) \in request.offer
    BY <2>1, BatchFacts
  <2>3. PICK check \in Verdict \cup {"none"} :
          /\ Checkpoint(Head(batch), check)
          /\ Advance \/ (Leave /\ UNCHANGED reported)
    BY <1>11 DEF VerifyReobserved
  <2>4. /\ ledger' \subseteq request.offer /\ verified' \subseteq request.offer
        /\ untracked' \subseteq {"skill", "inspection"}
    BY <1>t, <2>2, <2>3, CheckpointTypes
  <2>5. /\ attempt' = 0 /\ batch' \in Seq(request.offer) /\ Len(batch') <= MaxBatch
        /\ pc' \in {"FINAL", "STEP", "BATCH"} /\ (pc' \in AtAction => batch' # <<>>)
        /\ reported' \in BOOLEAN
    <3>1. CASE Advance
      BY <2>1, <3>1, AdvanceDoes DEF AtAction
    <3>2. CASE Leave /\ UNCHANGED reported
      BY <1>t, <3>2, LimitsAreNat DEF Leave, TypeOK, AtAction
    <3> QED
      BY <2>3, <3>1, <3>2
  <2> QED
    BY <1>11, <1>t, <2>4, <2>5, NoAttempts DEF VerifyReobserved, Typed, TypeOK
<1>12. CASE VerifyFinal
  BY <1>12, <1>t DEF VerifyFinal, Typed, TypeOK, AtAction, Terminal, task, history
<1>13. CASE RunRaises \/ KeyboardInterrupt
  BY <1>13, <1>t
  DEF RunRaises, KeyboardInterrupt, Typed, TypeOK, AtAction, Terminal, Reason, task, history
<1>14. CASE Undo
  BY <1>14, <1>t DEF Undo, Typed, TypeOK, AtAction, loop, task, history
<1> QED
  BY <1>0, <1>1, <1>2, <1>3, <1>4, <1>5, <1>6, <1>7, <1>8, <1>9, <1>10, <1>11, <1>12,
     <1>13, <1>14
  DEF Next

-----------------------------------------------------------------------------
(* Repetition.                                                             *)

Repetition == RepeatsArePaid /\ OnlySafeComesBack

LEMMA RepetitionIsKept ==
    Typed /\ Repetition /\ [Next]_vars => Repetition'
<1> SUFFICES ASSUME Typed, Repetition, [Next]_vars
             PROVE  Repetition'
  OBVIOUS
<1>t. /\ TypeOK /\ WithinBudget(used) /\ attempt \in 0..(MaxAttempts - 1) /\ abort \in Reason
      /\ repeats \in Nat /\ used.retries \in Nat
  BY DEF Typed, TypeOK, WithinBudget, Effort
<1>0. CASE UNCHANGED vars
  BY <1>0 DEF vars, loop, task, history, Repetition, RepeatsArePaid, OnlySafeComesBack
<1>1. CASE \/ PlannerFails \/ PlannerProposes \/ PlannerStops \/ EndBatch \/ NeedUserInput
           \/ VerifyReobserved \/ VerifyFinal \/ RunRaises \/ KeyboardInterrupt
  <2>1. /\ UNCHANGED <<used, repeats>>
        /\ pc' \in {"FINAL", "STEP", "PLANNING", "BATCH"} \cup Terminal
    BY <1>1
    DEF PlannerFails, PlannerProposes, PlannerStops, EndBatch, NeedUserInput,
        VerifyReobserved, VerifyFinal, RunRaises, KeyboardInterrupt, history, Advance, Leave,
        Terminal
  <2> QED
    BY <2>1 DEF Repetition, RepeatsArePaid, OnlySafeComesBack, Terminal
<1>2. CASE NextAction
  <2>1. /\ UNCHANGED <<used, repeats>>
        /\ pc' \in {"FINAL", "STEP", "BATCH"} \/ (pc' = "ACTING" /\ ran' = "not")
    BY <1>2 DEF NextAction, Advance
  <2> QED
    BY <2>1 DEF Repetition, RepeatsArePaid, OnlySafeComesBack
<1>3. CASE StalePrecondition
  <2>1. /\ used'.retries >= used.retries
        /\ \/ pc' = "ACTING" /\ batch' = batch /\ used'.retries = used.retries + 1
           \/ pc' \in {"REOBSERVED", "BATCH", "FINAL"}
    <3>1. Dispatch("STALE_STATE", Head(batch)) /\ "STALE_STATE" \in FailureClass
      BY <1>3 DEF StalePrecondition, FailureClass
    <3> QED
      BY <1>t, <3>1, DispatchDoes
  <2>2. /\ UNCHANGED <<repeats, ran>> /\ pc = "ACTING"
        /\ WithinBudget(used')
    <3>1. Dispatch("STALE_STATE", Head(batch)) /\ "STALE_STATE" \in FailureClass
      BY <1>3 DEF StalePrecondition, FailureClass
    <3>2. WithinBudget(used')
      BY <1>t, <3>1, DispatchDoes
    <3> QED
      BY <1>3, <3>2 DEF StalePrecondition
  <2>3. used'.retries \in Nat
    BY <2>2 DEF WithinBudget, Effort
  <2>4. RepeatsArePaid'
    BY <1>t, <2>1, <2>2, <2>3 DEF Repetition, RepeatsArePaid
  <2>5. OnlySafeComesBack'
    BY <2>1, <2>2 DEF Repetition, OnlySafeComesBack
  <2> QED
    BY <2>4, <2>5 DEF Repetition
<1>4. CASE Refuse
  BY <1>4 DEF Refuse, Repetition, RepeatsArePaid, OnlySafeComesBack
<1>5. CASE Execute
  <2>1. /\ used' = used /\ pc = "ACTING" /\ pc' = "VERIFYING"
        /\ repeats' = IF ran = "not" THEN repeats ELSE repeats + 1
    BY <1>5 DEF Execute
  <2>2. \/ ran' \in {"known", "maybe"}
        \/ Head(batch).via = "skill" /\ ~ result'.ok /\ result'.executed
    BY <1>5 DEF Execute, ExecuteNatively, ExecuteSkill, Reports
  <2>3. batch' = batch
    BY <1>5 DEF Execute
  <2>4. RepeatsArePaid'
    BY <1>t, <2>1 DEF Repetition, RepeatsArePaid
  <2>5. OnlySafeComesBack'
    BY <2>1, <2>2, <2>3 DEF OnlySafeComesBack
  <2> QED
    BY <2>4, <2>5 DEF Repetition
<1>6. CASE VerifyCheckpoint
  <2>1. UNCHANGED repeats /\ pc = "VERIFYING"
    BY <1>6 DEF VerifyCheckpoint
  <2>2. PICK check \in Verdict \cup {"none"} :
          IF result.ok /\ check \in {"none", "PASS"}
          THEN Advance /\ UNCHANGED <<used, abort, ran>>
          ELSE /\ Dispatch(Classify(Head(batch), check), Head(batch))
               /\ ran' = IF result.ok /\ check = "UNKNOWN" THEN "inconclusive" ELSE ran
    BY <1>6 DEF VerifyCheckpoint
  <2>3. CASE result.ok /\ check \in {"none", "PASS"}
    BY <2>1, <2>2, <2>3 DEF Advance, Repetition, RepeatsArePaid, OnlySafeComesBack
  <2>4. CASE ~ (result.ok /\ check \in {"none", "PASS"})
    <3>1. Classify(Head(batch), check) \in FailureClass
      BY <1>t DEF Classify, TypeOK, FailureClass
    <3>2. /\ WithinBudget(used') /\ used'.retries >= used.retries
          /\ \/ /\ pc' = "ACTING" /\ batch' = batch /\ used'.retries = used.retries + 1
                /\ ~ MayHaveHappened(Classify(Head(batch), check), Head(batch))
             \/ pc' \in {"REOBSERVED", "BATCH", "FINAL"}
      BY <1>t, <2>2, <2>4, <3>1, DispatchDoes
    <3>3. used'.retries \in Nat
      BY <3>2 DEF WithinBudget, Effort
    <3>4. RepeatsArePaid'
      BY <1>t, <2>1, <3>2, <3>3 DEF Repetition, RepeatsArePaid
    <3>5. OnlySafeComesBack'
      <4> SUFFICES ASSUME pc' = "ACTING", ran' = "inconclusive"
                   PROVE  MayComeBack(Head(batch))
        BY <3>2 DEF OnlySafeComesBack
      <4>3. ~ MayHaveHappened(Classify(Head(batch), check), Head(batch))
        BY <3>2
      <4>1. CASE ran = "inconclusive"
        <5>1. CASE Head(batch).via = "skill" /\ ~ result.ok /\ result.executed
          BY <4>3, <5>1
          DEF Classify, CanRetry, MayHaveHappened, CanRetryUnknown, MayComeBack
        <5> QED
          BY <2>1, <4>1, <5>1 DEF Repetition, OnlySafeComesBack
      <4>2. CASE ran # "inconclusive"
        <5>1. result.ok /\ check = "UNKNOWN"
          BY <2>2, <2>4, <4>2
        <5>2. Classify(Head(batch), check) = "INCONCLUSIVE"
          BY <5>1 DEF Classify
        <5> QED
          BY <4>3, <5>2 DEF MayHaveHappened, CanRetryUnknown, MayComeBack
      <4> QED
        BY <4>1, <4>2
    <3> QED
      BY <3>4, <3>5 DEF Repetition
  <2> QED
    BY <2>3, <2>4
<1>7. CASE Undo
  BY <1>7 DEF Undo, loop, history, Repetition, RepeatsArePaid, OnlySafeComesBack
<1> QED
  BY <1>0, <1>1, <1>2, <1>3, <1>4, <1>5, <1>6, <1>7 DEF Next

-----------------------------------------------------------------------------
(* Refusal.                                                                *)

Refusal == AbortEnds /\ DenialAborts

LEMMA RefusalIsKept ==
    Typed /\ Refusal /\ [Next]_vars => Refusal'
<1> SUFFICES ASSUME Typed, Refusal, [Next]_vars
             PROVE  Refusal'
  OBVIOUS
<1>t. TypeOK /\ WithinBudget(used) /\ attempt \in 0..(MaxAttempts - 1) /\ abort \in Reason
  BY DEF Typed, TypeOK, WithinBudget
<1> USE DEF Refusal, AbortEnds, DenialAborts
<1>0. CASE UNCHANGED vars
  BY <1>0 DEF vars, loop, task, history
<1>1. CASE PlannerFails \/ PlannerProposes \/ PlannerStops
  <2>1. pc = "PLANNING" /\ pc' \in {"FINAL", "STEP"} /\ UNCHANGED <<final, denied>>
        /\ (pc' = "STEP" => abort' = abort)
    BY <1>1 DEF PlannerFails, PlannerProposes, PlannerStops, history
  <2> QED
    BY <2>1 DEF Terminal
<1>2. CASE NextAction
  BY <1>2 DEF NextAction, Advance, Terminal
<1>3. CASE EndBatch
  BY <1>3 DEF EndBatch, history, Terminal
<1>4. CASE StalePrecondition
  <2>1. Dispatch("STALE_STATE", Head(batch)) /\ "STALE_STATE" \in FailureClass
    BY <1>4 DEF StalePrecondition, FailureClass
  <2>2. \/ pc' \in {"ACTING", "REOBSERVED"} /\ abort' = abort
        \/ pc' \in {"BATCH", "FINAL"}
    BY <1>t, <2>1, DispatchDoes
  <2>3. pc = "ACTING" /\ UNCHANGED <<final, denied, result>>
    BY <1>4 DEF StalePrecondition
  <2> QED
    BY <2>2, <2>3 DEF Terminal
<1>5. CASE NeedUserInput
  BY <1>5 DEF NeedUserInput, history, Terminal
<1>6. CASE Refuse
  BY <1>6 DEF Refuse, Terminal
<1>7. CASE Execute
  BY <1>7 DEF Execute, Terminal
<1>8. CASE VerifyCheckpoint
  <2>1. /\ pc = "VERIFYING" /\ UNCHANGED <<final, denied, result>> /\ abort = "none"
        /\ final = "UNKNOWN"
    BY <1>8 DEF VerifyCheckpoint, Terminal
  <2>2. PICK check \in Verdict \cup {"none"} :
          IF result.ok /\ check \in {"none", "PASS"}
          THEN Advance /\ UNCHANGED <<used, abort, ran>>
          ELSE Dispatch(Classify(Head(batch), check), Head(batch))
    BY <1>8 DEF VerifyCheckpoint
  <2>3. CASE result.ok /\ check \in {"none", "PASS"}
    <3>1. pc' \in {"FINAL", "STEP", "BATCH"} /\ abort' = abort
      BY <2>2, <2>3 DEF Advance
    <3>2. ~ denied
      BY <2>1, <2>3 DEF Terminal
    <3> QED
      BY <2>1, <3>1, <3>2 DEF Terminal
  <2>4. CASE ~ (result.ok /\ check \in {"none", "PASS"})
    <3>1. Classify(Head(batch), check) \in FailureClass
      BY <1>t DEF Classify, TypeOK, FailureClass
    <3>2. /\ \/ pc' \in {"ACTING", "REOBSERVED"} /\ abort' = abort
             \/ pc' \in {"BATCH", "FINAL"}
          /\ Classify(Head(batch), check) = "PERMISSION_DENIED" =>
                pc' \in {"BATCH", "FINAL"} /\ abort' = "PERMISSION_DENIED"
      BY <1>t, <2>2, <2>4, <3>1, DispatchDoes
    <3>3. denied => Classify(Head(batch), check) = "PERMISSION_DENIED"
      <4>1. denied => result = [ok |-> FALSE, class |-> "PERMISSION_DENIED", executed |-> FALSE]
        BY <2>1
      <4> QED
        BY <4>1 DEF Classify
    <3> QED
      BY <2>1, <3>2, <3>3 DEF Terminal
  <2> QED
    BY <2>3, <2>4
<1>9. CASE VerifyReobserved
  <2>1. pc = "REOBSERVED" /\ pc' \in {"FINAL", "STEP", "BATCH"} /\ UNCHANGED <<abort, final, denied>>
    BY <1>9 DEF VerifyReobserved, Advance, Leave
  <2> QED
    BY <2>1 DEF Terminal
<1>10. CASE VerifyFinal
  BY <1>10 DEF VerifyFinal, history, Terminal
<1>11. CASE RunRaises
  BY <1>11 DEF RunRaises, history, Terminal
<1>12. CASE KeyboardInterrupt
  BY <1>12 DEF KeyboardInterrupt, history, Terminal
<1>13. CASE Undo
  BY <1>13 DEF Undo, loop, history
<1> QED
  BY <1>0, <1>1, <1>2, <1>3, <1>4, <1>5, <1>6, <1>7, <1>8, <1>9, <1>10, <1>11, <1>12, <1>13
  DEF Next

-----------------------------------------------------------------------------
(* Completion.                                                             *)

Remembering == AttemptsAreRemembered /\ CompletionHolds

LEMMA PassIsTrue ==
    ASSUME NEW effects, "PASS" \in Verdicts(effects)
    PROVE  effects \subseteq holds
<1>1. PICK r \in [effects -> Verdict] :
        /\ \A a \in effects : r[a] \in Reading(a)
        /\ "PASS" = Combined({r[a] : a \in effects})
  BY DEF Verdicts
<1>2. "FAIL" \notin {r[a] : a \in effects} /\ "UNKNOWN" \notin {r[a] : a \in effects}
  BY <1>1 DEF Combined
<1>3. \A a \in effects : r[a] = "PASS"
  BY <1>2 DEF Verdict
<1> QED
  BY <1>1, <1>3 DEF Reading, ReadingIn

\* A final verdict that completes the run was read from the whole ledger, or
\* there was nothing in it; the fast path reads its only action.
LEMMA FinalPassIsTrue ==
    ASSUME Typed, Refusal, Remembering, VerifyFinal, pc' = "COMPLETED"
    PROVE  attempted \subseteq holds
<1>1. /\ pc = "FINAL" /\ abort = "none"
      /\ final' = "PASS" \/ InspectionCompleted
      /\ IF General THEN GeneralVerdict(final') ELSE DirectVerdict(final')
  BY DEF VerifyFinal
<1>2. ~ denied
  BY <1>1 DEF Refusal, DenialAborts
<1>3. CASE General
  <2>1. attempted \subseteq ledger
    BY <1>1, <1>2, <1>3 DEF Remembering, AttemptsAreRemembered, Terminal
  <2>2. CASE ledger = {}
    BY <2>1, <2>2
  <2>3. CASE ledger # {}
    <3>1. final' = "PASS"
      BY <1>1, <2>3 DEF InspectionCompleted, InspectionOnly
    <3>2. PICK w \in Verdicts(ledger) :
            final' = IF uncertain THEN Combined({w, "UNKNOWN"}) ELSE w
      BY <1>1, <1>3, <2>3 DEF GeneralVerdict
    <3>3. Combined({w, "UNKNOWN"}) # "PASS"
      BY DEF Combined
    <3>4. "PASS" \in Verdicts(ledger)
      BY <3>1, <3>2, <3>3
    <3> QED
      BY <2>1, <3>4, PassIsTrue
  <2> QED
    BY <2>2, <2>3
<1>4. CASE ~ General
  <2>1. final' = "PASS" /\ DirectVerdict("PASS")
    BY <1>1, <1>4 DEF InspectionCompleted
  <2>2. PICK a \in request.offer : "PASS" \in Reading(a)
    BY <2>1 DEF DirectVerdict
  <2>3. a \in holds
    BY <2>2 DEF Reading, ReadingIn
  <2>4. request.offer = {a}
    BY <1>4, <2>2, OfferIsActions DEF General, Typed
  <2> QED
    BY <2>3, <2>4 DEF Typed, TypeOK
<1> QED
  BY <1>3, <1>4

\* What is attempted last of its effect stays in the ledger when another
\* attempt enters it.
LEMMA PutKeeps ==
    ASSUME NEW T, NEW L, NEW a, T \subseteq L, \A b \in T : Same(b, a) => b = a
    PROVE  T \subseteq Put(L, a)
  BY DEF Put, Same

LEMMA PutIsLast ==
    ASSUME NEW T, NEW L, NEW a
    PROVE  /\ \A b \in Put(T, a) : Same(b, a) => b = a
           /\ T \subseteq L => Put(T, a) \subseteq Put(L, a)
  BY DEF Put, Same

LEMMA RememberingIsKept ==
    Typed /\ Refusal /\ Remembering /\ [Next]_vars => Remembering'
<1> SUFFICES ASSUME Typed, Refusal, Remembering, [Next]_vars
             PROVE  Remembering'
  OBVIOUS
<1>t. TypeOK /\ WithinBudget(used) /\ attempt \in 0..(MaxAttempts - 1) /\ abort \in Reason
  BY DEF Typed, TypeOK, WithinBudget
<1>0. CASE UNCHANGED vars
  BY <1>0
  DEF vars, loop, task, history, Remembering, AttemptsAreRemembered, CompletionHolds, General
<1>1. CASE \/ PlannerFails \/ PlannerProposes \/ PlannerStops \/ NextAction \/ EndBatch
           \/ NeedUserInput \/ RunRaises \/ KeyboardInterrupt
  <2>1. /\ UNCHANGED <<request, ledger, attempted, denied>>
        /\ pc' \in {"FINAL", "STEP", "PLANNING", "BATCH", "ACTING", "WAITING_FOR_USER",
                    "FAILED", "CANCELLED"}
        /\ pc \in {"PLANNING", "STEP", "BATCH", "ACTING"} \/ pc' \in {"FAILED", "CANCELLED"}
    BY <1>1
    DEF PlannerFails, PlannerProposes, PlannerStops, NextAction, EndBatch, NeedUserInput,
        RunRaises, KeyboardInterrupt, task, history, Advance
  <2> QED
    BY <2>1 DEF Remembering, AttemptsAreRemembered, CompletionHolds, General, Terminal
<1>2. CASE StalePrecondition
  <2>1. pc' \in {"ACTING", "BATCH", "FINAL"}
    <3>1. Dispatch("STALE_STATE", Head(batch)) /\ "STALE_STATE" \in FailureClass
      BY <1>2 DEF StalePrecondition, FailureClass
    <3>2. ~ MayHaveHappened("STALE_STATE", Head(batch))
      BY DEF MayHaveHappened
    <3> QED
      BY <1>t, <3>1, <3>2, DispatchDoes
  <2>2. pc = "ACTING" /\ UNCHANGED <<request, ledger, attempted, denied>>
    BY <1>2 DEF StalePrecondition, task
  <2> QED
    BY <2>1, <2>2 DEF Remembering, AttemptsAreRemembered, CompletionHolds, General, Terminal
<1>3. CASE Refuse
  BY <1>3 DEF Refuse, Remembering, AttemptsAreRemembered, CompletionHolds
<1>4. CASE Execute
  <2>1. /\ UNCHANGED <<request, batch, ledger, denied>> /\ pc = "ACTING" /\ pc' = "VERIFYING"
        /\ Head(batch).gate = "ALLOW"
        /\ attempted' = IF Head(batch).via = "tracked" THEN Put(attempted, Head(batch))
                        ELSE attempted
    BY <1>4 DEF Execute
  <2>2. ~ denied /\ General => attempted \subseteq ledger
    BY <2>1 DEF Remembering, AttemptsAreRemembered, Terminal
  <2>3. CASE Head(batch).via = "tracked"
    BY <2>1, <2>2, <2>3, PutIsLast
    DEF Remembering, AttemptsAreRemembered, CompletionHolds, General
  <2>4. CASE Head(batch).via # "tracked"
    BY <2>1, <2>2, <2>4 DEF Remembering, AttemptsAreRemembered, CompletionHolds, General
  <2> QED
    BY <2>3, <2>4
<1>5. CASE VerifyCheckpoint
  <2>1. pc = "VERIFYING" /\ UNCHANGED <<request, attempted, denied>>
    BY <1>5 DEF VerifyCheckpoint
  <2>2. PICK check \in Verdict \cup {"none"} :
          /\ Checkpoint(Head(batch), check)
          /\ IF result.ok /\ check \in {"none", "PASS"}
             THEN Advance
             ELSE Dispatch(Classify(Head(batch), check), Head(batch))
    BY <1>5 DEF VerifyCheckpoint
  <2>3. \/ pc' \in {"ACTING", "STEP", "BATCH", "FINAL"}
        \/ pc' = "REOBSERVED" /\ batch' = batch
    <3>1. Classify(Head(batch), check) \in FailureClass
      BY <1>t DEF Classify, TypeOK, FailureClass
    <3> QED
      BY <1>t, <2>2, <3>1, DispatchDoes DEF Advance
  <2> SUFFICES ASSUME ~ denied
               PROVE  Remembering'
    BY <2>1, <2>3 DEF Remembering, AttemptsAreRemembered, CompletionHolds
  <2>4. General => attempted \subseteq ledger'
    BY <2>1, <2>2 DEF Checkpoint, Remembering, AttemptsAreRemembered, Terminal
  <2> QED
    BY <2>1, <2>3, <2>4 DEF Remembering, AttemptsAreRemembered, CompletionHolds, General
<1>6. CASE VerifyReobserved
  <2>1. /\ pc = "REOBSERVED" /\ UNCHANGED <<request, attempted, denied>>
        /\ pc' \in {"STEP", "BATCH", "FINAL"}
    BY <1>6 DEF VerifyReobserved, Advance, Leave
  <2>2. PICK check \in Verdict \cup {"none"} : Checkpoint(Head(batch), check)
    BY <1>6 DEF VerifyReobserved
  <2> SUFFICES ASSUME ~ denied
               PROVE  Remembering'
    BY <2>1 DEF Remembering, AttemptsAreRemembered, CompletionHolds
  <2>3. General => attempted \subseteq ledger'
    <3> SUFFICES ASSUME General
                 PROVE  attempted \subseteq ledger'
      OBVIOUS
    <3>1. /\ attempted \subseteq ledger
          /\ \A b \in attempted :
                Head(batch).via = "tracked" /\ Same(b, Head(batch)) => b = Head(batch)
      BY <2>1 DEF Remembering, AttemptsAreRemembered, Terminal
    <3>2. CASE Head(batch).via = "tracked"
      <4>1. ledger' = Put(ledger, Head(batch)) \/ ledger' = ledger
        BY <2>2 DEF Checkpoint
      <4> QED
        BY <3>1, <3>2, <4>1, PutKeeps
    <3>3. CASE Head(batch).via # "tracked"
      BY <2>2, <3>1, <3>3 DEF Checkpoint
    <3> QED
      BY <3>2, <3>3
  <2> QED
    BY <2>1, <2>3 DEF Remembering, AttemptsAreRemembered, CompletionHolds, General
<1>7. CASE VerifyFinal
  <2>1. pc' \in {"COMPLETED", "FAILED"} /\ UNCHANGED <<attempted, holds, denied>>
    BY <1>7 DEF VerifyFinal, history
  <2>2. pc' = "COMPLETED" => attempted \subseteq holds
    BY <1>7, FinalPassIsTrue
  <2> QED
    BY <2>1, <2>2 DEF Remembering, AttemptsAreRemembered, CompletionHolds, Terminal
<1>8. CASE Undo
  <2>1. pc \notin Terminal /\ UNCHANGED <<request, loop, task, history>>
    BY <1>8 DEF Undo
  <2> QED
    BY <2>1
    DEF loop, task, history, Remembering, AttemptsAreRemembered, CompletionHolds, General,
        Terminal
<1> QED
  BY <1>0, <1>1, <1>2, <1>3, <1>4, <1>5, <1>6, <1>7, <1>8 DEF Next

-----------------------------------------------------------------------------
(* The results.                                                            *)

\* In every reachable state the variables are typed and within the budget, a
\* repetition has been paid for, a refusal is on its way to the end, and what
\* was last attempted of every effect is in the ledger (runner.py, recovery.py).
THEOREM Soundness == Spec => []IInv
<1>1. Init => IInv
  <2>1. Init => Repetition /\ Refusal /\ Remembering
    BY DEF Init, Effort, Repetition, RepeatsArePaid, OnlySafeComesBack, Refusal, AbortEnds,
           DenialAborts, Remembering, AttemptsAreRemembered, CompletionHolds, Terminal
  <2> QED
    BY <2>1, TypesAtStart DEF IInv, Repetition, Refusal, Remembering
<1>2. IInv /\ [Next]_vars => IInv'
  <2> SUFFICES ASSUME IInv, [Next]_vars
               PROVE  IInv'
    OBVIOUS
  <2>1. Typed /\ Repetition /\ Refusal /\ Remembering
    BY DEF IInv, Repetition, Refusal, Remembering
  <2>2. Typed' /\ Repetition' /\ Refusal' /\ Remembering'
    BY <2>1, TypesAreKept, RepetitionIsKept, RefusalIsKept, RememberingIsKept
  <2> QED
    BY <2>2 DEF IInv, Repetition, Refusal, Remembering
<1> QED
  BY <1>1, <1>2, PTL DEF Spec

\* For every budget: a run repeats executions no more often than the retries it
\* has spent, which never exceed its limit (recovery.py, RecoveryBudget.spend).
THEOREM BudgetHolds == Spec => [](RepeatsAreBudgeted /\ repeats <= MaxRetries)
<1>1. IInv => RepeatsAreBudgeted /\ repeats <= MaxRetries
  <2> SUFFICES ASSUME IInv
               PROVE  RepeatsAreBudgeted /\ repeats <= MaxRetries
    OBVIOUS
  <2>1. repeats <= used.retries /\ used.retries <= MaxRetries
    BY DEF IInv, RepeatsArePaid, Typed, TypeOK
  <2>2. repeats \in Nat /\ used.retries \in Nat
    BY DEF IInv, Typed, TypeOK, Effort
  <2> QED
    BY <2>1, <2>2, LimitsAreNat DEF RepeatsAreBudgeted
<1> QED
  BY <1>1, Soundness, PTL

\* For every request: a run in which policy refused an action never ends in
\* success (runner.py, _dispatch; api.py, _status).
THEOREM DenialIsFinal == Spec => []DenialIsNotSuccess
<1>1. IInv => DenialIsNotSuccess
  BY DEF IInv, AbortEnds, DenialAborts, DenialIsNotSuccess, Status, Terminal
<1> QED
  BY <1>1, Soundness, PTL

\* For every request: what a completed run last attempted of every tracked
\* effect holds when it is reported (general_task.py, verify_final).
THEOREM CompletionIsTrue == Spec => []CompletionHolds
<1>1. IInv => CompletionHolds
  BY DEF IInv
<1> QED
  BY <1>1, Soundness, PTL

\* For every request: recovery executes again an action whose success could not
\* be verified only if it is safe to repeat, or was a skill's and none that a
\* person must be asked about (runner.py, _dispatch and _run_action).
THEOREM UnseenRepeatsAsItMay == Spec => RepeatsOfUnseen
<1>1. IInv /\ [Next]_vars =>
        [ran = "inconclusive" /\ Executes => MayComeBack(Head(batch))]_vars
  BY DEF IInv, OnlySafeComesBack, Executes
<1>2. IInv /\ [Next]_vars =>
        [ran = "inconclusive" /\ Executes =>
            LET a == Head(batch)
            IN  a.safety = "SAFE_TO_RETRY" \/ (a.via = "skill" /\ a.safety # "ASK_USER")]_vars
  BY <1>1 DEF MayComeBack
<1> QED
  BY <1>2, Soundness, PTL DEF Spec, RepeatsOfUnseen

=============================================================================
