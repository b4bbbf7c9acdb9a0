---------------------------- MODULE SchedulerProofs ----------------------------
(***************************************************************************)
(* Proofs about Scheduler, for every number of steps, every acyclic        *)
(* workflow, every set of resources and every limit.                       *)
(***************************************************************************)
EXTENDS Scheduler, FiniteSetTheorems, TLAPS

LEMMA ReportedAreStatuses == Reported \subseteq StepStatus \ {"RUNNING", "READY", "PENDING", "WAITING_RESOURCE"}
  BY StatusesAreKnown DEF Answers, StepStatus

LEMMA AggregateIsStatus == \A st : Aggregate(st) \in WorkflowStatus
  BY DEF Aggregate, WorkflowStatus

LEMMA VerdictIsStatus == Verdict \in WorkflowStatus
  BY AggregateIsStatus DEF Verdict, WorkflowStatus

LEMMA ScannedIsStatus ==
    ASSUME status \in [Step -> StepStatus]
    PROVE  Scanned \in [Step -> StepStatus]
  BY DEF Scanned, StepStatus

\* The scan moves open steps only, and to READY or BLOCKED.
LEMMA ScanMovesOpenSteps ==
    ASSUME NEW n \in Step
    PROVE  \/ status[n] \in Open /\ Scanned[n] \in {"READY", "BLOCKED"}
           \/ n \notin ReadyNodes /\ Scanned[n] = status[n]
  BY DEF Scanned, ReadyNodes, Doomed

-----------------------------------------------------------------------------
(* Type correctness: a step that has returned has an answer.               *)

Answered == \A n \in Step : thread[n] = "returned" => answer[n] \in Answer

Typed == TypeOK /\ Answered

LEMMA TypedInit == Init => Typed
<1> SUFFICES ASSUME Init
             PROVE  Typed
  OBVIOUS
<1>1. deps \in [Step -> SUBSET Step] /\ key \in [Step -> Resource \cup {NoResource}]
      /\ needs \in [Step -> SUBSET Key]
  BY DEF Init
<1>2. status \in [Step -> StepStatus] /\ verified \subseteq Step
      /\ published \in [Key -> SUBSET Step]
  BY StatusesAreKnown DEF Init
<1>3. outcome \in WorkflowStatus /\ cancel \in BOOLEAN
  BY DEF Init, WorkflowStatus
<1>4. pc \in {"idle", "round", "batch", "join"} /\ rounds \in 0..MaxRounds
      /\ batch \subseteq Step /\ futures \subseteq Step
  BY BoundsAreNat DEF Init
<1>5. thread \in [Step -> {"none", "queued", "executing", "returned"}]
      /\ answer \in [Step -> Answer \cup {NoAnswer}]
      /\ holder \in [Resource -> Step \cup {Free, Outsider}]
  BY DEF Init
<1>6. runs \in [Step -> Nat] /\ allowance \in [Step -> Nat]
  BY DEF Init
<1>7. Answered
  BY DEF Init, Answered
<1> QED
  BY <1>1, <1>2, <1>3, <1>4, <1>5, <1>6, <1>7 DEF Typed, TypeOK

LEMMA TypedStep == Typed /\ [Next]_vars => Typed'
<1> SUFFICES ASSUME Typed, [Next]_vars
             PROVE  Typed'
  OBVIOUS
<1> USE DEF Typed, TypeOK, Answered
<1>1. CASE Run
  BY <1>1, BoundsAreNat DEF Run, graph, steps, pool
<1>2. CASE CancelRound
  BY <1>2, BoundsAreNat DEF CancelRound, RoundsLeft, graph, pool, StepStatus, WorkflowStatus
<1>3. CASE ScanRound
  <2>1. Scanned \in [Step -> StepStatus] /\ Verdict \in WorkflowStatus
    BY ScannedIsStatus, VerdictIsStatus
  <2>2. ReadyNodes \subseteq Step
    BY DEF ReadyNodes
  <2> QED
    BY <1>3, <2>1, <2>2, BoundsAreNat DEF ScanRound, RoundsLeft, graph, pool
<1>4. CASE GiveUp
  BY <1>4 DEF GiveUp, graph, steps, pool
<1>5. ASSUME NEW n \in Step, Submit(n)
      PROVE  Typed'
  BY <1>5 DEF Submit, Turn, graph, StepStatus
<1>5a. ASSUME NEW n \in Step, Defer(n)
       PROVE  Typed'
  BY <1>5a DEF Defer, Turn, graph, pool, StepStatus
<1>6. CASE EndBatch
  BY <1>6 DEF EndBatch, graph, steps, pool
<1>7. ASSUME NEW n \in Step, Join(n)
      PROVE  Typed'
  <2>1. answer[n] \in Answer /\ answer[n].status \in StepStatus
    BY <1>7, ReportedAreStatuses DEF Join, Answer
  <2>2. status' \in [Step -> StepStatus] /\ verified' \subseteq Step
    BY <1>7, <2>1 DEF Join, Publishes, Released
  <2>3. published' \in [Key -> SUBSET Step]
    BY <1>7 DEF Join, Publishes, Released
  <2>4. futures' \subseteq Step /\ holder' \in [Resource -> Step \cup {Free, Outsider}]
    BY <1>7 DEF Join, Publishes, Released
  <2>5. /\ thread' \in [Step -> {"none", "queued", "executing", "returned"}]
        /\ answer' \in [Step -> Answer \cup {NoAnswer}]
        /\ Answered'
    BY <1>7 DEF Join, Publishes, Released
  <2> QED
    BY <1>7, <2>2, <2>3, <2>4, <2>5 DEF Join, Publishes, Released, graph
<1>8. CASE EndRound
  BY <1>8, AggregateIsStatus DEF EndRound, graph, steps, pool
<1>9. ASSUME NEW n \in Step, Begin(n)
      PROVE  Typed'
  BY <1>9 DEF Begin, graph, steps, main
<1>10. ASSUME NEW n \in Step, Finish(n)
       PROVE  Typed'
  BY <1>10 DEF Finish, graph, steps, main
<1>11. ASSUME NEW n \in Step, RecoverFailedNode(n)
       PROVE  Typed'
  BY <1>11 DEF RecoverFailedNode, graph, main, pool, StepStatus
<1>12. CASE RequestCancel
  BY <1>12 DEF RequestCancel, graph, steps, main, pool
<1>13. ASSUME NEW r \in Resource, OutsiderTakes(r) \/ OutsiderReleases(r)
       PROVE  Typed'
  BY <1>13 DEF OutsiderTakes, OutsiderReleases, graph, steps, main, pool
<1>14. CASE RefuseRun \/ UNCHANGED vars
  BY <1>14 DEF RefuseRun, vars, graph, steps, main, pool
<1> QED
  BY <1>1, <1>2, <1>3, <1>4, <1>5, <1>6, <1>7, <1>8, <1>9, <1>10, <1>11, <1>12,
     <1>13, <1>14, <1>5a DEF Next, MainStep, Execute

\* Every reachable state is well typed.
THEOREM Typing == Spec => []TypeOK
<1>1. Typed => TypeOK
  BY DEF Typed
<1> QED
  BY TypedInit, TypedStep, <1>1, PTL DEF Spec

-----------------------------------------------------------------------------
(* What is known of a step, a lock and the batch in every phase of a run.  *)

BatchIsReady ==
    \A n \in batch : status[n] = "READY" /\ deps[n] \subseteq Completed

FuturesRun ==
    \A n \in Step :
        /\ n \in futures <=> thread[n] # "none"
        /\ n \in futures <=> status[n] = "RUNNING"

FuturesAreGuarded ==
    \A n \in futures :
        /\ deps[n] \subseteq Completed
        /\ key[n] \in Resource => holder[key[n]] = n

LocksHaveHolders ==
    \A r \in Resource :
        holder[r] \in Step => holder[r] \in futures /\ key[holder[r]] = r

PhasesAreClean ==
    /\ pc # "batch" => batch = {}
    /\ pc \in {"idle", "round"} => futures = {}

FewFutures == Cardinality(futures) <= MaxConcurrency

Sound ==
    /\ BatchIsReady
    /\ FuturesRun
    /\ FuturesAreGuarded
    /\ LocksHaveHolders
    /\ PhasesAreClean
    /\ FewFutures

LEMMA StepsAreFinite == \A S : S \subseteq Step => IsFiniteSet(S) /\ Cardinality(S) \in Nat
<1>1. IsFiniteSet(Step)
  BY FS_Interval, BoundsAreNat DEF Step
<1> QED
  BY <1>1, FS_Subset, FS_CardinalityType

LEMMA SoundInit == Init => Sound
<1> SUFFICES ASSUME Init
             PROVE  Sound
  OBVIOUS
<1>1. futures = {} /\ batch = {}
  BY DEF Init
<1>2. \A n \in Step : thread[n] = "none" /\ status[n] # "RUNNING"
  BY StatusesAreKnown DEF Init
<1>3. \A r \in Resource : holder[r] \notin Step
  BY NamesAreDistinct DEF Init
<1>4. FewFutures
  BY <1>1, FS_EmptySet, BoundsAreNat DEF FewFutures
<1> QED
  BY <1>1, <1>2, <1>3, <1>4
     DEF Sound, BatchIsReady, FuturesRun, FuturesAreGuarded, LocksHaveHolders, PhasesAreClean

\* A change of status that leaves completed and running steps as they are,
\* between runs or rounds, disturbs nothing.
LEMMA RestIsSound ==
    ASSUME Typed, Sound, futures = {}, futures' = {},
           UNCHANGED <<deps, key, thread, holder>>,
           \A n \in Step : status'[n] = "RUNNING" => status[n] = "RUNNING",
           BatchIsReady', PhasesAreClean'
    PROVE  Sound'
<1>1. FuturesRun'
  BY DEF Sound, FuturesRun
<1>2. FuturesAreGuarded' /\ LocksHaveHolders'
  BY DEF Sound, FuturesAreGuarded, LocksHaveHolders
<1>3. FewFutures'
  BY DEF Sound, FewFutures
<1> QED
  BY <1>1, <1>2, <1>3 DEF Sound

LEMMA ScanKeepsCompleted ==
    ASSUME Typed, status' = Scanned, UNCHANGED deps
    PROVE  Completed' = Completed
<1>1. \A n \in Step : Scanned[n] = "COMPLETED" <=> status[n] = "COMPLETED"
  BY ScanMovesOpenSteps DEF Open
<1> QED
  BY <1>1 DEF Completed

LEMMA ScanIsSound == Typed /\ Sound /\ ScanRound => Sound'
<1> SUFFICES ASSUME Typed, Sound, ScanRound
             PROVE  Sound'
  OBVIOUS
<1>1. status' = Scanned /\ batch' = ReadyNodes
      /\ UNCHANGED <<deps, key, futures, thread, holder>>
      /\ pc = "round" /\ pc' \in {"batch", "idle"}
      /\ (pc' = "batch" <=> ReadyNodes # {})
  BY DEF ScanRound, graph, pool
<1>2. futures = {} /\ futures' = {}
  BY <1>1 DEF Sound, PhasesAreClean
<1>3. \A n \in Step : status'[n] = "RUNNING" => status[n] = "RUNNING"
  BY <1>1, ScanMovesOpenSteps
<1>4. Completed' = Completed
  BY <1>1, ScanKeepsCompleted
<1>5. BatchIsReady'
  BY <1>1, <1>4 DEF BatchIsReady, ReadyNodes, Scanned
<1>6. PhasesAreClean'
  BY <1>1, <1>2 DEF PhasesAreClean
<1> QED
  BY <1>1, <1>2, <1>3, <1>5, <1>6, RestIsSound

LEMMA SubmitIsSound ==
    ASSUME Typed, Sound, NEW n \in Step, Submit(n)
    PROVE  Sound'
<1>1. /\ pc = "batch" /\ pc' = "batch" /\ n \in batch /\ batch' = batch \ {n}
      /\ futures' = futures \cup {n}
      /\ status' = [status EXCEPT ![n] = "RUNNING"]
      /\ thread' = [thread EXCEPT ![n] = "queued"]
      /\ holder' = [r \in Resource |-> IF r = key[n] THEN n ELSE holder[r]]
      /\ UNCHANGED <<deps, key>>
      /\ ~Full /\ Available(n)
  BY DEF Submit, Turn, graph
<1>2. status[n] = "READY" /\ deps[n] \subseteq Completed /\ n \notin futures
  BY <1>1 DEF Sound, BatchIsReady, FuturesRun
<1>3. Completed' = Completed
  BY <1>1, <1>2 DEF Completed, Typed, TypeOK
<1>4. BatchIsReady'
  BY <1>1, <1>3 DEF Sound, BatchIsReady, Typed, TypeOK
<1>5. FuturesRun'
  BY <1>1 DEF Sound, FuturesRun, Typed, TypeOK
<1>6. FuturesAreGuarded'
  <2>1. \A m \in futures : key[m] \in Resource => key[m] # key[n]
    BY <1>1, NamesAreDistinct DEF Sound, FuturesAreGuarded, Available, Typed, TypeOK
  <2> QED
    BY <1>1, <1>2, <1>3, <2>1 DEF Sound, FuturesAreGuarded, Typed, TypeOK
<1>7. LocksHaveHolders'
  BY <1>1 DEF Sound, LocksHaveHolders, Typed, TypeOK
<1>8. PhasesAreClean'
  BY <1>1 DEF PhasesAreClean
<1>9. FewFutures'
  <2>1. IsFiniteSet(futures) /\ Cardinality(futures) \in Nat
    BY StepsAreFinite DEF Typed, TypeOK
  <2>2. Cardinality(futures') = Cardinality(futures) + 1
    BY <1>1, <1>2, <2>1, FS_AddElement
  <2>3. Cardinality(futures) < MaxConcurrency
    BY <1>1, <2>1, BoundsAreNat DEF Full
  <2> QED
    BY <2>1, <2>2, <2>3, BoundsAreNat DEF FewFutures
<1> QED
  BY <1>4, <1>5, <1>6, <1>7, <1>8, <1>9 DEF Sound

LEMMA DeferIsSound ==
    ASSUME Typed, Sound, NEW n \in Step, Defer(n)
    PROVE  Sound'
<1>1. /\ pc = "batch" /\ pc' = "batch" /\ n \in batch /\ batch' = batch \ {n}
      /\ status' = [status EXCEPT ![n] = "WAITING_RESOURCE"]
      /\ UNCHANGED <<deps, key, futures, thread, holder>>
  BY DEF Defer, Turn, graph, pool
<1>2. status[n] = "READY" /\ n \notin futures
  BY <1>1 DEF Sound, BatchIsReady, FuturesRun
<1>3. Completed' = Completed
  BY <1>1, <1>2 DEF Completed, Typed, TypeOK
<1>4. BatchIsReady'
  BY <1>1, <1>3 DEF Sound, BatchIsReady, Typed, TypeOK
<1>5. FuturesRun'
  BY <1>1, <1>2 DEF Sound, FuturesRun, Typed, TypeOK
<1>6. FuturesAreGuarded' /\ LocksHaveHolders' /\ PhasesAreClean' /\ FewFutures'
  BY <1>1, <1>3 DEF Sound, FuturesAreGuarded, LocksHaveHolders, PhasesAreClean, FewFutures
<1> QED
  BY <1>4, <1>5, <1>6 DEF Sound

LEMMA JoinIsSound ==
    ASSUME Typed, Sound, NEW n \in Step, Join(n)
    PROVE  Sound'
<1>1. /\ pc = "join" /\ pc' = "join" /\ n \in futures /\ futures' = futures \ {n}
      /\ status' = [status EXCEPT ![n] = answer[n].status]
      /\ thread' = [thread EXCEPT ![n] = "none"]
      /\ holder' = [r \in Resource |->
             IF r = key[n] /\ holder[r] = n THEN Free ELSE holder[r]]
      /\ UNCHANGED <<deps, key, batch>>
  BY DEF Join, Publishes, Released, graph
<1>2. answer[n].status # "RUNNING"
  BY ReportedAreStatuses DEF Join, Typed, Answered, Answer
<1>3. Completed \subseteq Completed'
  BY <1>1 DEF Completed, Sound, FuturesRun, Typed, TypeOK
<1>4. batch' = {}
  BY <1>1 DEF Sound, PhasesAreClean
<1>5. FuturesRun'
  BY <1>1, <1>2 DEF Sound, FuturesRun, Typed, TypeOK
<1>6. FuturesAreGuarded'
  BY <1>1, <1>3 DEF Sound, FuturesAreGuarded, Typed, TypeOK
<1>7. LocksHaveHolders'
  BY <1>1, NamesAreDistinct DEF Sound, LocksHaveHolders, Typed, TypeOK
<1>8. BatchIsReady' /\ PhasesAreClean'
  BY <1>1, <1>4 DEF BatchIsReady, PhasesAreClean
<1>9. FewFutures'
  <2>1. IsFiniteSet(futures) /\ Cardinality(futures) \in Nat
    BY StepsAreFinite DEF Typed, TypeOK
  <2>2. Cardinality(futures') = Cardinality(futures) - 1
    BY <1>1, <2>1, FS_RemoveElement
  <2> QED
    BY <2>1, <2>2, BoundsAreNat DEF Sound, FewFutures
<1> QED
  BY <1>5, <1>6, <1>7, <1>8, <1>9 DEF Sound

LEMMA SoundStep == Typed /\ Sound /\ [Next]_vars => Sound'
<1> SUFFICES ASSUME Typed, Sound, [Next]_vars
             PROVE  Sound'
  OBVIOUS
<1>1. CASE Run \/ GiveUp
  <2>1. UNCHANGED <<deps, key, status, thread, holder, futures, batch>>
        /\ pc \in {"idle", "round"} /\ pc' \in {"idle", "round"}
    BY <1>1 DEF Run, GiveUp, graph, steps, pool
  <2>2. futures = {} /\ batch = {}
    BY <2>1 DEF Sound, PhasesAreClean
  <2> QED
    BY <2>1, <2>2, RestIsSound DEF BatchIsReady, PhasesAreClean
<1>2. CASE CancelRound
  <2>1. /\ UNCHANGED <<deps, key, thread, holder, futures, batch>>
        /\ pc = "round" /\ pc' = "idle"
        /\ \A n \in Step : status'[n] # "RUNNING"
    BY <1>2 DEF CancelRound, graph, pool
  <2>2. futures = {} /\ batch = {}
    BY <2>1 DEF Sound, PhasesAreClean
  <2> QED
    BY <2>1, <2>2, RestIsSound DEF BatchIsReady, PhasesAreClean
<1>3. CASE ScanRound
  BY <1>3, ScanIsSound
<1>4. ASSUME NEW n \in Step, Submit(n) \/ Defer(n) \/ Join(n)
      PROVE  Sound'
  BY <1>4, SubmitIsSound, DeferIsSound, JoinIsSound
<1>5. CASE EndBatch \/ EndRound
  <2>1. /\ UNCHANGED <<deps, key, status, thread, holder, futures, batch>>
        /\ pc \in {"batch", "join"} /\ batch = {}
        /\ pc' # "batch"
        /\ (pc' # "join" => futures = {})
    BY <1>5 DEF EndBatch, EndRound, graph, steps, pool, Sound, PhasesAreClean
  <2>2. PhasesAreClean'
    BY <2>1 DEF PhasesAreClean
  <2> QED
    BY <2>1, <2>2 DEF Sound, BatchIsReady, FuturesRun, FuturesAreGuarded,
                      LocksHaveHolders, FewFutures, Completed
<1>6. ASSUME NEW n \in Step, Execute(n)
      PROVE  Sound'
  <2>1. /\ UNCHANGED <<deps, key, status, holder, futures, batch, pc>>
        /\ \A m \in Step : thread'[m] = "none" <=> thread[m] = "none"
    BY <1>6 DEF Execute, Begin, Finish, graph, steps, main, Typed, TypeOK
  <2> QED
    BY <2>1 DEF Sound, BatchIsReady, FuturesRun, FuturesAreGuarded,
                LocksHaveHolders, PhasesAreClean, FewFutures, Completed
<1>7. ASSUME NEW n \in Step, RecoverFailedNode(n)
      PROVE  Sound'
  <2>1. /\ UNCHANGED <<deps, key, thread, holder, futures, batch>>
        /\ pc = "idle" /\ pc' = "idle"
        /\ \A m \in Step : status'[m] = "RUNNING" => status[m] = "RUNNING"
    BY <1>7 DEF RecoverFailedNode, graph, main, pool, Typed, TypeOK
  <2>2. futures = {} /\ batch = {}
    BY <2>1 DEF Sound, PhasesAreClean
  <2> QED
    BY <2>1, <2>2, RestIsSound DEF BatchIsReady, PhasesAreClean
<1>8. ASSUME NEW r \in Resource, OutsiderTakes(r) \/ OutsiderReleases(r)
      PROVE  Sound'
  <2>1. /\ UNCHANGED <<deps, key, status, thread, futures, batch, pc>>
        /\ \A s \in Resource : \/ holder'[s] = holder[s]
                               \/ holder[s] \notin Step /\ holder'[s] \notin Step
    BY <1>8, NamesAreDistinct
       DEF OutsiderTakes, OutsiderReleases, graph, steps, main, pool, Typed, TypeOK
  <2>2. FuturesAreGuarded' /\ LocksHaveHolders'
    BY <2>1 DEF Sound, FuturesAreGuarded, LocksHaveHolders, Completed, Typed, TypeOK
  <2> QED
    BY <2>1, <2>2 DEF Sound, BatchIsReady, FuturesRun, PhasesAreClean, FewFutures, Completed
<1>9. CASE RequestCancel \/ RefuseRun \/ UNCHANGED vars
  <2>1. UNCHANGED <<deps, key, status, thread, holder, futures, batch, pc>>
    BY <1>9 DEF RequestCancel, RefuseRun, vars, graph, steps, main, pool
  <2> QED
    BY <2>1 DEF Sound, BatchIsReady, FuturesRun, FuturesAreGuarded,
                LocksHaveHolders, PhasesAreClean, FewFutures, Completed
<1> QED
  BY <1>1, <1>2, <1>3, <1>4, <1>5, <1>6, <1>7, <1>8, <1>9 DEF Next, MainStep

\* The invariant the theorems below rest on.
THEOREM Soundness == Spec => [](Typed /\ Sound)
<1>1. Init => Typed /\ Sound
  BY TypedInit, SoundInit
<1>2. Typed /\ Sound /\ [Next]_vars => Typed' /\ Sound'
  BY TypedStep, SoundStep
<1> QED
  BY <1>1, <1>2, PTL DEF Spec

-----------------------------------------------------------------------------
(* Safety.                                                                 *)

LEMMA FewExecuting ==
    ASSUME Typed, Sound
    PROVE  Cardinality(Executing) <= MaxConcurrency
<1>1. Executing \subseteq futures
  BY DEF Executing, Sound, FuturesRun
<1>2. IsFiniteSet(futures) /\ Cardinality(futures) \in Nat
  BY StepsAreFinite DEF Typed, TypeOK
<1>3. Cardinality(Executing) <= Cardinality(futures) /\ Cardinality(Executing) \in Nat
  BY <1>1, <1>2, FS_Subset, FS_CardinalityType
<1> QED
  BY <1>2, <1>3, BoundsAreNat DEF Sound, FewFutures

\* Whenever a step executes, its prerequisites are complete, its resource is
\* its own, and the pool is within its limit.
THEOREM Guarding == Spec => []ExecutionIsGuarded
<1>1. Typed /\ Sound => ExecutionIsGuarded
  <2> SUFFICES ASSUME Typed, Sound
               PROVE  ExecutionIsGuarded
    OBVIOUS
  <2>1. ASSUME NEW n \in Executing
        PROVE  /\ \A d \in deps[n] : status[d] = "COMPLETED"
               /\ key[n] # NoResource => holder[key[n]] = n
    <3>1. n \in Step /\ n \in futures
      BY DEF Executing, Sound, FuturesRun
    <3> QED
      BY <3>1 DEF Sound, FuturesAreGuarded, Completed, Typed, TypeOK
  <2> QED
    BY <2>1, FewExecuting DEF ExecutionIsGuarded
<1> QED
  BY <1>1, Soundness, PTL

\* A run that has returned leaves neither a thread nor a lock behind.
THEOREM CleanReturn == Spec => []NothingIsLeftBehind
<1>1. Typed /\ Sound => NothingIsLeftBehind
  BY DEF NothingIsLeftBehind, Typed, TypeOK, Sound, PhasesAreClean, FuturesRun, LocksHaveHolders
<1> QED
  BY <1>1, Soundness, PTL

-----------------------------------------------------------------------------
(* No step is executed twice on one request: an open or queued step has an *)
(* execution left.                                                         *)

Owed(n) == IF status[n] \in Open \/ thread[n] = "queued" THEN 1 ELSE 0

Accounted == \A n \in Step : runs[n] + Owed(n) <= allowance[n]

LEMMA AccountedInit == Init => Accounted
<1> SUFFICES ASSUME Init, NEW n \in Step
             PROVE  runs[n] + Owed(n) <= allowance[n]
  BY DEF Accounted
<1> QED
  BY DEF Init, Owed

\* A step that opens no task and queues none keeps the account.
LEMMA SameAccount ==
    ASSUME Typed, Accounted, UNCHANGED <<runs, allowance>>,
           \A n \in Step : Owed(n)' = 1 => Owed(n) = 1
    PROVE  Accounted'
<1> SUFFICES ASSUME NEW n \in Step
             PROVE  runs'[n] + Owed(n)' <= allowance'[n]
  BY DEF Accounted
<1>1. Owed(n) \in {0, 1} /\ Owed(n)' \in {0, 1}
  BY DEF Owed
<1> QED
  BY <1>1 DEF Accounted, Typed, TypeOK

LEMMA AccountedStep == Typed /\ Sound /\ Accounted /\ [Next]_vars => Accounted'
<1> SUFFICES ASSUME Typed, Sound, Accounted, [Next]_vars
             PROVE  Accounted'
  OBVIOUS
<1>1. CASE Run \/ GiveUp \/ EndBatch \/ EndRound \/ RequestCancel \/ RefuseRun \/ UNCHANGED vars
  <2>1. UNCHANGED <<status, thread, runs, allowance>>
    BY <1>1 DEF Run, GiveUp, EndBatch, EndRound, RequestCancel, RefuseRun,
                vars, graph, steps, main, pool
  <2> QED
    BY <2>1, SameAccount DEF Owed
<1>2. CASE CancelRound
  <2>1. UNCHANGED <<thread, runs, allowance>> /\ \A n \in Step : status'[n] \notin Open
    BY <1>2 DEF CancelRound, pool, Open
  <2> QED
    BY <2>1, SameAccount DEF Owed
<1>3. CASE ScanRound
  <2>1. UNCHANGED <<thread, runs, allowance>> /\ status' = Scanned
    BY <1>3 DEF ScanRound, pool
  <2>2. \A n \in Step : status'[n] \in Open => status[n] \in Open
    BY <2>1, ScanMovesOpenSteps
  <2> QED
    BY <2>1, <2>2, SameAccount DEF Owed
<1>4. ASSUME NEW n \in Step, Submit(n)
      PROVE  Accounted'
  <2>1. status[n] = "READY"
    BY <1>4 DEF Submit, Turn, Sound, BatchIsReady
  <2>2. /\ UNCHANGED <<runs, allowance>>
        /\ status' = [status EXCEPT ![n] = "RUNNING"]
        /\ thread' = [thread EXCEPT ![n] = "queued"]
    BY <1>4 DEF Submit
  <2> QED
    BY <2>1, <2>2, SameAccount DEF Owed, Open, Typed, TypeOK
<1>5. ASSUME NEW n \in Step, Defer(n)
      PROVE  Accounted'
  <2>1. status[n] = "READY"
    BY <1>5 DEF Defer, Turn, Sound, BatchIsReady
  <2>2. /\ UNCHANGED <<runs, allowance, thread>>
        /\ status' = [status EXCEPT ![n] = "WAITING_RESOURCE"]
    BY <1>5 DEF Defer, pool
  <2> QED
    BY <2>1, <2>2, SameAccount DEF Owed, Open, Typed, TypeOK
<1>6. ASSUME NEW n \in Step, Join(n)
      PROVE  Accounted'
  <2>1. answer[n].status \notin Open
    BY <1>6, ReportedAreStatuses DEF Join, Typed, Answered, Answer, Open
  <2>2. /\ UNCHANGED <<runs, allowance>>
        /\ status' = [status EXCEPT ![n] = answer[n].status]
        /\ thread' = [thread EXCEPT ![n] = "none"]
    BY <1>6 DEF Join
  <2> QED
    BY <2>1, <2>2, SameAccount DEF Owed, Typed, TypeOK
<1>7. ASSUME NEW n \in Step, Begin(n)
      PROVE  Accounted'
  <2>1. status[n] = "RUNNING" /\ Owed(n) = 1
    BY <1>7 DEF Begin, Sound, FuturesRun, Owed
  <2>2. /\ UNCHANGED <<status, allowance>>
        /\ runs' = [runs EXCEPT ![n] = @ + 1]
        /\ thread' = [thread EXCEPT ![n] = "executing"]
    BY <1>7 DEF Begin, steps
  <2>3. Owed(n)' = 0
    BY <2>1, <2>2 DEF Owed, Open, Typed, TypeOK
  <2>4. \A m \in Step \ {n} : Owed(m)' = Owed(m) /\ runs'[m] = runs[m]
    BY <2>2 DEF Owed, Typed, TypeOK
  <2>5. runs'[n] + Owed(n)' <= allowance'[n]
    BY <2>1, <2>2, <2>3 DEF Accounted, Typed, TypeOK
  <2> QED
    BY <2>2, <2>4, <2>5 DEF Accounted
<1>8. ASSUME NEW n \in Step, Finish(n)
      PROVE  Accounted'
  <2>1. /\ UNCHANGED <<status, runs, allowance>>
        /\ thread' = [thread EXCEPT ![n] = "returned"]
    BY <1>8 DEF Finish, steps
  <2> QED
    BY <2>1, SameAccount DEF Owed, Typed, TypeOK
<1>9. ASSUME NEW n \in Step, RecoverFailedNode(n)
      PROVE  Accounted'
  <2>1. status[n] \notin Open /\ status[n] # "RUNNING"
    BY <1>9 DEF RecoverFailedNode, Open
  <2>2. thread[n] = "none" /\ Owed(n) = 0
    BY <2>1 DEF Sound, FuturesRun, Owed
  <2>3. /\ UNCHANGED <<thread, runs>>
        /\ status' = [status EXCEPT ![n] = "READY"]
        /\ allowance' = [allowance EXCEPT ![n] = @ + 1]
    BY <1>9 DEF RecoverFailedNode, pool
  <2>4. \A m \in Step \ {n} : Owed(m)' = Owed(m) /\ allowance'[m] = allowance[m]
    BY <2>3 DEF Owed, Typed, TypeOK
  <2>5. Owed(n)' \in {0, 1}
    BY DEF Owed
  <2>6. runs'[n] + Owed(n)' <= allowance'[n]
    BY <2>2, <2>3, <2>5 DEF Accounted, Typed, TypeOK
  <2> QED
    BY <2>3, <2>4, <2>6 DEF Accounted
<1>10. ASSUME NEW r \in Resource, OutsiderTakes(r) \/ OutsiderReleases(r)
       PROVE  Accounted'
  <2>1. UNCHANGED <<status, thread, runs, allowance>>
    BY <1>10 DEF OutsiderTakes, OutsiderReleases, steps, pool
  <2> QED
    BY <2>1, SameAccount DEF Owed
<1> QED
  BY <1>1, <1>2, <1>3, <1>4, <1>5, <1>6, <1>7, <1>8, <1>9, <1>10
     DEF Next, MainStep, Execute

\* However a workflow is deferred, joined, cancelled and run again, a step is
\* executed at most once, and once more per explicit recovery.
THEOREM NoReplay == Spec => []NothingIsReplayed
<1>1. Init => Typed /\ Sound /\ Accounted
  BY TypedInit, SoundInit, AccountedInit
<1>2. Typed /\ Sound /\ Accounted /\ [Next]_vars => Typed' /\ Sound' /\ Accounted'
  BY TypedStep, SoundStep, AccountedStep
<1>3. Typed /\ Accounted => NothingIsReplayed
  <2> SUFFICES ASSUME Typed, Accounted, NEW n \in Step
               PROVE  runs[n] <= allowance[n]
    BY DEF NothingIsReplayed
  <2>1. Owed(n) \in {0, 1}
    BY DEF Owed
  <2> QED
    BY <2>1 DEF Accounted, Typed, TypeOK
<1> QED
  BY <1>1, <1>2, <1>3, PTL DEF Spec

-----------------------------------------------------------------------------
(* The scheduler implements DagExecution: a step is active from its        *)
(* submission until it is joined.                                          *)

Active == {n \in Step : thread[n] # "none"}

LEMMA ActiveAreFutures ==
    ASSUME Typed, Sound
    PROVE  Active = futures
  BY DEF Active, Sound, FuturesRun, Typed, TypeOK

LEMMA DagStutters ==
    ASSUME UNCHANGED <<deps, key>>, Active' = Active, Completed' = Completed
    PROVE  [Dag!Next]_(Dag!dvars)
  BY DEF Dag!dvars, Active

\* The abstract module counts with its own instance of FiniteSets.
LEMMA SameCardinality == \A S : Dag!Cardinality(S) = Cardinality(S)
  BY Zenon DEF Dag!Cardinality, Cardinality

LEMMA SubmitStarts ==
    ASSUME Typed, Sound, Sound', Typed', NEW n \in Step, Submit(n)
    PROVE  Dag!Start(n)
<1>1. /\ n \in batch /\ futures' = futures \cup {n}
      /\ status' = [status EXCEPT ![n] = "RUNNING"]
      /\ UNCHANGED <<deps, key>>
      /\ ~Full /\ Available(n)
  BY DEF Submit, Turn, graph
<1>2. Active = futures /\ Active' = futures'
  BY ActiveAreFutures DEF Active, Typed, TypeOK, Sound, FuturesRun
<1>3. status[n] = "READY" /\ deps[n] \subseteq Completed
  BY <1>1 DEF Sound, BatchIsReady
<1>4. n \notin Active /\ n \notin Completed
  BY <1>2, <1>3 DEF Sound, FuturesRun, Completed
<1>5. Completed' = Completed
  BY <1>1, <1>3 DEF Completed, Typed, TypeOK
<1>6. \A m \in Active : ~(key[m] = key[n] /\ key[n] # NoResource)
  BY <1>1, <1>2, NamesAreDistinct DEF Sound, FuturesAreGuarded, Available, Typed, TypeOK
<1>7. Cardinality(Active) < MaxConcurrency
  <2>1. Cardinality(futures) \in Nat
    BY StepsAreFinite DEF Typed, TypeOK
  <2> QED
    BY <1>1, <1>2, <2>1, BoundsAreNat DEF Full
<1> QED
  BY <1>1, <1>2, <1>3, <1>4, <1>5, <1>6, <1>7, SameCardinality DEF Dag!Start, Dag!Clash, Active

LEMMA JoinFinishes ==
    ASSUME Typed, Sound, NEW n \in Step, Join(n)
    PROVE  Dag!Finish(n)
<1>1. /\ n \in futures
      /\ status' = [status EXCEPT ![n] = answer[n].status]
      /\ thread' = [thread EXCEPT ![n] = "none"]
      /\ UNCHANGED <<deps, key>>
  BY DEF Join, Publishes, Released, graph
<1>2. n \in Active /\ n \notin Completed
  BY <1>1 DEF Active, Completed, Sound, FuturesRun
<1>3. Active' = Active \ {n}
  BY <1>1 DEF Active, Typed, TypeOK
<1>4. Completed' \in {Completed, Completed \cup {n}}
  <2>1. CASE answer[n].status = "COMPLETED"
    <3>1. Completed' = Completed \cup {n}
      BY <1>1, <2>1 DEF Completed, Typed, TypeOK
    <3> QED
      BY <3>1
  <2>2. CASE answer[n].status # "COMPLETED"
    <3>1. Completed' = Completed
      BY <1>1, <1>2, <2>2 DEF Completed, Typed, TypeOK
    <3> QED
      BY <3>1
  <2> QED
    BY <2>1, <2>2
<1> QED
  BY <1>1, <1>2, <1>3, <1>4 DEF Dag!Finish, Active

LEMMA DagStep ==
    ASSUME Typed, Sound, Typed', Sound', [Next]_vars
    PROVE  [Dag!Next]_(Dag!dvars)
<1>1. CASE Run \/ GiveUp \/ EndBatch \/ EndRound \/ RequestCancel \/ RefuseRun \/ UNCHANGED vars
  <2>1. UNCHANGED <<deps, key, status, thread>>
    BY <1>1 DEF Run, GiveUp, EndBatch, EndRound, RequestCancel, RefuseRun,
                vars, graph, steps, main, pool
  <2> QED
    BY <2>1, DagStutters DEF Active, Completed
<1>2. CASE CancelRound
  <2>1. UNCHANGED <<deps, key, thread>>
    BY <1>2 DEF CancelRound, graph, pool
  <2>2. Completed' = Completed
    BY <1>2 DEF CancelRound, Completed
  <2> QED
    BY <2>1, <2>2, DagStutters DEF Active
<1>3. CASE ScanRound
  <2>1. UNCHANGED <<deps, key, thread>> /\ Completed' = Completed
    BY <1>3, ScanKeepsCompleted DEF ScanRound, graph, pool
  <2> QED
    BY <2>1, DagStutters DEF Active
<1>4. ASSUME NEW n \in Step, Submit(n)
      PROVE  [Dag!Next]_(Dag!dvars)
  BY <1>4, SubmitStarts DEF Dag!Next
<1>5. ASSUME NEW n \in Step, Join(n)
      PROVE  [Dag!Next]_(Dag!dvars)
  BY <1>5, JoinFinishes DEF Dag!Next
<1>6. ASSUME NEW n \in Step, Defer(n) \/ RecoverFailedNode(n)
      PROVE  [Dag!Next]_(Dag!dvars)
  <2>1. UNCHANGED <<deps, key, thread>>
    BY <1>6 DEF Defer, RecoverFailedNode, graph, pool
  <2>2. status[n] # "COMPLETED"
    BY <1>6 DEF Defer, Turn, RecoverFailedNode, Sound, BatchIsReady
  <2>3. \E s \in {"WAITING_RESOURCE", "READY"} : status' = [status EXCEPT ![n] = s]
    BY <1>6 DEF Defer, RecoverFailedNode
  <2>4. Completed' = Completed
    BY <2>2, <2>3 DEF Completed, Typed, TypeOK
  <2> QED
    BY <2>1, <2>4, DagStutters DEF Active
<1>7. ASSUME NEW n \in Step, Execute(n)
      PROVE  [Dag!Next]_(Dag!dvars)
  <2>1. UNCHANGED <<deps, key, status>>
    BY <1>7 DEF Execute, Begin, Finish, graph, steps
  <2>2. Active' = Active
    BY <1>7 DEF Execute, Begin, Finish, Active, Typed, TypeOK
  <2> QED
    BY <2>1, <2>2, DagStutters DEF Completed
<1>8. ASSUME NEW r \in Resource, OutsiderTakes(r) \/ OutsiderReleases(r)
      PROVE  [Dag!Next]_(Dag!dvars)
  <2>1. UNCHANGED <<deps, key, status, thread>>
    BY <1>8 DEF OutsiderTakes, OutsiderReleases, graph, steps, pool
  <2> QED
    BY <2>1, DagStutters DEF Active, Completed
<1> QED
  BY <1>1, <1>2, <1>3, <1>4, <1>5, <1>6, <1>7, <1>8 DEF Next, MainStep

\* Rounds, batches, locks and cancellation add nothing to what the abstract
\* scheduler may do.
THEOREM Implementation == Spec => RunsAsDag
<1>1. Init => Dag!Init
  BY DEF Init, Dag!Init, Completed
<1>2. Typed /\ Sound /\ Typed' /\ Sound' /\ [Next]_vars => [Dag!Next]_(Dag!dvars)
  BY DagStep
<1> QED
  BY <1>1, <1>2, Soundness, PTL DEF Spec, RunsAsDag, Dag!Spec

-----------------------------------------------------------------------------
(* Data: what is published stays published by verified, completed steps.   *)

DataIsBacked ==
    /\ \A k \in Key : published[k] \subseteq verified \cap Completed
    /\ \A n \in batch \cup futures : \A k \in needs[n] : published[k] # {}

LEMMA BackedInit == Init => DataIsBacked
  BY DEF Init, DataIsBacked, Completed

LEMMA SameData ==
    ASSUME Typed, DataIsBacked, UNCHANGED <<needs, verified, published>>,
           Completed \subseteq Completed',
           (batch \cup futures)' \subseteq batch \cup futures
    PROVE  DataIsBacked'
  BY DEF DataIsBacked

LEMMA BackedStep == Typed /\ Sound /\ DataIsBacked /\ [Next]_vars => DataIsBacked'
<1> SUFFICES ASSUME Typed, Sound, DataIsBacked, [Next]_vars
             PROVE  DataIsBacked'
  OBVIOUS
<1>1. CASE Run \/ GiveUp \/ EndBatch \/ EndRound \/ RequestCancel \/ RefuseRun \/ UNCHANGED vars
  <2>1. UNCHANGED <<needs, verified, published, status, batch, futures>>
    BY <1>1 DEF Run, GiveUp, EndBatch, EndRound, RequestCancel, RefuseRun,
                vars, graph, steps, main, pool
  <2> QED
    BY <2>1, SameData DEF Completed
<1>2. CASE CancelRound
  <2>1. UNCHANGED <<needs, verified, published, batch, futures>>
    BY <1>2 DEF CancelRound, graph
  <2>2. Completed \subseteq Completed'
    BY <1>2 DEF CancelRound, Completed
  <2> QED
    BY <2>1, <2>2, SameData
<1>3. CASE ScanRound
  <2>1. /\ UNCHANGED <<needs, verified, published, futures, deps>>
        /\ futures = {} /\ batch' = ReadyNodes /\ status' = Scanned
    BY <1>3 DEF ScanRound, graph, Sound, PhasesAreClean
  <2>2. Completed' = Completed
    BY <2>1, ScanKeepsCompleted
  <2>3. \A n \in batch' : \A k \in needs[n] : published[k] # {}
    BY <2>1 DEF ReadyNodes
  <2> QED
    BY <2>1, <2>2, <2>3 DEF DataIsBacked
<1>4. ASSUME NEW n \in Step, Submit(n)
      PROVE  DataIsBacked'
  <2>1. /\ UNCHANGED <<needs, verified, published>>
        /\ n \in batch /\ batch' = batch \ {n} /\ futures' = futures \cup {n}
        /\ status' = [status EXCEPT ![n] = "RUNNING"]
    BY <1>4 DEF Submit, Turn, graph
  <2>2. status[n] = "READY"
    BY <2>1 DEF Sound, BatchIsReady
  <2>3. Completed' = Completed
    BY <2>1, <2>2 DEF Completed, Typed, TypeOK
  <2> QED
    BY <2>1, <2>3, SameData
<1>5. ASSUME NEW n \in Step, Defer(n) \/ RecoverFailedNode(n)
      PROVE  DataIsBacked'
  <2>1. UNCHANGED <<needs, verified, published, futures>> /\ batch' \subseteq batch
    BY <1>5 DEF Defer, Turn, RecoverFailedNode, graph, main
  <2>2. status[n] # "COMPLETED"
    BY <1>5 DEF Defer, Turn, RecoverFailedNode, Sound, BatchIsReady
  <2>3. \E s \in {"WAITING_RESOURCE", "READY"} : status' = [status EXCEPT ![n] = s]
    BY <1>5 DEF Defer, RecoverFailedNode
  <2>4. Completed' = Completed
    BY <2>2, <2>3 DEF Completed, Typed, TypeOK
  <2> QED
    BY <2>1, <2>4, SameData
<1>6. ASSUME NEW n \in Step, Join(n)
      PROVE  DataIsBacked'
  <2>1. /\ UNCHANGED <<needs, batch>>
        /\ n \in futures /\ futures' = futures \ {n}
        /\ status' = [status EXCEPT ![n] = answer[n].status]
        /\ verified' = IF answer[n].pass THEN verified \cup {n} ELSE verified \ {n}
        /\ published' = [k \in Key |->
               IF answer[n].status = "COMPLETED" /\ answer[n].pass /\ k \in answer[n].data
               THEN published[k] \cup {n} ELSE published[k]]
    BY <1>6 DEF Join, Publishes, Released, graph
  <2>2. n \notin Completed
    BY <2>1 DEF Completed, Sound, FuturesRun
  <2>3. Completed \subseteq Completed' /\ Completed' \subseteq Completed \cup {n}
    BY <2>1, <2>2 DEF Completed, Typed, TypeOK
  <2>4. answer[n].status = "COMPLETED" => n \in Completed'
    BY <2>1 DEF Completed, Typed, TypeOK
  <2>5. \A k \in Key : published'[k] \subseteq verified' \cap Completed'
    BY <2>1, <2>2, <2>3, <2>4 DEF DataIsBacked
  <2>6. \A m \in batch' \cup futures' : \A k \in needs'[m] : published'[k] # {}
    BY <2>1 DEF DataIsBacked, Typed, TypeOK
  <2> QED
    BY <2>5, <2>6 DEF DataIsBacked
<1>7. ASSUME NEW n \in Step, Execute(n)
      PROVE  DataIsBacked'
  <2>1. UNCHANGED <<needs, verified, published, status, batch, futures>>
    BY <1>7 DEF Execute, Begin, Finish, graph, steps, main
  <2> QED
    BY <2>1, SameData DEF Completed
<1>8. ASSUME NEW r \in Resource, OutsiderTakes(r) \/ OutsiderReleases(r)
      PROVE  DataIsBacked'
  <2>1. UNCHANGED <<needs, verified, published, status, batch, futures>>
    BY <1>8 DEF OutsiderTakes, OutsiderReleases, graph, steps, main
  <2> QED
    BY <2>1, SameData DEF Completed
<1> QED
  BY <1>1, <1>2, <1>3, <1>4, <1>5, <1>6, <1>7, <1>8 DEF Next, MainStep

\* An executing step never consumes the output of a failed, unknown or
\* unverified producer.
THEOREM VerifiedData == Spec => []DataIsVerified
<1>1. Init => Typed /\ Sound /\ DataIsBacked
  BY TypedInit, SoundInit, BackedInit
<1>2. Typed /\ Sound /\ DataIsBacked /\ [Next]_vars => Typed' /\ Sound' /\ DataIsBacked'
  BY TypedStep, SoundStep, BackedStep
<1>3. Typed /\ Sound /\ DataIsBacked => DataIsVerified
  BY DEF DataIsVerified, DataIsBacked, Executing, Sound, FuturesRun, Typed, TypeOK
<1> QED
  BY <1>1, <1>2, <1>3, PTL DEF Spec

-----------------------------------------------------------------------------
(* Failure reaches every dependent.                                        *)

\* One pass of ready_nodes over the steps, as an equation: a step is dead when
\* it has failed, or is open behind a dead one.
Spreads(dead) ==
    dead = [n \in Step |-> \/ status[n] \in Dead
                           \/ status[n] \in Open /\ \E d \in deps[n] : dead[d]]

\* The equation has a solution: the least set that holds what has failed and
\* is closed under the second clause.
LEMMA SpreadExists ==
    ASSUME deps \in [Step -> SUBSET Step]
    PROVE  \E dead : Spreads(dead)
<1> DEFINE Grown(S) == {n \in Step : \/ status[n] \in Dead
                                     \/ status[n] \in Open /\ \E d \in deps[n] : d \in S}
           Least == {n \in Step : \A S \in SUBSET Step : Grown(S) \subseteq S => n \in S}
           f == [n \in Step |-> n \in Least]
<1>1. Grown(Least) \subseteq Least
  <2> SUFFICES ASSUME NEW n \in Grown(Least), NEW S \in SUBSET Step, Grown(S) \subseteq S
               PROVE  n \in S
    OBVIOUS
  <2>1. Least \subseteq S
    OBVIOUS
  <2>2. n \in Grown(S)
    BY <2>1
  <2> QED
    BY <2>2
<1>2. Least \subseteq Grown(Least)
  <2>1. Grown(Grown(Least)) \subseteq Grown(Least)
    <3> HIDE DEF Least
    <3> QED
      BY <1>1
  <2>2. Grown(Least) \in SUBSET Step
    OBVIOUS
  <2> QED
    BY <2>1, <2>2
<1>3. \A n \in Step : n \in Least <=> n \in Grown(Least)
  BY <1>1, <1>2
<1>4. \A n \in Step :
          n \in Least <=> \/ status[n] \in Dead
                          \/ status[n] \in Open /\ \E d \in deps[n] : d \in Least
  <2> HIDE DEF Least
  <2> QED
    BY <1>3
<1>5. f = [n \in Step |-> \/ status[n] \in Dead
                          \/ status[n] \in Open /\ \E d \in deps[n] : f[d]]
  <2> DEFINE g == [n \in Step |-> \/ status[n] \in Dead
                                  \/ status[n] \in Open /\ \E d \in deps[n] : f[d]]
  <2>1. ASSUME NEW n \in Step
        PROVE  f[n] = g[n]
    <3> DEFINE next == \/ status[n] \in Dead
                       \/ status[n] \in Open /\ \E d \in deps[n] : f[d]
    <3>1. \A d \in deps[n] : f[d] = (d \in Least)
      OBVIOUS
    <3>2. f[n] = (n \in Least)
      OBVIOUS
    <3>3. g[n] = next
      BY Zenon
    <3> HIDE DEF f, g, Least
    <3>4. (\E d \in deps[n] : d \in Least) <=> (\E d \in deps[n] : f[d])
      BY <3>1, Zenon
    <3>5. (n \in Least) <=> next
      BY <1>4, <3>4
    <3>6. next \in BOOLEAN
      BY Zenon
    <3> HIDE DEF next
    <3>7. CASE n \in Least
      BY <3>2, <3>3, <3>5, <3>6, <3>7, Zenon
    <3>8. CASE n \notin Least
      <4>1. (n \in Least) = FALSE
        BY <3>8
      <4>2. next = FALSE
        BY <3>5, <3>6, <3>8
      <4> QED
        BY <3>2, <3>3, <4>1, <4>2, Zenon
    <3> QED
      BY <3>7, <3>8
  <2> QED
    BY <2>1
<1> QED
  BY <1>5 DEF Spreads

\* What the scan blocks: every open step with a dead dependency.
LEMMA DoomedSpreads ==
    ASSUME deps \in [Step -> SUBSET Step]
    PROVE  \E dead :
               /\ \A n \in Step : dead[n] <=>
                      \/ status[n] \in Dead
                      \/ status[n] \in Open /\ \E d \in deps[n] : dead[d]
               /\ Doomed = {n \in Step : status[n] \in Open /\ \E d \in deps[n] : dead[d]}
<1> DEFINE dead == CHOOSE f : Spreads(f)
<1>1. Spreads(dead)
  BY SpreadExists
<1>2. Doomed = {n \in Step : status[n] \in Open /\ \E d \in deps[n] : dead[d]}
  BY DEF Doomed, Spreads
<1>3. \A n \in Step : dead[n] <=>
          \/ status[n] \in Dead
          \/ status[n] \in Open /\ \E d \in deps[n] : dead[d]
  <2> HIDE DEF dead
  <2> QED
    BY <1>1 DEF Spreads
<1> QED
  BY <1>2, <1>3

\* No open step is behind a dead one.
Spread == \A n \in Step : status[n] \in Open => \A d \in deps[n] : status[d] \notin Dead

\* A scan that finds nothing ready has blocked whatever is behind a dead step.
LEMMA EmptyScanSpreads ==
    ASSUME Typed, ScanRound, ReadyNodes = {}
    PROVE  Spread'
<1>1. PICK dead :
          /\ \A n \in Step : dead[n] <=>
                 \/ status[n] \in Dead
                 \/ status[n] \in Open /\ \E d \in deps[n] : dead[d]
          /\ Doomed = {n \in Step : status[n] \in Open /\ \E d \in deps[n] : dead[d]}
  BY DoomedSpreads DEF Typed, TypeOK
<1>2. /\ deps' = deps /\ deps \in [Step -> SUBSET Step]
      /\ \A n \in Step : status'[n] = IF n \in Doomed THEN "BLOCKED" ELSE status[n]
  BY DEF ScanRound, Scanned, graph, Typed, TypeOK
<1> SUFFICES ASSUME NEW n \in Step, status'[n] \in Open, NEW d \in deps[n]
             PROVE  status'[d] \notin Dead
  BY <1>2 DEF Spread
<1>3. n \notin Doomed /\ status[n] \in Open /\ d \in Step
  BY <1>2 DEF Open
<1>4. ~dead[d]
  BY <1>1, <1>3
<1>5. d \notin Doomed /\ status[d] \notin Dead
  BY <1>1, <1>3, <1>4
<1> QED
  BY <1>2, <1>3, <1>5

\* However run returns, unless it is out of rounds: cancelled, with nothing
\* ready, or with everything settled.
LEMMA ReturnSpreads ==
    ASSUME Typed, [Next]_vars, pc # "idle", pc' = "idle", rounds' < MaxRounds
    PROVE  Spread'
<1>1. CASE CancelRound
  BY <1>1 DEF CancelRound, Spread, Open, graph
<1>2. CASE ScanRound
  BY <1>2, EmptyScanSpreads DEF ScanRound
<1>3. CASE GiveUp
  BY <1>3, BoundsAreNat DEF GiveUp, RoundsLeft, Typed, TypeOK
<1>4. CASE EndRound
  BY <1>4 DEF EndRound, Spread, graph, steps
<1> QED
  BY <1>1, <1>2, <1>3, <1>4
  DEF Next, MainStep, Run, RefuseRun, Submit, Turn, Defer, EndBatch, Join, Execute, Begin,
      Finish, RecoverFailedNode, RequestCancel, OutsiderTakes, OutsiderReleases, vars,
      main, pool

\* The step that ends a run, its rounds not used up, leaves no open step behind
\* a prerequisite that failed.
ReturnsSpread ==
    [][pc # "idle" /\ pc' = "idle" /\ rounds' < MaxRounds => Spread']_vars

\* Every return of run has blocked what is behind a failure, whatever statuses
\* the workflow was restored with.
THEOREM EveryReturnSpreads == Spec => ReturnsSpread
<1>1. Typed /\ [Next]_vars =>
          (pc # "idle" /\ pc' = "idle" /\ rounds' < MaxRounds => Spread')
  BY ReturnSpreads
<1> QED
  BY <1>1, TypedInit, TypedStep, PTL DEF Spec, ReturnsSpread

\* recover_failed_node puts a step back among the open ones; one that was run
\* here is not behind a failure, for it had to be ready before.
Recoverable == {"FAILED", "UNKNOWN", "RECOVERY_REQUIRED"}

RecoverablesWereReady ==
    \A n \in Step : status[n] \in Recoverable => deps[n] \subseteq Completed

LEMMA RecoverablesStep ==
    Typed /\ Sound /\ RecoverablesWereReady /\ [Next]_vars => RecoverablesWereReady'
<1> SUFFICES ASSUME Typed, Sound, RecoverablesWereReady, [Next]_vars
             PROVE  RecoverablesWereReady'
  OBVIOUS
<1> USE DEF Typed, TypeOK, RecoverablesWereReady, Recoverable
<1>0. ASSUME deps' = deps, Completed \subseteq Completed',
             \A n \in Step : status'[n] \in Recoverable =>
                 status[n] \in Recoverable \/ deps[n] \subseteq Completed
      PROVE  RecoverablesWereReady'
  BY <1>0
<1>1. CASE CancelRound
  BY <1>0, <1>1 DEF CancelRound, Completed, graph
<1>2. CASE ScanRound
  <2>1. \A n \in Step : status'[n] \in Recoverable => status[n] \in Recoverable
    BY <1>2, ScanMovesOpenSteps DEF ScanRound
  <2>2. Completed' = Completed
    BY <1>2, ScanKeepsCompleted DEF ScanRound, graph
  <2> QED
    BY <1>0, <1>2, <2>1, <2>2 DEF ScanRound, graph
<1>3. ASSUME NEW n \in Step, Submit(n) \/ Defer(n) \/ RecoverFailedNode(n)
      PROVE  RecoverablesWereReady'
  <2>1. status[n] # "COMPLETED"
    BY <1>3 DEF Submit, Defer, Turn, RecoverFailedNode, Sound, BatchIsReady
  <2>2. \E s \in {"RUNNING", "WAITING_RESOURCE", "READY"} : status' = [status EXCEPT ![n] = s]
    BY <1>3 DEF Submit, Defer, RecoverFailedNode
  <2>3. deps' = deps
    BY <1>3 DEF Submit, Defer, RecoverFailedNode, graph
  <2> QED
    BY <1>0, <2>1, <2>2, <2>3 DEF Completed
<1>4. ASSUME NEW n \in Step, Join(n)
      PROVE  RecoverablesWereReady'
  <2>1. n \in futures /\ status' = [status EXCEPT ![n] = answer[n].status] /\ deps' = deps
    BY <1>4 DEF Join, graph
  <2>2. deps[n] \subseteq Completed /\ n \notin Completed
    BY <2>1 DEF Sound, FuturesAreGuarded, FuturesRun, Completed
  <2> QED
    BY <1>0, <2>1, <2>2 DEF Completed
<1>5. CASE UNCHANGED <<deps, status>>
  BY <1>0, <1>5 DEF Completed
<1> QED
  BY <1>1, <1>2, <1>3, <1>4, <1>5
  DEF Next, MainStep, Run, RefuseRun, GiveUp, EndBatch, EndRound, Execute, Begin, Finish,
      RequestCancel, OutsiderTakes, OutsiderReleases, vars, graph, steps

LEMMA FailureStep ==
    /\ Typed /\ Sound /\ RecoverablesWereReady /\ FailureReachesDependents /\ [Next]_vars
    => FailureReachesDependents'
<1> SUFFICES ASSUME Typed, Sound, RecoverablesWereReady, FailureReachesDependents,
                    [Next]_vars, pc' = "idle", outcome' # "PENDING", rounds' < MaxRounds
             PROVE  Spread'
  BY DEF FailureReachesDependents, Spread
<1>1. CASE pc # "idle"
  BY <1>1, ReturnSpreads
<1>2. ASSUME NEW n \in Step, RecoverFailedNode(n)
      PROVE  Spread'
  <2>1. /\ pc = "idle" /\ outcome' = outcome /\ rounds' = rounds /\ deps' = deps
        /\ status[n] \in Recoverable
        /\ status' = [status EXCEPT ![n] = "READY"]
    BY <1>2 DEF RecoverFailedNode, graph, main, Recoverable
  <2>2. Spread
    BY <2>1 DEF FailureReachesDependents, Spread
  <2>3. \A d \in deps[n] : status[d] \notin Dead
    BY <2>1 DEF RecoverablesWereReady, Completed, Dead
  <2> QED
    BY <2>1, <2>2, <2>3 DEF Spread, Typed, TypeOK, Dead, Open
<1>3. CASE pc = "idle" /\ UNCHANGED <<deps, status, outcome, rounds>>
  BY <1>3 DEF FailureReachesDependents, Spread
<1> QED
  BY <1>1, <1>2, <1>3
  DEF Next, MainStep, Run, RefuseRun, CancelRound, ScanRound, GiveUp, Submit, Defer, Turn,
      EndBatch, Join, EndRound, Execute, Begin, Finish, RequestCancel, OutsiderTakes,
      OutsiderReleases, vars, graph, steps, main, Sound, PhasesAreClean

\* While a workflow lies idle after such a run, failure has reached every
\* dependent, recoveries included, provided that whatever it was restored with
\* as failed had been started in order: a step restored as failed behind a
\* failed prerequisite is reopened there by its recovery.
THEOREM FailureSpreads ==
    Spec /\ RecoverablesWereReady => []FailureReachesDependents
<1>1. Init => FailureReachesDependents
  BY DEF Init, FailureReachesDependents
<1> QED
  BY <1>1, Soundness, RecoverablesStep, FailureStep, PTL DEF Spec

=============================================================================
