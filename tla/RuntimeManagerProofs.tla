------------------------- MODULE RuntimeManagerProofs -------------------------
(***************************************************************************)
(* Proofs about RuntimeManager, for every set of tasks, resources and      *)
(* requests and every value of the limits.                                 *)
(***************************************************************************)
EXTENDS RuntimeManager, TLAPS

\* The states a row may take when it is moved: the tables of runtime.py name
\* known states only.
LEMMA AllowedAreStates == \A s \in STATES : Allowed[s] \subseteq STATES
  BY DEF Allowed, STATES, WAITING

\* Nothing follows the end of a task.
LEMMA TerminalIsFinal == \A s \in TERMINAL : Allowed[s] = {}
  BY DEF Allowed, STATES, TERMINAL, WAITING

LEMMA AbsentIsRow == Absent \in TaskRow
  BY LimitsAreOrdered DEF Absent, TaskRow, ApprovalState, LinkState

LEMMA UnownedIsRow == Unowned \in ResourceRow
  BY DEF Unowned, ResourceRow, LinkState

\* Every way an operation rewrites a row yields a row.
LEMMA FreshIsRow == \A row \in TaskRow : Fresh(row) \in TaskRow
  BY LimitsAreOrdered DEF Fresh, TaskRow

LEMMA MovedIsRow ==
    ASSUME NEW row \in TaskRow, NEW s \in STATES
    PROVE  Moved(row, s) \in TaskRow
<1>1. [row EXCEPT !.state = s] \in TaskRow
  BY DEF TaskRow
<1> QED
  BY <1>1, FreshIsRow DEF Moved

LEMMA MarkedIsRow ==
    ASSUME NEW row \in TaskRow, NEW m \in ApprovalState
    PROVE  [row EXCEPT !.approval = m] \in TaskRow
  BY DEF TaskRow

LEMMA ExpiredIsRow == \A row \in TaskRow : Expired(row) \in TaskRow
  BY MovedIsRow, MarkedIsRow DEF Expired, STATES, ApprovalState

LEMMA RefiledIsRow == \A row \in TaskRow : Refiled(row) \in TaskRow
  BY MovedIsRow, MarkedIsRow DEF Refiled, STATES, ApprovalState

LEMMA LinkedIsRow ==
    ASSUME NEW row \in TaskRow, NEW l \in LinkState
    PROVE  [row EXCEPT !.link = l] \in TaskRow
  BY DEF TaskRow

LEMMA RecoveredIsRow ==
    ASSUME NEW row \in TaskRow
    PROVE  Recovered(row) \in TaskRow
<1> DEFINE moved == Moved(row, "RECOVERY_REQUIRED")
           stale == IF row.key # NoResource THEN "STALE" ELSE row.link
<1>1. moved \in TaskRow
  BY MovedIsRow DEF STATES
<1>2. stale \in LinkState
  BY DEF TaskRow, LinkState
<1>3. [moved EXCEPT !.link = stale] \in TaskRow
  BY <1>1, <1>2, LinkedIsRow
<1> QED
  BY <1>3 DEF Recovered

LEMMA UnlinkedIsRow == \A row \in TaskRow : Unlinked(row) \in TaskRow
  BY FreshIsRow, LinkedIsRow DEF Unlinked, LinkState

LEMMA OlderIsRow == \A row \in TaskRow : Older(row) \in TaskRow
  BY LimitsAreOrdered DEF Older, TaskRow

-----------------------------------------------------------------------------
(* Type correctness.                                                       *)

LEMMA TypeInit == Init => TypeOK
<1> SUFFICES ASSUME Init
             PROVE  TypeOK
  OBVIOUS
<1>1. tasks \in [Task -> TaskRow] /\ dbTasks \in [Task -> TaskRow]
  BY AbsentIsRow DEF Init, NoTasks
<1>2. resources \in [Resource -> ResourceRow] /\ dbResources \in [Resource -> ResourceRow]
  BY UnownedIsRow DEF Init, NoResources
<1>3. /\ asked \in [Task -> [Request -> 0..MaxAsks]]
      /\ granted \in [Task -> [Request -> Nat]]
  BY LimitsAreOrdered DEF Init
<1> QED
  BY <1>1, <1>2, <1>3 DEF Init, TypeOK, NoApprovals, Phases

\* A collection pass, wherever it runs, keeps the types.
LEMMA SweepIsTyped ==
    ASSUME TypeOK, NEW expiring \in SUBSET Task, NEW removed \in SUBSET Task,
           Sweep(expiring, removed), phase' \in Phases
    PROVE  TypeOK'
<1>1. /\ \A t \in Task : Expired(tasks[t]) \in TaskRow
      /\ Absent \in TaskRow
      /\ Unowned \in ResourceRow
  BY AbsentIsRow, UnownedIsRow, ExpiredIsRow DEF TypeOK
<1>2. tasks' \in [Task -> TaskRow] /\ dbTasks' \in [Task -> TaskRow]
  BY <1>1 DEF Sweep, TypeOK
<1>3. /\ approvals' \in [Task -> Request \cup {NoRequest}]
      /\ dbApprovals' \in [Task -> Request \cup {NoRequest}]
  BY DEF Sweep, TypeOK
<1>4. /\ resources' \in [Resource -> ResourceRow]
      /\ dbResources' \in [Resource -> ResourceRow]
  BY <1>1 DEF Sweep, Disowned, TypeOK
<1>5. focused' \in Task \cup {NoTask}
  BY DEF Sweep, FocusAfter, TypeOK
<1> QED
  BY <1>2, <1>3, <1>4, <1>5 DEF Sweep, TypeOK, counters

LEMMA OperateIsTyped ==
    ASSUME TypeOK, NEW t \in Task, Operate(t)
    PROVE  TypeOK'
<1> USE DEF SameApprovals, SameResources, counters, history, Put, PutApproval
<1>1. CASE CreateTask(t)
  <2>1. [Absent EXCEPT !.state = "CREATED"] \in TaskRow
    BY AbsentIsRow DEF TaskRow, STATES
  <2> QED
    BY <1>1, <2>1 DEF CreateTask, TypeOK
<1>2. ASSUME NEW s \in Targets, TransitionTask(t, s)
      PROVE  TypeOK'
  <2>1. PICK m \in Marks(t, s) :
            Put(t, [Moved(tasks[t], s) EXCEPT !.approval = m])
    BY <1>2 DEF TransitionTask
  <2>2. m \in ApprovalState
    BY <2>1 DEF Marks, TypeOK, TaskRow, ApprovalState
  <2>3. [Moved(tasks[t], s) EXCEPT !.approval = m] \in TaskRow
    BY <2>2, TargetsAreStates, MovedIsRow, MarkedIsRow DEF TypeOK
  <2> QED
    BY <1>2, <2>1, <2>3 DEF TransitionTask, TypeOK
<1>3. CASE CancelTask(t)
  <2>1. Moved(tasks[t], "CANCELLED") \in TaskRow
    BY MovedIsRow DEF TypeOK, STATES
  <2> QED
    BY <1>3, <2>1 DEF CancelTask, TypeOK
<1>4. CASE TouchTask(t)
  BY <1>4, FreshIsRow DEF TouchTask, TypeOK
<1>5. ASSUME NEW q \in Request, RequestApproval(t, q)
      PROVE  TypeOK'
  <2>1. [Moved(tasks[t], "WAITING_FOR_APPROVAL") EXCEPT !.approval = "WAITING"] \in TaskRow
    BY MovedIsRow, MarkedIsRow DEF TypeOK, STATES, ApprovalState
  <2>2. asked' \in [Task -> [Request -> 0..MaxAsks]]
    BY <1>5, LimitsAreOrdered DEF RequestApproval, TypeOK
  <2> QED
    BY <1>5, <2>1, <2>2 DEF RequestApproval, TypeOK
<1>6. ASSUME NEW id \in Request, NEW approved \in BOOLEAN,
             ResolveApproval(t, id, approved)
      PROVE  TypeOK'
  <2> DEFINE verdict == IF approved THEN "GRANTED" ELSE "DENIED"
  <2>1. verdict \in ApprovalState /\ Verdict(approved) \in STATES
    BY DEF ApprovalState, Verdict, STATES
  <2>2. [Moved(tasks[t], Verdict(approved)) EXCEPT !.approval = verdict] \in TaskRow
    BY <2>1, MovedIsRow, MarkedIsRow DEF TypeOK
  <2>3. tasks' \in [Task -> TaskRow] /\ dbTasks' \in [Task -> TaskRow]
    BY <1>6, <2>2 DEF ResolveApproval, TypeOK
  <2>4. Consumed(t, id) # NoRequest => Consumed(t, id) \in Request
    BY DEF Consumed, TypeOK
  <2>5. granted' \in [Task -> [Request -> Nat]]
    BY <1>6, <2>4 DEF ResolveApproval, TypeOK
  <2> QED
    BY <1>6, <2>3, <2>5 DEF ResolveApproval, TypeOK
<1>7. ASSUME NEW id \in Request, FailResolveApproval(t, id)
      PROVE  TypeOK'
  BY <1>7 DEF FailResolveApproval, TypeOK, database
<1>8. ASSUME NEW r \in Resource, AttachResource(t, r)
      PROVE  TypeOK'
  <2>1. [Fresh(tasks[t]) EXCEPT !.key = r, !.link = "ATTACHED"] \in TaskRow
    <3>1. Fresh(tasks[t]) \in TaskRow
      BY FreshIsRow DEF TypeOK
    <3>2. [Fresh(tasks[t]) EXCEPT !.key = r] \in TaskRow
      BY <3>1 DEF TaskRow
    <3> QED
      BY <3>2, LinkedIsRow DEF LinkState
  <2>2. [owner |-> t, state |-> "ATTACHED"] \in ResourceRow
    BY DEF ResourceRow, LinkState
  <2> QED
    BY <1>8, <2>1, <2>2 DEF AttachResource, TypeOK
<1>9. ASSUME NEW r \in Resource, DetachResource(t, r)
      PROVE  TypeOK'
  <2>1. [Fresh(tasks[t]) EXCEPT !.link = "DETACHED"] \in TaskRow
    BY FreshIsRow, LinkedIsRow DEF TypeOK, LinkState
  <2>2. \A row \in ResourceRow : [row EXCEPT !.state = "DETACHED"] \in ResourceRow
    BY DEF ResourceRow, LinkState
  <2> QED
    BY <1>9, <2>1, <2>2 DEF DetachResource, TypeOK
<1> QED
  BY <1>1, <1>2, <1>3, <1>4, <1>5, <1>6, <1>7, <1>8, <1>9 DEF Operate

LEMMA StartupIsTyped ==
    ASSUME TypeOK, Startup
    PROVE  TypeOK'
<1> USE DEF SameApprovals, SameResources, counters, history, database, Phases
<1>1. CASE Load
  BY <1>1 DEF Load, TypeOK
<1>2. CASE LoadCollect
  BY <1>2, SweepIsTyped DEF LoadCollect, Expirable, Deletable, Retired
<1>3. CASE FailLoadCollect
  BY <1>3, AbsentIsRow, UnownedIsRow, ExpiredIsRow
  DEF FailLoadCollect, ForgetMemory, NoTasks, NoApprovals, NoResources, TypeOK
<1>4. CASE RehydrateApprovalStates
  BY <1>4, RefiledIsRow DEF RehydrateApprovalStates, Misfiled, TypeOK
<1>5. CASE RecoverAfterRestart
  <2>1. \A row \in TaskRow : Recovered(row) \in TaskRow /\ Unlinked(row) \in TaskRow
    BY RecoveredIsRow, UnlinkedIsRow
  <2>2. \A row \in ResourceRow : [row EXCEPT !.state = "STALE"] \in ResourceRow
    BY DEF ResourceRow, LinkState
  <2>3. tasks' \in [Task -> TaskRow] /\ dbTasks' \in [Task -> TaskRow]
    BY <1>5, <2>1 DEF RecoverAfterRestart, TypeOK
  <2>4. unrepaired' \subseteq Task
    BY <1>5 DEF RecoverAfterRestart, Interrupted, TypeOK
  <2>5. resources' \in [Resource -> ResourceRow]
    BY <1>5, <2>2 DEF RecoverAfterRestart, TypeOK
  <2> QED
    BY <1>5, <2>3, <2>4, <2>5 DEF RecoverAfterRestart, TypeOK
<1> QED
  BY <1>1, <1>2, <1>3, <1>4, <1>5 DEF Startup

LEMMA TypeStep == TypeOK /\ [Next]_vars => TypeOK'
<1> SUFFICES ASSUME TypeOK, [Next]_vars
             PROVE  TypeOK'
  OBVIOUS
<1> USE DEF counters, history, database, memory
<1>1. ASSUME NEW t \in Task, Operate(t)
      PROVE  TypeOK'
  BY <1>1, OperateIsTyped
<1>2. ASSUME NEW t \in Task \cup {NoTask}, SetFocus(t)
      PROVE  TypeOK'
  BY <1>2 DEF SetFocus, TypeOK
<1>3. CASE Collect
  <2>1. Expirable \in SUBSET Task /\ Deletable(Retired) \in SUBSET Task
    BY DEF Expirable, Deletable, Retired
  <2>2. Sweep(Expirable, Deletable(Retired)) /\ phase' \in Phases
    BY <1>3 DEF Collect, TypeOK
  <2> QED
    BY <2>1, <2>2, SweepIsTyped
<1>4. CASE FailCollect
  BY <1>4, SweepIsTyped DEF FailCollect, Expirable, TypeOK
<1>5. CASE ClearHistory
  BY <1>5, SweepIsTyped DEF ClearHistory, Deletable, TypeOK
<1>6. CASE Startup
  BY <1>6, StartupIsTyped
<1>7. CASE Crash
  BY <1>7, AbsentIsRow, UnownedIsRow
  DEF Crash, ForgetMemory, NoTasks, NoApprovals, NoResources, TypeOK, Phases
<1>8. CASE Tick
  BY <1>8, OlderIsRow DEF Tick, TypeOK
<1>9. CASE UNCHANGED vars
  BY <1>9 DEF vars, TypeOK
<1> QED
  BY <1>1, <1>2, <1>3, <1>4, <1>5, <1>6, <1>7, <1>8, <1>9 DEF Next

\* Every reachable state is well typed, whatever callers ask for, in what
\* order, and wherever transactions fail or the process stops.
THEOREM Typing == Spec => []TypeOK
<1> QED
  BY TypeInit, TypeStep, PTL DEF Spec

-----------------------------------------------------------------------------
(* Memory and tables.                                                      *)

\* The invariant the later proofs rest on: what is in memory agrees with the
\* tables, and no reference points at a task that is gone.
Consistent == MemoryIsDurable /\ ApprovalsAreBacked /\ NothingDangles

\* What a row's state is after each rewrite.
LEMMA RewrittenStates ==
    ASSUME NEW row \in TaskRow
    PROVE  /\ Fresh(row).state = row.state
           /\ Older(row).state = row.state
           /\ Unlinked(row).state = row.state
           /\ Expired(row).state = "EXPIRED"
           /\ Refiled(row).state = "WAITING_FOR_APPROVAL"
           /\ Recovered(row).state = "RECOVERY_REQUIRED"
           /\ \A s \in STATES : Moved(row, s).state = s
  BY DEF Fresh, Older, Unlinked, Expired, Refiled, Recovered, Moved, TaskRow

LEMMA MarkedState ==
    ASSUME NEW row \in TaskRow, NEW m
    PROVE  /\ [row EXCEPT !.approval = m].state = row.state
           /\ [row EXCEPT !.link = m].state = row.state
           /\ [row EXCEPT !.key = m].state = row.state
  BY DEF TaskRow

\* The rewrite an operation may make: a new row, or a legal move of one.
Legal(from, to) ==
    \/ from = "ABSENT" /\ to = "CREATED"
    \/ from \in STATES /\ to \in STATES /\ Reaches(from, to)

\* Every operation on a task runs while the manager is up and rewrites, in
\* memory and in the table alike, the row of that task and no other, to a
\* state the table of transitions allows.
LEMMA OperateEffect ==
    ASSUME TypeOK, MemoryIsDurable, NEW t \in Task, Operate(t)
    PROVE  /\ phase = "up" /\ phase' = "up"
           /\ \E row \in TaskRow :
                  Put(t, row) /\ Legal(tasks[t].state, row.state)
<1>1. phase = "up" /\ phase' = "up"
  BY DEF Operate, CreateTask, TransitionTask, CancelTask, TouchTask,
     RequestApproval, ResolveApproval, FailResolveApproval, AttachResource,
     DetachResource
<1>2. /\ tasks[t] \in TaskRow
      /\ Exists(t) => tasks[t].state \in STATES
      /\ tasks[t].state \in STATES => Legal(tasks[t].state, tasks[t].state)
  BY DEF TypeOK, TaskRow, Exists, Legal, Reaches
<1>3. CASE CreateTask(t)
  <2> DEFINE row == [Absent EXCEPT !.state = "CREATED"]
  <2>1. row \in TaskRow /\ row.state = "CREATED"
    BY AbsentIsRow DEF TaskRow, STATES
  <2>2. Put(t, row) /\ tasks[t].state = "ABSENT"
    BY <1>3 DEF CreateTask, Exists
  <2> QED
    BY <1>1, <2>1, <2>2 DEF Legal
<1>4. ASSUME NEW s \in Targets, TransitionTask(t, s)
      PROVE  \E row \in TaskRow : Put(t, row) /\ Legal(tasks[t].state, row.state)
  <2>1. PICK m \in Marks(t, s) :
            Put(t, [Moved(tasks[t], s) EXCEPT !.approval = m])
    BY <1>4 DEF TransitionTask
  <2> DEFINE row == [Moved(tasks[t], s) EXCEPT !.approval = m]
  <2>2. m \in ApprovalState /\ s \in STATES
    BY <2>1, TargetsAreStates DEF Marks, TypeOK, TaskRow, ApprovalState
  <2>3. Moved(tasks[t], s) \in TaskRow /\ Moved(tasks[t], s).state = s
    BY <1>2, <2>2, MovedIsRow, RewrittenStates
  <2>4. row \in TaskRow /\ row.state = s
    BY <2>2, <2>3, MarkedIsRow, MarkedState
  <2>5. Legal(tasks[t].state, s)
    BY <1>2, <1>4, <2>2 DEF TransitionTask, Legal
  <2> QED
    BY <2>1, <2>4, <2>5
<1>5. CASE CancelTask(t)
  <2> DEFINE row == Moved(tasks[t], "CANCELLED")
  <2>1. row \in TaskRow /\ row.state = "CANCELLED"
    <3>1. "CANCELLED" \in STATES
      BY DEF STATES
    <3>2. row \in TaskRow
      BY <1>2, <3>1, MovedIsRow
    <3>3. row.state = "CANCELLED"
      BY <1>2, <3>1, RewrittenStates
    <3> QED
      BY <3>2, <3>3
  <2>2. Put(t, row) /\ Legal(tasks[t].state, "CANCELLED")
    BY <1>2, <1>5 DEF CancelTask, Legal, STATES
  <2> QED
    BY <1>1, <2>1, <2>2
<1>6. CASE TouchTask(t)
  <2>1. Fresh(tasks[t]) \in TaskRow /\ Fresh(tasks[t]).state = tasks[t].state
    BY <1>2, FreshIsRow, RewrittenStates
  <2> QED
    BY <1>1, <1>2, <1>6, <2>1 DEF TouchTask
<1>7. ASSUME NEW q \in Request, RequestApproval(t, q)
      PROVE  \E row \in TaskRow : Put(t, row) /\ Legal(tasks[t].state, row.state)
  <2> DEFINE moved == Moved(tasks[t], "WAITING_FOR_APPROVAL")
             row == [moved EXCEPT !.approval = "WAITING"]
  <2>1. moved \in TaskRow /\ moved.state = "WAITING_FOR_APPROVAL"
    <3>1. "WAITING_FOR_APPROVAL" \in STATES
      BY DEF STATES
    <3>2. moved \in TaskRow
      BY <1>2, <3>1, MovedIsRow
    <3>3. moved.state = "WAITING_FOR_APPROVAL"
      BY <1>2, <3>1, RewrittenStates
    <3> QED
      BY <3>2, <3>3
  <2>2. row \in TaskRow /\ row.state = "WAITING_FOR_APPROVAL"
    BY <2>1, MarkedIsRow, MarkedState DEF ApprovalState
  <2>3. "WAITING_FOR_APPROVAL" \in Allowed["WAITING_FOR_USER"]
    BY DEF Allowed, STATES
  <2>4. Put(t, row) /\ Legal(tasks[t].state, "WAITING_FOR_APPROVAL")
    BY <1>2, <1>7, <2>3 DEF RequestApproval, Legal, Reaches, STATES
  <2> QED
    BY <2>2, <2>4
<1>8. ASSUME NEW id \in Request, NEW approved \in BOOLEAN,
             ResolveApproval(t, id, approved)
      PROVE  \E row \in TaskRow : Put(t, row) /\ Legal(tasks[t].state, row.state)
  <2> DEFINE verdict == IF approved THEN "GRANTED" ELSE "DENIED"
             moved == Moved(tasks[t], Verdict(approved))
             row == [moved EXCEPT !.approval = verdict]
  <2>1. verdict \in ApprovalState /\ Verdict(approved) \in STATES
    BY DEF ApprovalState, Verdict, STATES
  <2>2. moved \in TaskRow /\ moved.state = Verdict(approved)
    BY <1>2, <2>1, MovedIsRow, RewrittenStates
  <2>3. row \in TaskRow /\ row.state = Verdict(approved)
    BY <2>1, <2>2, MarkedIsRow, MarkedState
  <2>4. Put(t, row) /\ Legal(tasks[t].state, Verdict(approved))
    BY <1>2, <1>8, <2>1 DEF ResolveApproval, Resolvable, Legal
  <2> QED
    BY <2>3, <2>4
<1>9. ASSUME NEW id \in Request, FailResolveApproval(t, id)
      PROVE  \E row \in TaskRow : Put(t, row) /\ Legal(tasks[t].state, row.state)
  <2>1. tasks = dbTasks /\ tasks' = tasks /\ dbTasks' = dbTasks
    BY <1>9 DEF FailResolveApproval, MemoryIsDurable, database
  <2>2. Put(t, tasks[t])
    BY <2>1 DEF Put, TypeOK
  <2> QED
    BY <1>2, <1>9, <2>2 DEF FailResolveApproval
<1>10. ASSUME NEW r \in Resource, AttachResource(t, r)
       PROVE  \E row \in TaskRow : Put(t, row) /\ Legal(tasks[t].state, row.state)
  <2> DEFINE fresh == Fresh(tasks[t])
             keyed == [fresh EXCEPT !.key = r]
             row == [fresh EXCEPT !.key = r, !.link = "ATTACHED"]
  <2>1. fresh \in TaskRow /\ fresh.state = tasks[t].state
    BY <1>2, FreshIsRow, RewrittenStates
  <2>2. keyed \in TaskRow /\ keyed.state = tasks[t].state
    BY <2>1, MarkedState DEF TaskRow
  <2>3. row \in TaskRow /\ row.state = tasks[t].state
    BY <2>2, LinkedIsRow, MarkedState DEF LinkState
  <2>4. Put(t, row) /\ Exists(t)
    BY <1>10 DEF AttachResource
  <2> QED
    BY <1>2, <2>3, <2>4
<1>11. ASSUME NEW r \in Resource, DetachResource(t, r)
       PROVE  \E row \in TaskRow : Put(t, row) /\ Legal(tasks[t].state, row.state)
  <2> DEFINE fresh == Fresh(tasks[t])
             row == [fresh EXCEPT !.link = "DETACHED"]
  <2>1. fresh \in TaskRow /\ fresh.state = tasks[t].state
    BY <1>2, FreshIsRow, RewrittenStates
  <2>2. row \in TaskRow /\ row.state = tasks[t].state
    BY <2>1, LinkedIsRow, MarkedState DEF LinkState
  <2>3. Put(t, row) /\ Exists(t)
    BY <1>11 DEF DetachResource
  <2> QED
    BY <1>2, <2>2, <2>3
<1> QED
  BY <1>1, <1>3, <1>4, <1>5, <1>6, <1>7, <1>8, <1>9, <1>10, <1>11 DEF Operate

LEMMA OperateIsConsistent ==
    ASSUME TypeOK, Consistent, NEW t \in Task, Operate(t)
    PROVE  Consistent'
<1>1. PICK row \in TaskRow : Put(t, row) /\ Legal(tasks[t].state, row.state)
  BY OperateEffect DEF Consistent
<1>2. phase = "up" /\ phase' = "up" /\ tasks = dbTasks /\ tasks' = dbTasks'
  BY <1>1, OperateEffect DEF Consistent, MemoryIsDurable, Put
<1>3. /\ tasks'[t].state # "ABSENT"
      /\ \A u \in Task : u # t => tasks'[u] = tasks[u]
      /\ \A u \in Task : tasks[u].state # "ABSENT" => tasks'[u].state # "ABSENT"
  BY <1>1 DEF Put, Legal, STATES, TypeOK
<1>4. ApprovalsAreBacked'
  <2>1. \/ UNCHANGED <<approvals, dbApprovals>>
        \/ \E q \in Request \cup {NoRequest} : PutApproval(t, q)
        \/ /\ approvals' = [approvals EXCEPT ![t] = NoRequest]
           /\ UNCHANGED dbApprovals
    BY DEF Operate, CreateTask, TransitionTask, CancelTask, TouchTask,
       RequestApproval, ResolveApproval, FailResolveApproval, AttachResource,
       DetachResource, SameApprovals, database
  <2> QED
    BY <1>2, <1>3, <2>1
    DEF Consistent, ApprovalsAreBacked, PutApproval, TypeOK
<1>5. NothingDangles'
  <2>1. focused' \in {focused, t}
    BY DEF Operate, CreateTask, TransitionTask, CancelTask, TouchTask,
       RequestApproval, ResolveApproval, FailResolveApproval, AttachResource,
       DetachResource
  <2>2. \A r \in Resource :
            /\ resources'[r].owner \in {resources[r].owner, t}
            /\ dbResources'[r].owner \in {dbResources[r].owner, t}
    <3>1. ASSUME NEW r \in Resource, AttachResource(t, r)
          PROVE  <2>2!:
      BY <3>1 DEF AttachResource, TypeOK
    <3>2. ASSUME NEW r \in Resource, DetachResource(t, r)
          PROVE  <2>2!:
      BY <3>2 DEF DetachResource, TypeOK, ResourceRow
    <3>3. CASE UNCHANGED <<resources, dbResources>>
      BY <3>3
    <3> QED
      BY <3>1, <3>2, <3>3
      DEF Operate, CreateTask, TransitionTask, CancelTask, TouchTask,
          RequestApproval, ResolveApproval, FailResolveApproval,
          SameResources, database
  <2>3. t # NoTask
    BY ConstantsAreDistinct
  <2> QED
    BY <1>2, <1>3, <2>1, <2>2, <2>3
    DEF Consistent, NothingDangles, Exists, TypeOK, ResourceRow
<1> QED
  BY <1>2, <1>4, <1>5 DEF Consistent, MemoryIsDurable

\* A collection pass deletes only tasks without an approval row, takes their
\* resources with them, and moves the focus off them.
LEMMA SweepIsConsistent ==
    ASSUME TypeOK, Consistent, phase # "down", phase' # "down",
           NEW expiring \in SUBSET Task, NEW removed \in SUBSET Task,
           \A t \in expiring : Exists(t) /\ t \notin removed,
           \A t \in removed : dbApprovals[t] = NoRequest,
           Sweep(expiring, removed)
    PROVE  Consistent'
<1>1. tasks = dbTasks /\ tasks' = dbTasks'
  BY DEF Consistent, MemoryIsDurable, Sweep
<1>2. \A t \in Task :
          /\ t \in removed => tasks'[t] = Absent
          /\ t \in expiring => tasks'[t].state = "EXPIRED"
          /\ t \notin expiring \cup removed => tasks'[t] = tasks[t]
  BY RewrittenStates DEF Sweep, TypeOK
<1>3. \A t \in Task : Exists(t) /\ t \notin removed => Exists(t)'
  BY <1>2 DEF Exists
<1>4. ApprovalsAreBacked'
  BY <1>1, <1>3 DEF Sweep, Consistent, ApprovalsAreBacked, Exists, TypeOK
<1>5. NothingDangles'
  <2>1. focused' # NoTask => Exists(focused)'
    BY <1>3 DEF Sweep, FocusAfter, Consistent, NothingDangles, TypeOK
  <2>2. ASSUME NEW r \in Resource
        PROVE  /\ resources'[r].owner # NoTask => Exists(resources[r].owner)'
               /\ dbResources'[r].owner # NoTask => Exists(dbResources[r].owner)'
    BY <1>1, <1>3
    DEF Sweep, Disowned, Unowned, Consistent, NothingDangles, Exists, TypeOK, ResourceRow
  <2> QED
    BY <1>1, <2>1, <2>2 DEF NothingDangles, Exists
<1> QED
  BY <1>1, <1>4, <1>5 DEF Consistent, MemoryIsDurable

\* The sets a pass works on are as SweepIsConsistent asks.
LEMMA PassIsProper ==
    ASSUME TypeOK
    PROVE  /\ Expirable \in SUBSET Task
           /\ \A t \in Expirable : Exists(t) /\ tasks[t].state \notin TERMINAL
           /\ Retired \in SUBSET Task
           /\ \A t \in Retired : Exists(t) /\ tasks[t].state \in TERMINAL
           /\ \A c \in SUBSET Task :
                  /\ Deletable(c) \in SUBSET c
                  /\ \A t \in Deletable(c) :
                         dbTasks[t].state \in TERMINAL /\ dbApprovals[t] = NoRequest
  BY DEF Expirable, Retired, Deletable, Exists, WAITING, TERMINAL

\* An emptied memory refers to nothing.
LEMMA ForgottenIsConsistent ==
    ASSUME ForgetMemory, phase' = "down", ApprovalsAreBacked,
           \A t \in Task : dbApprovals'[t] \in {dbApprovals[t], NoRequest},
           \A t \in Task : dbTasks[t].state # "ABSENT" => dbTasks'[t].state # "ABSENT",
           TypeOK, NothingDangles, dbResources' = dbResources
    PROVE  Consistent'
<1>1. MemoryIsDurable'
  BY DEF MemoryIsDurable
<1>2. ApprovalsAreBacked'
  BY DEF ApprovalsAreBacked, ForgetMemory, NoApprovals
<1>3. NothingDangles'
  BY DEF NothingDangles, ForgetMemory, NoResources, Unowned, TypeOK, ResourceRow
<1> QED
  BY <1>1, <1>2, <1>3 DEF Consistent

LEMMA StartupIsConsistent ==
    ASSUME TypeOK, Consistent, Startup
    PROVE  Consistent'
<1> USE DEF SameApprovals, SameResources, history, database
<1>1. CASE Load
  BY <1>1
  DEF Load, Consistent, MemoryIsDurable, ApprovalsAreBacked, NothingDangles,
      Exists, TypeOK, ResourceRow
<1>2. CASE LoadCollect
  <2>1. Sweep(Expirable, Deletable(Retired)) /\ phase # "down" /\ phase' # "down"
    BY <1>2 DEF LoadCollect
  <2>2. /\ Expirable \in SUBSET Task /\ Deletable(Retired) \in SUBSET Task
        /\ \A t \in Expirable : Exists(t) /\ t \notin Deletable(Retired)
        /\ \A t \in Deletable(Retired) : dbApprovals[t] = NoRequest
    BY PassIsProper
  <2> QED
    BY <2>1, <2>2, SweepIsConsistent
<1>3. CASE FailLoadCollect
  <2>1. tasks = dbTasks
    BY <1>3 DEF FailLoadCollect, Consistent, MemoryIsDurable
  <2>2. \A t \in Task : dbTasks[t].state # "ABSENT" => dbTasks'[t].state # "ABSENT"
    BY <1>3, <2>1, RewrittenStates DEF FailLoadCollect, TypeOK
  <2>3. \A t \in Task : dbApprovals'[t] \in {dbApprovals[t], NoRequest}
    BY <1>3 DEF FailLoadCollect
  <2> QED
    BY <1>3, <2>2, <2>3, ForgottenIsConsistent DEF FailLoadCollect, Consistent
<1>4. CASE RehydrateApprovalStates
  <2>1. tasks = dbTasks /\ tasks' = dbTasks'
    BY <1>4 DEF RehydrateApprovalStates, Consistent, MemoryIsDurable
  <2>2. \A t \in Task : tasks[t].state # "ABSENT" => tasks'[t].state # "ABSENT"
    BY <1>4, RewrittenStates DEF RehydrateApprovalStates, TypeOK
  <2>3. ApprovalsAreBacked'
    BY <1>4, <2>1, <2>2
    DEF RehydrateApprovalStates, Consistent, ApprovalsAreBacked, Misfiled
  <2>4. NothingDangles'
    BY <1>4, <2>1, <2>2
    DEF RehydrateApprovalStates, Consistent, NothingDangles, Exists, TypeOK, ResourceRow
  <2> QED
    BY <2>1, <2>3, <2>4 DEF Consistent, MemoryIsDurable
<1>5. CASE RecoverAfterRestart
  <2>1. tasks = dbTasks /\ tasks' = dbTasks'
    BY <1>5 DEF RecoverAfterRestart, Consistent, MemoryIsDurable
  <2>2. \A row \in TaskRow :
            /\ Unlinked(row).state = row.state
            /\ Recovered(row) \in TaskRow
            /\ Recovered(row).state # "ABSENT"
    BY RewrittenStates, RecoveredIsRow
  <2>3. \A t \in Task : tasks[t].state # "ABSENT" => tasks'[t].state # "ABSENT"
    BY <1>5, <2>2 DEF RecoverAfterRestart, TypeOK
  <2>4. \A r \in Resource : resources'[r].owner = resources[r].owner
    BY <1>5 DEF RecoverAfterRestart, TypeOK, ResourceRow
  <2>5. ApprovalsAreBacked'
    BY <1>5, <2>1, <2>3 DEF RecoverAfterRestart, Consistent, ApprovalsAreBacked
  <2>6. NothingDangles'
    BY <1>5, <2>1, <2>3, <2>4
    DEF RecoverAfterRestart, Consistent, NothingDangles, Exists, TypeOK, ResourceRow
  <2> QED
    BY <2>1, <2>5, <2>6 DEF Consistent, MemoryIsDurable
<1> QED
  BY <1>1, <1>2, <1>3, <1>4, <1>5 DEF Startup

LEMMA ConsistentInit == Init => Consistent
  BY DEF Init, Consistent, MemoryIsDurable, ApprovalsAreBacked, NothingDangles,
     NoApprovals, NoResources, Unowned

LEMMA ConsistentStep == TypeOK /\ Consistent /\ [Next]_vars => Consistent'
<1> SUFFICES ASSUME TypeOK, Consistent, [Next]_vars
             PROVE  Consistent'
  OBVIOUS
<1> USE DEF history, database, memory
<1>1. ASSUME NEW t \in Task, Operate(t)
      PROVE  Consistent'
  BY <1>1, OperateIsConsistent
<1>2. ASSUME NEW t \in Task \cup {NoTask}, SetFocus(t)
      PROVE  Consistent'
  BY <1>2
  DEF SetFocus, Consistent, MemoryIsDurable, ApprovalsAreBacked, NothingDangles, Exists
<1>3. CASE Collect
  <2>1. Sweep(Expirable, Deletable(Retired)) /\ phase # "down" /\ phase' # "down"
    BY <1>3 DEF Collect
  <2>2. /\ Expirable \in SUBSET Task /\ Deletable(Retired) \in SUBSET Task
        /\ \A t \in Expirable : Exists(t) /\ t \notin Deletable(Retired)
        /\ \A t \in Deletable(Retired) : dbApprovals[t] = NoRequest
    BY PassIsProper
  <2> QED
    BY <2>1, <2>2, SweepIsConsistent
<1>4. CASE FailCollect
  <2>1. PICK expiring \in SUBSET Expirable : Sweep(expiring, {})
    BY <1>4 DEF FailCollect
  <2>2. expiring \in SUBSET Task /\ \A t \in expiring : Exists(t)
    BY PassIsProper
  <2>3. phase # "down" /\ phase' # "down"
    BY <1>4 DEF FailCollect
  <2> QED
    BY <2>1, <2>2, <2>3, SweepIsConsistent
<1>5. CASE ClearHistory
  <2> DEFINE ended == {t \in Task : tasks[t].state \in TERMINAL}
  <2>1. Sweep({}, Deletable(ended)) /\ phase # "down" /\ phase' # "down"
    BY <1>5 DEF ClearHistory
  <2>2. /\ Deletable(ended) \in SUBSET Task
        /\ \A t \in Deletable(ended) : dbApprovals[t] = NoRequest
    BY PassIsProper
  <2> QED
    BY <2>1, <2>2, SweepIsConsistent
<1>6. CASE Startup
  BY <1>6, StartupIsConsistent
<1>7. CASE Crash
  BY <1>7, ForgottenIsConsistent DEF Crash, Consistent
<1>8. CASE Tick
  <2>1. \A t \in Task :
            /\ tasks'[t].state = tasks[t].state
            /\ dbTasks'[t].state = dbTasks[t].state
    BY <1>8, RewrittenStates DEF Tick, TypeOK
  <2>2. MemoryIsDurable'
    BY <1>8 DEF Tick, Consistent, MemoryIsDurable
  <2>3. ApprovalsAreBacked'
    BY <1>8, <2>1 DEF Tick, Consistent, ApprovalsAreBacked
  <2>4. NothingDangles'
    BY <1>8, <2>1 DEF Tick, Consistent, NothingDangles, Exists, TypeOK, ResourceRow
  <2> QED
    BY <2>2, <2>3, <2>4 DEF Consistent
<1>9. CASE UNCHANGED vars
  BY <1>9 DEF vars, Consistent, MemoryIsDurable, ApprovalsAreBacked, NothingDangles, Exists
<1> QED
  BY <1>1, <1>2, <1>3, <1>4, <1>5, <1>6, <1>7, <1>8, <1>9 DEF Next

\* Memory agrees with the tables, every visible request is durable, and no
\* reference dangles, in every reachable state.
THEOREM Consistency == Spec => [](MemoryIsDurable /\ ApprovalsAreBacked /\ NothingDangles)
<1>1. Init => TypeOK /\ Consistent
  BY TypeInit, ConsistentInit
<1>2. TypeOK /\ Consistent /\ [Next]_vars => TypeOK' /\ Consistent'
  BY TypeStep, ConsistentStep
<1>3. TypeOK /\ Consistent => MemoryIsDurable /\ ApprovalsAreBacked /\ NothingDangles
  BY DEF Consistent
<1> QED
  BY <1>1, <1>2, <1>3, PTL DEF Spec

-----------------------------------------------------------------------------
(* The durable life of a task.                                             *)

\* What a step may do to one row of the tasks table.
Turns(from, to, withApproval) ==
    \/ to = from
    \/ Legal(from, to)
    \/ from \in TERMINAL /\ to = "ABSENT" /\ ~withApproval
    \/ /\ withApproval /\ to = "WAITING_FOR_APPROVAL"
       /\ from \notin TERMINAL \cup {"ABSENT", "RECOVERY_REQUIRED"}

LEMMA ExpiryAndRecoveryAreLegal ==
    /\ \A s \in WAITING : Legal(s, "EXPIRED")
    /\ \A s \in RecoverableOnRestart : Legal(s, "RECOVERY_REQUIRED")
  BY DEF Legal, Reaches, Allowed, STATES, WAITING, RecoverableOnRestart

LEMMA SweepTurns ==
    ASSUME TypeOK, tasks = dbTasks,
           NEW expiring \in SUBSET Expirable, NEW removed \in SUBSET Task,
           \A t \in removed : dbTasks[t].state \in TERMINAL /\ dbApprovals[t] = NoRequest,
           Sweep(expiring, removed)
    PROVE  \A t \in Task :
               Turns(dbTasks[t].state, dbTasks'[t].state, dbApprovals[t] # NoRequest)
<1> TAKE t \in Task
<1>1. CASE t \in removed
  BY <1>1 DEF Sweep, Turns, Absent
<1>2. CASE t \in expiring \ removed
  <2>1. dbTasks'[t].state = "EXPIRED" /\ dbTasks[t].state \in WAITING
    BY <1>2, RewrittenStates DEF Sweep, Expirable, TypeOK
  <2> QED
    BY <2>1, ExpiryAndRecoveryAreLegal DEF Turns
<1>3. CASE t \notin expiring \cup removed
  BY <1>3 DEF Sweep, Turns
<1> QED
  BY <1>1, <1>2, <1>3

\* The recovery moves interrupted tasks, and only to RECOVERY_REQUIRED.
LEMMA RecoverMoves ==
    ASSUME TypeOK, Consistent, RecoverAfterRestart
    PROVE  \A t \in Task :
               \/ dbTasks'[t].state = dbTasks[t].state
               \/ /\ dbTasks[t].state \in RecoverableOnRestart
                  /\ dbTasks'[t].state = "RECOVERY_REQUIRED"
<1>1. tasks = dbTasks
  BY DEF RecoverAfterRestart, Consistent, MemoryIsDurable
<1>2. \A row \in TaskRow :
          /\ Unlinked(row).state = row.state
          /\ Recovered(row) \in TaskRow
          /\ Recovered(row).state = "RECOVERY_REQUIRED"
  BY RewrittenStates, RecoveredIsRow
<1>3. \A t \in Task : dbTasks'[t].state = dbTasks[t].state \/
          (t \in Interrupted /\ dbTasks'[t].state = "RECOVERY_REQUIRED")
  BY <1>1, <1>2 DEF RecoverAfterRestart, TypeOK
<1> QED
  BY <1>1, <1>3 DEF Interrupted

LEMMA EveryStepTurns ==
    ASSUME TypeOK, Consistent, [Next]_vars
    PROVE  \A t \in Task :
               Turns(dbTasks[t].state, dbTasks'[t].state, dbApprovals[t] # NoRequest)
<1> DEFINE Goal == \A t \in Task :
               Turns(dbTasks[t].state, dbTasks'[t].state, dbApprovals[t] # NoRequest)
<1> USE DEF history, database, memory
<1>0. ASSUME dbTasks' = dbTasks
      PROVE  Goal
  BY <1>0 DEF Turns
<1>1. ASSUME NEW u \in Task, Operate(u)
      PROVE  Goal
  <2>1. PICK row \in TaskRow : Put(u, row) /\ Legal(tasks[u].state, row.state)
    BY <1>1, OperateEffect DEF Consistent
  <2>2. tasks = dbTasks
    BY <1>1, OperateEffect DEF Consistent, MemoryIsDurable
  <2> QED
    BY <2>1, <2>2 DEF Put, Turns, TypeOK
<1>2. ASSUME NEW t \in Task \cup {NoTask}, SetFocus(t)
      PROVE  Goal
  BY <1>0, <1>2 DEF SetFocus
<1>3. CASE Collect \/ LoadCollect
  <2>1. Sweep(Expirable, Deletable(Retired)) /\ tasks = dbTasks
    BY <1>3 DEF Collect, LoadCollect, Consistent, MemoryIsDurable
  <2>2. /\ Expirable \in SUBSET Expirable /\ Deletable(Retired) \in SUBSET Task
        /\ \A t \in Deletable(Retired) :
               dbTasks[t].state \in TERMINAL /\ dbApprovals[t] = NoRequest
    BY PassIsProper
  <2> QED
    BY <2>1, <2>2, SweepTurns
<1>4. CASE FailCollect
  <2>1. PICK expiring \in SUBSET Expirable : Sweep(expiring, {})
    BY <1>4 DEF FailCollect
  <2>2. tasks = dbTasks
    BY <1>4 DEF FailCollect, Consistent, MemoryIsDurable
  <2> QED
    BY <2>1, <2>2, SweepTurns
<1>5. CASE ClearHistory
  <2> DEFINE ended == {t \in Task : tasks[t].state \in TERMINAL}
  <2>1. Sweep({}, Deletable(ended)) /\ tasks = dbTasks
    BY <1>5 DEF ClearHistory, Consistent, MemoryIsDurable
  <2>2. /\ {} \in SUBSET Expirable /\ Deletable(ended) \in SUBSET Task
        /\ \A t \in Deletable(ended) :
               dbTasks[t].state \in TERMINAL /\ dbApprovals[t] = NoRequest
    BY PassIsProper
  <2> QED
    BY <2>1, <2>2, SweepTurns
<1>6. CASE Load
  BY <1>0, <1>6 DEF Load
<1>7. CASE FailLoadCollect
  <2>1. tasks = dbTasks
    BY <1>7 DEF FailLoadCollect, Consistent, MemoryIsDurable
  <2>2. \A t \in Task : dbTasks'[t] = dbTasks[t] \/
            (dbTasks[t].state \in WAITING /\ dbTasks'[t].state = "EXPIRED")
    BY <1>7, <2>1, RewrittenStates DEF FailLoadCollect, Expirable, TypeOK
  <2> QED
    BY <2>2, ExpiryAndRecoveryAreLegal DEF Turns
<1>8. CASE RehydrateApprovalStates
  <2>1. tasks = dbTasks
    BY <1>8 DEF RehydrateApprovalStates, Consistent, MemoryIsDurable
  <2>2. \A t \in Task : dbTasks'[t] = dbTasks[t] \/
            (t \in Misfiled /\ dbTasks'[t].state = "WAITING_FOR_APPROVAL")
    BY <1>8, RewrittenStates DEF RehydrateApprovalStates, TypeOK
  <2>3. \A t \in Misfiled :
            /\ dbApprovals[t] # NoRequest
            /\ dbTasks[t].state \notin TERMINAL \cup {"ABSENT", "RECOVERY_REQUIRED"}
    BY <2>1 DEF Misfiled, Consistent, ApprovalsAreBacked, Exists
  <2> QED
    BY <2>2, <2>3 DEF Turns
<1>9. CASE RecoverAfterRestart
  BY <1>9, RecoverMoves, ExpiryAndRecoveryAreLegal DEF Turns
<1>10. CASE Crash
  BY <1>0, <1>10 DEF Crash
<1>11. CASE Tick
  BY <1>11, RewrittenStates DEF Tick, Turns, TypeOK
<1>12. CASE UNCHANGED vars
  BY <1>0, <1>12 DEF vars
<1> QED
  BY <1>1, <1>2, <1>3, <1>4, <1>5, <1>6, <1>7, <1>8, <1>9, <1>10, <1>11, <1>12
  DEF Next, Startup

\* The end of a task is final in the table, through late resolutions, start-up
\* repairs and crashes.
THEOREM FinalEnd == Spec => EndIsFinal
<1>1. ASSUME TypeOK, Consistent, [Next]_vars
      PROVE  \A t \in Task :
                 dbTasks[t].state \in TERMINAL =>
                     dbTasks'[t].state \in {dbTasks[t].state, "ABSENT"}
  <2>1. \A s \in TERMINAL : s # "ABSENT"
    BY DEF TERMINAL
  <2> QED
    BY <1>1, <2>1, EveryStepTurns, TerminalIsFinal DEF Turns, Legal, Reaches
<1>2. Spec => []TypeOK /\ []Consistent
  BY TypeInit, ConsistentInit, TypeStep, ConsistentStep, PTL DEF Spec
<1> QED
  BY <1>1, <1>2, PTL DEF Spec, EndIsFinal

\* Only ended tasks that owe no answer are ever deleted.
THEOREM RemovalIsHistory == Spec => OnlyHistoryIsRemoved
<1>1. ASSUME TypeOK, Consistent, [Next]_vars
      PROVE  \A t \in Task :
                 dbTasks[t].state # "ABSENT" /\ dbTasks'[t].state = "ABSENT" =>
                     dbTasks[t].state \in TERMINAL /\ dbApprovals[t] = NoRequest
  BY <1>1, EveryStepTurns DEF Turns, Legal, STATES
<1>2. Spec => []TypeOK /\ []Consistent
  BY TypeInit, ConsistentInit, TypeStep, ConsistentStep, PTL DEF Spec
<1> QED
  BY <1>1, <1>2, PTL DEF Spec, OnlyHistoryIsRemoved

-----------------------------------------------------------------------------
(* Approvals are spent once.                                               *)

LEMMA GrantsStep == TypeOK /\ Consistent /\ GrantsAreSpent /\ [Next]_vars => GrantsAreSpent'
<1> SUFFICES ASSUME TypeOK, Consistent, GrantsAreSpent, [Next]_vars
             PROVE  GrantsAreSpent'
  OBVIOUS
<1> USE DEF counters, history, database, memory, SameApprovals
\* A step that grants and asks nothing can only take requests away.
<1>0. ASSUME UNCHANGED counters,
             \A t \in Task : dbApprovals'[t] \in {dbApprovals[t], NoRequest}
      PROVE  GrantsAreSpent'
  <2> SUFFICES ASSUME NEW t \in Task, NEW q \in Request
               PROVE  granted[t][q] + (IF dbApprovals'[t] = q THEN 1 ELSE 0) <= asked[t][q]
    BY <1>0 DEF GrantsAreSpent
  <2>1. granted[t][q] \in Nat /\ asked[t][q] \in Nat
    BY DEF TypeOK
  <2>2. granted[t][q] + (IF dbApprovals[t] = q THEN 1 ELSE 0) <= asked[t][q]
    BY DEF GrantsAreSpent
  <2>3. dbApprovals'[t] = q => dbApprovals[t] = q
    BY <1>0, ConstantsAreDistinct
  <2> QED
    BY <2>1, <2>2, <2>3
<1>1. ASSUME NEW u \in Task, NEW q \in Request, RequestApproval(u, q)
      PROVE  GrantsAreSpent'
  <2> SUFFICES ASSUME NEW t \in Task, NEW p \in Request
               PROVE  granted'[t][p] + (IF dbApprovals'[t] = p THEN 1 ELSE 0) <= asked'[t][p]
    BY DEF GrantsAreSpent
  <2>1. granted[t][p] \in Nat /\ asked[t][p] \in Nat
    BY DEF TypeOK
  <2>2. granted[t][p] + (IF dbApprovals[t] = p THEN 1 ELSE 0) <= asked[t][p]
    BY DEF GrantsAreSpent
  <2>3. granted' = granted /\ dbApprovals' = [dbApprovals EXCEPT ![u] = q]
    BY <1>1 DEF RequestApproval, PutApproval
  <2>4. asked'[t][p] = IF t = u /\ p = q THEN asked[t][p] + 1 ELSE asked[t][p]
    BY <1>1 DEF RequestApproval, TypeOK
  <2> QED
    BY <2>1, <2>2, <2>3, <2>4 DEF TypeOK
<1>2. ASSUME NEW u \in Task, NEW id \in Request, NEW approved \in BOOLEAN,
             ResolveApproval(u, id, approved)
      PROVE  GrantsAreSpent'
  <2> DEFINE spent == Consumed(u, id)
  <2>1. /\ asked' = asked
        /\ dbApprovals' = [dbApprovals EXCEPT ![u] = NoRequest]
    BY <1>2 DEF ResolveApproval, PutApproval
  <2>2. CASE granted' = granted
    BY <1>0, <2>1, <2>2 DEF TypeOK
  <2>3. CASE granted' # granted
    <3>1. spent # NoRequest /\ granted' = [granted EXCEPT ![u][spent] = @ + 1]
      BY <1>2, <2>3 DEF ResolveApproval
    <3>2. dbApprovals[u] = spent
      BY <1>2, <3>1, ConstantsAreDistinct
      DEF ResolveApproval, OwnerMatches, Consumed, Consistent, ApprovalsAreBacked
    <3> SUFFICES ASSUME NEW t \in Task, NEW p \in Request
                 PROVE  granted'[t][p] + (IF dbApprovals'[t] = p THEN 1 ELSE 0) <= asked[t][p]
      BY <2>1 DEF GrantsAreSpent
    <3>3. granted[t][p] \in Nat /\ asked[t][p] \in Nat
      BY DEF TypeOK
    <3>4. granted[t][p] + (IF dbApprovals[t] = p THEN 1 ELSE 0) <= asked[t][p]
      BY DEF GrantsAreSpent
    <3>5. granted'[t][p] = IF t = u /\ p = spent THEN granted[t][p] + 1 ELSE granted[t][p]
      BY <3>1 DEF TypeOK
    <3>6. dbApprovals'[t] = p => t # u /\ dbApprovals[t] = p
      BY <2>1, ConstantsAreDistinct DEF TypeOK
    <3> QED
      BY <3>2, <3>3, <3>4, <3>5, <3>6
  <2> QED
    BY <2>2, <2>3
<1>3. ASSUME NEW u \in Task, CancelTask(u)
      PROVE  GrantsAreSpent'
  <2>1. \A t \in Task : dbApprovals'[t] \in {dbApprovals[t], NoRequest}
    BY <1>3 DEF CancelTask, PutApproval, TypeOK
  <2> QED
    BY <1>0, <1>3, <2>1 DEF CancelTask
<1>4. ASSUME NEW u \in Task, Operate(u), UNCHANGED <<dbApprovals, counters>>
      PROVE  GrantsAreSpent'
  BY <1>0, <1>4
<1>5. ASSUME NEW e \in SUBSET Task, NEW d \in SUBSET Task, Sweep(e, d)
      PROVE  GrantsAreSpent'
  <2>1. \A t \in Task : dbApprovals'[t] \in {dbApprovals[t], NoRequest}
    BY <1>5 DEF Sweep
  <2> QED
    BY <1>0, <1>5, <2>1 DEF Sweep
<1>6. ASSUME NEW u \in Task, Operate(u)
      PROVE  GrantsAreSpent'
  BY <1>1, <1>2, <1>3, <1>4, <1>6
  DEF Operate, CreateTask, TransitionTask, TouchTask, FailResolveApproval,
      AttachResource, DetachResource
<1>7. ASSUME NEW t \in Task \cup {NoTask}, SetFocus(t)
      PROVE  GrantsAreSpent'
  BY <1>0, <1>7 DEF SetFocus
<1>8. CASE Collect \/ LoadCollect
  <2>1. Expirable \in SUBSET Task /\ Deletable(Retired) \in SUBSET Task
    BY PassIsProper
  <2> QED
    BY <1>5, <1>8, <2>1 DEF Collect, LoadCollect
<1>9. CASE FailCollect
  <2>1. PICK e \in SUBSET Expirable : Sweep(e, {})
    BY <1>9 DEF FailCollect
  <2>2. e \in SUBSET Task /\ {} \in SUBSET Task
    BY PassIsProper
  <2> QED
    BY <1>5, <2>1, <2>2
<1>10. CASE ClearHistory
  <2> DEFINE ended == {t \in Task : tasks[t].state \in TERMINAL}
  <2>1. {} \in SUBSET Task /\ Deletable(ended) \in SUBSET Task
    BY PassIsProper
  <2>2. Sweep({}, Deletable(ended))
    BY <1>10 DEF ClearHistory
  <2> QED
    BY <1>5, <2>1, <2>2
<1>11. CASE Load \/ RecoverAfterRestart \/ Crash \/ Tick \/ UNCHANGED vars
  BY <1>0, <1>11 DEF Load, RecoverAfterRestart, Crash, Tick, vars
<1>12. CASE FailLoadCollect
  <2>1. \A t \in Task : dbApprovals'[t] \in {dbApprovals[t], NoRequest}
    BY <1>12 DEF FailLoadCollect
  <2> QED
    BY <1>0, <1>12, <2>1 DEF FailLoadCollect
<1>13. CASE RehydrateApprovalStates
  <2>1. \A t \in Task : dbApprovals'[t] \in {dbApprovals[t], NoRequest}
    BY <1>13 DEF RehydrateApprovalStates, Misfiled, Consistent, ApprovalsAreBacked
  <2> QED
    BY <1>0, <1>13, <2>1 DEF RehydrateApprovalStates
<1> QED
  BY <1>6, <1>7, <1>8, <1>9, <1>10, <1>11, <1>12, <1>13 DEF Next, Startup

\* However often a resolution is retried, fails to commit, or meets a restart,
\* a request is granted at most as often as it was asked.
THEOREM OneGrantPerAsking == Spec => []GrantsAreSpent
<1>1. Init => GrantsAreSpent
  BY ConstantsAreDistinct DEF Init, GrantsAreSpent, NoApprovals
<1> QED
  BY <1>1, TypeInit, ConsistentInit, TypeStep, ConsistentStep, GrantsStep, PTL DEF Spec

-----------------------------------------------------------------------------
(* What a restart leaves behind.                                           *)

\* The rewrites that are not about an approval leave its mark alone.
LEMMA KeptMarks ==
    ASSUME NEW row \in TaskRow
    PROVE  /\ Fresh(row).approval = row.approval
           /\ Older(row).approval = row.approval
           /\ Unlinked(row).approval = row.approval
           /\ Refiled(row).approval = "WAITING"
           /\ \A l, k : /\ [Fresh(row) EXCEPT !.link = l].approval = row.approval
                        /\ [Fresh(row) EXCEPT !.link = l].state = row.state
                        /\ [Fresh(row) EXCEPT !.key = k, !.link = l].approval = row.approval
                        /\ [Fresh(row) EXCEPT !.key = k, !.link = l].state = row.state
  BY DEF Fresh, Older, Unlinked, Refiled, Moved, TaskRow

\* The task shows what it showed, and can only have lost its request.
Undisturbed(t) ==
    /\ tasks'[t].state = tasks[t].state
    /\ tasks'[t].approval = tasks[t].approval
    /\ approvals'[t] \in {approvals[t], NoRequest}

\* An operation either claims its task for this process or does not disturb
\* it, and it disturbs no other.
LEMMA OperateClaims ==
    ASSUME TypeOK, NEW t \in Task, Operate(t)
    PROVE  /\ phase = "up"
           /\ unrepaired' = unrepaired
           /\ live' \in {live, live \cup {t}}
           /\ \A u \in Task : u \in live' \/ Undisturbed(u)
<1> DEFINE Goal == /\ phase = "up"
                   /\ unrepaired' = unrepaired
                   /\ live' \in {live, live \cup {t}}
                   /\ \A u \in Task : u \in live' \/ Undisturbed(u)
<1> USE DEF history, database, Put, SameApprovals
<1>0. /\ tasks[t] \in TaskRow
      /\ \A u \in Task : tasks'[u] = tasks[u] /\ approvals'[u] = approvals[u] => Undisturbed(u)
  BY DEF TypeOK, Undisturbed
<1>1. CASE CreateTask(t)
  BY <1>0, <1>1 DEF CreateTask, TypeOK
<1>2. ASSUME NEW s \in Targets, TransitionTask(t, s)
      PROVE  Goal
  BY <1>0, <1>2 DEF TransitionTask, TypeOK
<1>3. CASE CancelTask(t)
  BY <1>0, <1>3 DEF CancelTask, PutApproval, TypeOK
<1>4. CASE TouchTask(t)
  BY <1>0, <1>4, RewrittenStates, KeptMarks DEF TouchTask, TypeOK, Undisturbed
<1>5. ASSUME NEW q \in Request, RequestApproval(t, q)
      PROVE  Goal
  BY <1>0, <1>5 DEF RequestApproval, PutApproval, TypeOK
<1>6. ASSUME NEW id \in Request, NEW approved \in BOOLEAN, ResolveApproval(t, id, approved)
      PROVE  Goal
  BY <1>0, <1>6 DEF ResolveApproval, PutApproval, TypeOK
<1>7. ASSUME NEW id \in Request, FailResolveApproval(t, id)
      PROVE  Goal
  BY <1>0, <1>7 DEF FailResolveApproval, TypeOK, Undisturbed
<1>8. ASSUME NEW r \in Resource, AttachResource(t, r)
      PROVE  Goal
  BY <1>0, <1>8, KeptMarks DEF AttachResource, TypeOK, Undisturbed
<1>9. ASSUME NEW r \in Resource, DetachResource(t, r)
      PROVE  Goal
  BY <1>0, <1>9, KeptMarks DEF DetachResource, TypeOK, Undisturbed
<1> QED
  BY <1>1, <1>2, <1>3, <1>4, <1>5, <1>6, <1>7, <1>8, <1>9 DEF Operate

\* A pass claims what it expires and forgets what it removes, request and all.
LEMMA SweepClaims ==
    ASSUME TypeOK, NEW expiring \in SUBSET Task, NEW removed \in SUBSET Task,
           Sweep(expiring, removed)
    PROVE  /\ unrepaired' = unrepaired
           /\ \A u \in Task :
                  \/ approvals'[u] = NoRequest /\ tasks'[u].state \in {"EXPIRED", "ABSENT"}
                  \/ Undisturbed(u) /\ (u \in live' <=> u \in live)
  BY RewrittenStates DEF Sweep, Absent, TypeOK, Undisturbed

\* The last start-up step takes every interrupted task out of execution or
\* records that it could not, and leaves what the others show.
LEMMA RecoveryClaims ==
    ASSUME TypeOK, RecoverAfterRestart
    PROVE  /\ phase = "rehydrated"
           /\ live' = live
           /\ unrepaired \subseteq unrepaired'
           /\ \A u \in Task :
                  \/ tasks'[u].state = "RECOVERY_REQUIRED"
                  \/ Undisturbed(u) /\ (u \in Interrupted => u \in unrepaired')
<1> USE DEF SameApprovals
<1>1. PICK failed \in SUBSET Interrupted, linked \in SUBSET Holders :
          /\ tasks' = [t \in Task |->
                 IF t \in (Interrupted \ failed) \cup (Holders \ linked)
                 THEN IF t \in Holders \ linked
                      THEN Unlinked(IF t \in Interrupted \ failed
                                    THEN Recovered(tasks[t]) ELSE tasks[t])
                      ELSE IF t \in Interrupted \ failed
                           THEN Recovered(tasks[t]) ELSE tasks[t]
                 ELSE tasks[t]]
          /\ unrepaired' = unrepaired \cup failed
  BY DEF RecoverAfterRestart
<1>2. ASSUME NEW u \in Task
      PROVE  \/ tasks'[u].state = "RECOVERY_REQUIRED"
             \/ Undisturbed(u) /\ (u \in Interrupted => u \in unrepaired')
  <2>1. /\ tasks[u] \in TaskRow
        /\ Recovered(tasks[u]) \in TaskRow
        /\ Recovered(tasks[u]).state = "RECOVERY_REQUIRED"
    BY RecoveredIsRow, RewrittenStates DEF TypeOK
  <2>2. CASE u \in Interrupted \ failed
    <3>1. tasks'[u] \in {Recovered(tasks[u]), Unlinked(Recovered(tasks[u]))}
      BY <1>1, <2>2
    <3> QED
      BY <2>1, <3>1, RewrittenStates
  <2>3. CASE u \notin Interrupted \ failed
    <3>1. tasks'[u] \in {tasks[u], Unlinked(tasks[u])}
      BY <1>1, <2>3
    <3>2. approvals' = approvals
      BY DEF RecoverAfterRestart
    <3>3. u \in Interrupted => u \in unrepaired'
      BY <1>1, <2>3
    <3> QED
      BY <2>1, <3>1, <3>2, <3>3, RewrittenStates, KeptMarks DEF Undisturbed
  <2> QED
    BY <2>2, <2>3
<1> QED
  BY <1>1, <1>2 DEF RecoverAfterRestart

\* No operation, pass or tick makes a task execute that this process did not
\* put there; the repair itself is the only step that has to establish it.
LEMMA OrphansStep == TypeOK /\ NoOrphanedExecution /\ [Next]_vars => NoOrphanedExecution'
<1> SUFFICES ASSUME TypeOK, NoOrphanedExecution, [Next]_vars
             PROVE  NoOrphanedExecution'
  OBVIOUS
<1> USE DEF history, database, memory
<1>0. "EXPIRED" \notin RecoverableOnRestart /\ "ABSENT" \notin RecoverableOnRestart
      /\ "RECOVERY_REQUIRED" \notin RecoverableOnRestart
  BY DEF RecoverableOnRestart
<1>1. ASSUME NEW t \in Task, Operate(t)
      PROVE  NoOrphanedExecution'
  BY <1>1, OperateClaims DEF NoOrphanedExecution, Undisturbed
<1>2. ASSUME NEW e \in SUBSET Task, NEW d \in SUBSET Task, Sweep(e, d), phase = "up"
      PROVE  NoOrphanedExecution'
  BY <1>0, <1>2, SweepClaims DEF NoOrphanedExecution, Undisturbed
<1>3. CASE Collect
  BY <1>2, <1>3, PassIsProper DEF Collect
<1>4. CASE FailCollect
  BY <1>2, <1>4, PassIsProper DEF FailCollect
<1>5. CASE ClearHistory
  <2> DEFINE ended == {t \in Task : tasks[t].state \in TERMINAL}
  <2>1. {} \in SUBSET Task /\ Deletable(ended) \in SUBSET Task
    BY PassIsProper
  <2> QED
    BY <1>2, <1>5, <2>1 DEF ClearHistory
<1>6. CASE RecoverAfterRestart
  BY <1>0, <1>6, RecoveryClaims DEF NoOrphanedExecution, Undisturbed, Interrupted
<1>7. CASE Load \/ LoadCollect \/ FailLoadCollect \/ RehydrateApprovalStates \/ Crash
  BY <1>7 DEF Load, LoadCollect, FailLoadCollect, RehydrateApprovalStates, Crash,
              NoOrphanedExecution
<1>8. CASE Tick
  BY <1>8, RewrittenStates DEF Tick, NoOrphanedExecution, TypeOK
<1>9. ASSUME NEW t \in Task \cup {NoTask}, SetFocus(t)
      PROVE  NoOrphanedExecution'
  BY <1>9 DEF SetFocus, NoOrphanedExecution
<1>10. CASE UNCHANGED vars
  BY <1>10 DEF vars, NoOrphanedExecution
<1> QED
  BY <1>1, <1>3, <1>4, <1>5, <1>6, <1>7, <1>8, <1>9, <1>10 DEF Next, Startup

\* After a restart no task is shown executing because an earlier process left
\* it so, unless the repair of that very task failed to commit.
THEOREM NothingIsOrphaned == Spec => []NoOrphanedExecution
<1>1. Init => NoOrphanedExecution
  BY DEF Init, NoOrphanedExecution
<1> QED
  BY <1>1, TypeInit, TypeStep, OrphansStep, PTL DEF Spec

\* ApprovalSurvivesRestart holds from the repair of the approvals on; the
\* recovery that follows it moves such a task to RECOVERY_REQUIRED or not at
\* all.
Answerable(t) ==
    \/ tasks[t].state = "WAITING_FOR_APPROVAL" /\ tasks[t].approval = "WAITING"
    \/ tasks[t].state \in TERMINAL \cup {"RECOVERY_REQUIRED"}

RequestsAreAnswerable ==
    phase \in {"rehydrated", "up"} =>
        \A t \in Task :
            approvals[t] # NoRequest /\ t \notin live \cup unrepaired => Answerable(t)

LEMMA AnswerableStep ==
    TypeOK /\ Consistent /\ RequestsAreAnswerable /\ [Next]_vars => RequestsAreAnswerable'
<1> SUFFICES ASSUME TypeOK, Consistent, RequestsAreAnswerable, [Next]_vars
             PROVE  RequestsAreAnswerable'
  OBVIOUS
<1> USE DEF history, database, memory
<1>0. \A t \in Task : Undisturbed(t) =>
          /\ Answerable(t) => Answerable(t)'
          /\ approvals'[t] # NoRequest => approvals[t] # NoRequest
  BY DEF Undisturbed, Answerable
<1>1. ASSUME NEW t \in Task, Operate(t)
      PROVE  RequestsAreAnswerable'
  BY <1>0, <1>1, OperateClaims DEF RequestsAreAnswerable
<1>2. ASSUME NEW e \in SUBSET Task, NEW d \in SUBSET Task, Sweep(e, d), phase = "up"
      PROVE  RequestsAreAnswerable'
  BY <1>0, <1>2, SweepClaims DEF RequestsAreAnswerable
<1>3. CASE Collect
  BY <1>2, <1>3, PassIsProper DEF Collect
<1>4. CASE FailCollect
  BY <1>2, <1>4, PassIsProper DEF FailCollect
<1>5. CASE ClearHistory
  <2> DEFINE ended == {t \in Task : tasks[t].state \in TERMINAL}
  <2>1. {} \in SUBSET Task /\ Deletable(ended) \in SUBSET Task
    BY PassIsProper
  <2> QED
    BY <1>2, <1>5, <2>1 DEF ClearHistory
<1>6. CASE RehydrateApprovalStates
  <2>1. PICK failed \in SUBSET Misfiled :
            /\ \A t \in Task : tasks'[t] = IF t \in Misfiled \ failed
                                           THEN Refiled(tasks[t]) ELSE tasks[t]
            /\ unrepaired' = failed
            /\ approvals' = approvals
    BY <1>6 DEF RehydrateApprovalStates
  <2>2. SUFFICES ASSUME NEW t \in Task, approvals[t] # NoRequest, t \notin failed
                 PROVE  Answerable(t)'
    BY <2>1 DEF RequestsAreAnswerable
  <2>3. Exists(t)
    BY <1>6, <2>2
    DEF RehydrateApprovalStates, Exists, Consistent, MemoryIsDurable, ApprovalsAreBacked
  <2>4. CASE t \in Misfiled
    <3>1. tasks'[t] = Refiled(tasks[t]) /\ tasks[t] \in TaskRow
      BY <2>1, <2>2, <2>4 DEF TypeOK
    <3> QED
      BY <3>1, RewrittenStates, KeptMarks DEF Answerable
  <2>5. CASE t \notin Misfiled
    BY <2>1, <2>2, <2>3, <2>5 DEF Misfiled, Answerable
  <2> QED
    BY <2>4, <2>5
<1>7. CASE RecoverAfterRestart
  BY <1>0, <1>7, RecoveryClaims DEF RequestsAreAnswerable, Answerable
<1>8. CASE Load \/ LoadCollect \/ FailLoadCollect \/ Crash
  BY <1>8 DEF Load, LoadCollect, FailLoadCollect, Crash, RequestsAreAnswerable
<1>9. CASE Tick
  <2>1. \A t \in Task : tasks[t] \in TaskRow /\ tasks'[t] = Older(tasks[t])
    BY <1>9 DEF Tick, TypeOK
  <2>2. \A t \in Task : Undisturbed(t)
    BY <1>9, <2>1, RewrittenStates, KeptMarks DEF Tick, Undisturbed
  <2> QED
    BY <1>0, <1>9, <2>2 DEF Tick, RequestsAreAnswerable
<1>10. ASSUME NEW t \in Task \cup {NoTask}, SetFocus(t)
       PROVE  RequestsAreAnswerable'
  BY <1>10 DEF SetFocus, RequestsAreAnswerable, Answerable
<1>11. CASE UNCHANGED vars
  BY <1>11 DEF vars, RequestsAreAnswerable, Answerable
<1> QED
  BY <1>1, <1>3, <1>4, <1>5, <1>6, <1>7, <1>8, <1>9, <1>10, <1>11 DEF Next, Startup

\* A pending request that outlives its process can still be answered.
THEOREM RequestsSurvive == Spec => []ApprovalSurvivesRestart
<1>1. Init => RequestsAreAnswerable
  BY DEF Init, RequestsAreAnswerable
<1>2. RequestsAreAnswerable => ApprovalSurvivesRestart
  BY DEF RequestsAreAnswerable, ApprovalSurvivesRestart, Answerable
<1> QED
  BY <1>1, <1>2, TypeInit, ConsistentInit, TypeStep, ConsistentStep, AnswerableStep, PTL
  DEF Spec

LEMMA AttachedStep == TypeOK /\ AttachedIsLive /\ [Next]_vars => AttachedIsLive'
<1> SUFFICES ASSUME TypeOK, AttachedIsLive, [Next]_vars
             PROVE  AttachedIsLive'
  OBVIOUS
<1> USE DEF history, database, memory, SameResources
<1>1. ASSUME NEW t \in Task, Operate(t)
      PROVE  AttachedIsLive'
  <2>1. ASSUME NEW r \in Resource, AttachResource(t, r)
        PROVE  AttachedIsLive'
    BY <2>1 DEF AttachResource, AttachedIsLive, TypeOK
  <2>2. ASSUME NEW r \in Resource, DetachResource(t, r)
        PROVE  AttachedIsLive'
    BY <2>2 DEF DetachResource, AttachedIsLive, TypeOK, ResourceRow
  <2>3. CASE UNCHANGED <<phase, resources, attached>>
    BY <2>3 DEF AttachedIsLive
  <2> QED
    BY <1>1, <2>1, <2>2, <2>3
    DEF Operate, CreateTask, TransitionTask, CancelTask, TouchTask, RequestApproval,
        ResolveApproval, FailResolveApproval
<1>2. CASE Collect \/ FailCollect \/ ClearHistory
  <2>1. PICK e, d : Sweep(e, d)
    BY <1>2 DEF Collect, FailCollect, ClearHistory
  <2>2. phase = "up" /\ attached' = attached
    BY <1>2, <2>1 DEF Collect, FailCollect, ClearHistory, Sweep
  <2>3. \A r \in Resource : resources'[r] \in {resources[r], Unowned}
    BY <2>1 DEF Sweep, Disowned
  <2> QED
    BY <2>2, <2>3 DEF AttachedIsLive, Unowned
<1>3. CASE RecoverAfterRestart
  <2>1. \A r \in Resource :
            resources'[r] = IF r \in LinkedResources
                            THEN [resources[r] EXCEPT !.state = "STALE"]
                            ELSE resources[r]
    BY <1>3 DEF RecoverAfterRestart
  <2>2. \A r \in Resource : resources'[r].state # "ATTACHED"
    BY <2>1 DEF LinkedResources, TypeOK, ResourceRow
  <2> QED
    BY <2>2 DEF AttachedIsLive
<1>4. CASE Load \/ LoadCollect \/ FailLoadCollect \/ RehydrateApprovalStates \/ Crash
  BY <1>4 DEF Load, LoadCollect, FailLoadCollect, RehydrateApprovalStates, Crash,
              AttachedIsLive
<1>5. ASSUME NEW t \in Task \cup {NoTask}, SetFocus(t)
      PROVE  AttachedIsLive'
  BY <1>5 DEF SetFocus, AttachedIsLive
<1>6. CASE Tick \/ UNCHANGED vars
  BY <1>6 DEF Tick, vars, AttachedIsLive
<1> QED
  BY <1>1, <1>2, <1>3, <1>4, <1>5, <1>6 DEF Next, Startup

\* No browser of an earlier process is taken for a live one.
THEOREM AttachmentsAreOwn == Spec => []AttachedIsLive
<1>1. Init => AttachedIsLive
  BY DEF Init, AttachedIsLive
<1> QED
  BY <1>1, TypeInit, TypeStep, AttachedStep, PTL DEF Spec

-----------------------------------------------------------------------------
(* The tables implement TaskLifecycle: what a step may do to the state of  *)
(* one task and to the answer it owes.                                     *)

Promised(from, to, owed, owes) ==
    \/ to = from /\ (owes <=> owed)
    \/ from = "ABSENT" /\ to = "CREATED" /\ (owes <=> owed)
    \/ from # "ABSENT" /\ to \in Allowed[from] /\ (owes <=> owed)
    \/ /\ from # "ABSENT" /\ owes
       /\ Reaches(from, "WAITING_FOR_APPROVAL") /\ to = "WAITING_FOR_APPROVAL"
    \/ /\ from # "ABSENT" /\ ~owes
       /\ to \in {"RUNNING", "CANCELLED", "EXPIRED"} /\ Reaches(from, to)
    \/ /\ owed /\ owes /\ to = "WAITING_FOR_APPROVAL"
       /\ from \notin TERMINAL \cup {"ABSENT", "RECOVERY_REQUIRED"}
    \/ from \in TERMINAL /\ to = "ABSENT" /\ ~owed /\ ~owes

KeepsPromise(t) ==
    Promised(dbTasks[t].state, dbTasks'[t].state,
             dbApprovals[t] # NoRequest, dbApprovals'[t] # NoRequest)

LEMMA PromisesAreDurable == (\A t \in Task : KeepsPromise(t)) => Durable!Next
<1> SUFFICES ASSUME \A t \in Task : KeepsPromise(t), NEW t \in Task
             PROVE  \/ Durable!Rest(t) \/ Durable!Create(t) \/ Durable!Advance(t)
                    \/ Durable!Ask(t) \/ Durable!Settle(t) \/ Durable!Refile(t)
                    \/ Durable!Remove(t)
  BY DEF Durable!Next
<1> DEFINE from == dbTasks[t].state
           to == dbTasks'[t].state
           owed == t \in {u \in Task : dbApprovals[u] # NoRequest}
           owes == t \in {u \in Task : dbApprovals'[u] # NoRequest}
<1>1. Promised(from, to, owed, owes)
  BY DEF KeepsPromise
<1>2. /\ [u \in Task |-> dbTasks[u].state][t] = from
      /\ [u \in Task |-> dbTasks'[u].state][t] = to
  OBVIOUS
<1> HIDE DEF from, to, owed, owes
<1> QED
  BY <1>1, <1>2
  DEF Promised, from, to, owed, owes, Durable!Rest, Durable!Create, Durable!Advance,
      Durable!Ask, Durable!Settle, Durable!Refile, Durable!Remove, Durable!Keeps,
      Durable!TERMINAL, TERMINAL, Durable!Reaches, Reaches, Durable!Allowed, Allowed,
      Durable!STATES, STATES, Durable!WAITING, WAITING

\* An operation that leaves the approvals table alone moves its task along
\* the table of transitions; the three that write it ask or settle.
LEMMA OperatePromises ==
    ASSUME TypeOK, Consistent, NEW t \in Task, Operate(t)
    PROVE  \A u \in Task : KeepsPromise(u)
<1> USE DEF database, SameApprovals
<1>1. PICK row \in TaskRow : Put(t, row) /\ Legal(tasks[t].state, row.state)
  BY OperateEffect DEF Consistent
<1>2. tasks = dbTasks /\ tasks[t] \in TaskRow /\ "ABSENT" \notin STATES
  BY OperateEffect DEF Consistent, MemoryIsDurable, TypeOK, STATES
<1>3. dbTasks'[t] = row /\ \A u \in Task : u # t => dbTasks'[u] = dbTasks[u]
  BY <1>1 DEF Put, TypeOK
<1>4. CASE dbApprovals' = dbApprovals
  BY <1>1, <1>2, <1>3, <1>4 DEF KeepsPromise, Promised, Legal, Reaches
<1>5. ASSUME NEW q \in Request \cup {NoRequest}, PutApproval(t, q), Exists(t),
             \/ q # NoRequest /\ row.state = "WAITING_FOR_APPROVAL"
             \/ q = NoRequest /\ row.state \in {"RUNNING", "CANCELLED"}
      PROVE  \A u \in Task : KeepsPromise(u)
  <2>1. dbApprovals'[t] = q /\ \A u \in Task : u # t => dbApprovals'[u] = dbApprovals[u]
    BY <1>5 DEF PutApproval, TypeOK
  <2>2. Reaches(dbTasks[t].state, row.state) /\ dbTasks[t].state # "ABSENT"
    BY <1>1, <1>2, <1>5 DEF Legal, Exists
  <2>3. KeepsPromise(t)
    BY <1>3, <1>5, <2>1, <2>2 DEF KeepsPromise, Promised
  <2>4. \A u \in Task : u # t => KeepsPromise(u)
    BY <1>3, <2>1 DEF KeepsPromise, Promised
  <2> QED
    BY <2>3, <2>4
<1>6. CASE CancelTask(t)
  <2>1. row = Moved(tasks[t], "CANCELLED") /\ PutApproval(t, NoRequest) /\ Exists(t)
    BY <1>1, <1>2, <1>6 DEF CancelTask, Put, TypeOK
  <2>2. row.state = "CANCELLED"
    BY <1>2, <2>1, RewrittenStates DEF STATES
  <2> QED
    BY <1>5, <2>1, <2>2
<1>7. ASSUME NEW q \in Request, RequestApproval(t, q)
      PROVE  \A u \in Task : KeepsPromise(u)
  <2> DEFINE moved == Moved(tasks[t], "WAITING_FOR_APPROVAL")
  <2>1. row = [moved EXCEPT !.approval = "WAITING"] /\ PutApproval(t, q) /\ Exists(t)
    BY <1>1, <1>2, <1>7 DEF RequestApproval, Put, TypeOK
  <2>2. "WAITING_FOR_APPROVAL" \in STATES
    BY DEF STATES
  <2>3. moved \in TaskRow /\ moved.state = "WAITING_FOR_APPROVAL"
    BY <1>2, <2>2, MovedIsRow, RewrittenStates
  <2>4. row.state = "WAITING_FOR_APPROVAL" /\ q # NoRequest
    BY <2>1, <2>3, MarkedState, ConstantsAreDistinct
  <2> QED
    BY <1>5, <2>1, <2>4
<1>8. ASSUME NEW id \in Request, NEW approved \in BOOLEAN, ResolveApproval(t, id, approved)
      PROVE  \A u \in Task : KeepsPromise(u)
  <2> DEFINE moved == Moved(tasks[t], Verdict(approved))
             mark == IF approved THEN "GRANTED" ELSE "DENIED"
  <2>1. row = [moved EXCEPT !.approval = mark] /\ PutApproval(t, NoRequest) /\ Exists(t)
    BY <1>1, <1>2, <1>8 DEF ResolveApproval, Put, TypeOK
  <2>2. Verdict(approved) \in STATES /\ Verdict(approved) \in {"RUNNING", "CANCELLED"}
    BY DEF Verdict, STATES
  <2>3. moved \in TaskRow /\ moved.state = Verdict(approved)
    BY <1>2, <2>2, MovedIsRow, RewrittenStates
  <2>4. row.state = Verdict(approved)
    BY <2>1, <2>3, MarkedState
  <2> QED
    BY <1>5, <2>1, <2>2, <2>4
<1> QED
  BY <1>4, <1>6, <1>7, <1>8
  DEF Operate, CreateTask, TransitionTask, TouchTask, FailResolveApproval,
      AttachResource, DetachResource

\* A pass, cut short or not, settles what it expires and removes only tasks
\* that have ended and owe nothing.
LEMMA SweepPromises ==
    ASSUME TypeOK, tasks = dbTasks,
           NEW expiring \in SUBSET Expirable, NEW removed \in SUBSET Task,
           \A t \in removed : dbTasks[t].state \in TERMINAL /\ dbApprovals[t] = NoRequest,
           \A t \in Task :
               /\ dbTasks'[t] = IF t \in removed THEN Absent
                                ELSE IF t \in expiring THEN Expired(tasks[t])
                                ELSE dbTasks[t]
               /\ dbApprovals'[t] = IF t \in expiring \cup removed THEN NoRequest
                                    ELSE dbApprovals[t]
    PROVE  \A t \in Task : KeepsPromise(t)
<1> TAKE t \in Task
<1>1. CASE t \in removed
  BY <1>1 DEF KeepsPromise, Promised, Absent
<1>2. CASE t \in expiring \ removed
  <2>1. dbTasks'[t].state = "EXPIRED" /\ dbTasks[t].state \in WAITING
    BY <1>2, RewrittenStates DEF Expirable, TypeOK
  <2>2. dbTasks[t].state # "ABSENT" /\ Reaches(dbTasks[t].state, "EXPIRED")
    BY <2>1, ExpiryAndRecoveryAreLegal DEF Legal, WAITING
  <2> QED
    BY <1>2, <2>1, <2>2 DEF KeepsPromise, Promised
<1>3. CASE t \notin expiring \cup removed
  BY <1>3 DEF KeepsPromise, Promised
<1> QED
  BY <1>1, <1>2, <1>3

LEMMA EveryStepPromises ==
    ASSUME TypeOK, Consistent, [Next]_vars
    PROVE  \A t \in Task : KeepsPromise(t)
<1> DEFINE Goal == \A t \in Task : KeepsPromise(t)
<1> USE DEF history, database, memory
<1>0. ASSUME \A t \in Task : dbTasks'[t].state = dbTasks[t].state, dbApprovals' = dbApprovals
      PROVE  Goal
  BY <1>0 DEF KeepsPromise, Promised
<1>1. ASSUME NEW t \in Task, Operate(t)
      PROVE  Goal
  BY <1>1, OperatePromises
<1>2. ASSUME NEW t \in Task \cup {NoTask}, SetFocus(t)
      PROVE  Goal
  BY <1>0, <1>2 DEF SetFocus
<1>3. ASSUME NEW e \in SUBSET Expirable, NEW d \in SUBSET Task, phase # "down", Sweep(e, d),
             \A t \in d : dbTasks[t].state \in TERMINAL /\ dbApprovals[t] = NoRequest
      PROVE  Goal
  <2>1. tasks = dbTasks
    BY <1>3 DEF Consistent, MemoryIsDurable
  <2>2. \A t \in Task :
            /\ dbTasks'[t] = IF t \in d THEN Absent
                             ELSE IF t \in e THEN Expired(tasks[t]) ELSE dbTasks[t]
            /\ dbApprovals'[t] = IF t \in e \cup d THEN NoRequest ELSE dbApprovals[t]
    BY <1>3 DEF Sweep
  <2> QED
    BY <1>3, <2>1, <2>2, SweepPromises
<1>4. CASE Collect \/ LoadCollect
  <2>1. Sweep(Expirable, Deletable(Retired)) /\ phase # "down"
    BY <1>4 DEF Collect, LoadCollect
  <2>2. /\ Expirable \in SUBSET Expirable /\ Deletable(Retired) \in SUBSET Task
        /\ \A t \in Deletable(Retired) :
               dbTasks[t].state \in TERMINAL /\ dbApprovals[t] = NoRequest
    BY PassIsProper
  <2> QED
    BY <1>3, <2>1, <2>2
<1>5. CASE FailCollect
  <2>1. PICK e \in SUBSET Expirable : Sweep(e, {})
    BY <1>5 DEF FailCollect
  <2> QED
    BY <1>3, <1>5, <2>1 DEF FailCollect
<1>6. CASE ClearHistory
  <2> DEFINE ended == {t \in Task : tasks[t].state \in TERMINAL}
  <2>1. Sweep({}, Deletable(ended)) /\ phase # "down"
    BY <1>6 DEF ClearHistory
  <2>2. /\ {} \in SUBSET Expirable /\ Deletable(ended) \in SUBSET Task
        /\ \A t \in Deletable(ended) :
               dbTasks[t].state \in TERMINAL /\ dbApprovals[t] = NoRequest
    BY PassIsProper
  <2> QED
    BY <1>3, <2>1, <2>2
<1>7. CASE Load \/ Crash
  BY <1>0, <1>7 DEF Load, Crash
<1>8. CASE FailLoadCollect
  <2>1. tasks = dbTasks
    BY <1>8 DEF FailLoadCollect, Consistent, MemoryIsDurable
  <2>2. PICK e \in SUBSET Expirable :
            /\ dbTasks' = [t \in Task |-> IF t \in e THEN Expired(tasks[t]) ELSE dbTasks[t]]
            /\ dbApprovals' = [t \in Task |-> IF t \in e THEN NoRequest ELSE dbApprovals[t]]
    BY <1>8 DEF FailLoadCollect
  <2>3. \A t \in Task :
            /\ dbTasks'[t] = IF t \in {} THEN Absent
                             ELSE IF t \in e THEN Expired(tasks[t]) ELSE dbTasks[t]
            /\ dbApprovals'[t] = IF t \in e \cup {} THEN NoRequest ELSE dbApprovals[t]
    BY <2>2
  <2>4. {} \in SUBSET Task
    OBVIOUS
  <2> QED
    BY <2>1, <2>3, <2>4, SweepPromises
<1>9. CASE RehydrateApprovalStates
  <2>1. PICK failed \in SUBSET Misfiled : \A t \in Task :
            IF t \in Misfiled \ failed
            THEN dbTasks'[t] = Refiled(tasks[t]) /\ dbApprovals'[t] = approvals[t]
            ELSE dbTasks'[t] = dbTasks[t] /\ dbApprovals'[t] = dbApprovals[t]
    BY <1>9 DEF RehydrateApprovalStates
  <2>2. ASSUME NEW t \in Misfiled
        PROVE  /\ Refiled(tasks[t]).state = "WAITING_FOR_APPROVAL"
               /\ approvals[t] # NoRequest /\ dbApprovals[t] # NoRequest
               /\ dbTasks[t].state \notin TERMINAL \cup {"ABSENT", "RECOVERY_REQUIRED"}
    BY <1>9, <2>2, RewrittenStates
    DEF RehydrateApprovalStates, Misfiled, Exists, TypeOK, Consistent, MemoryIsDurable,
        ApprovalsAreBacked
  <2>3. ASSUME NEW t \in Task
        PROVE  KeepsPromise(t)
    <3>1. CASE t \in Misfiled \ failed
      BY <2>1, <2>2, <3>1 DEF KeepsPromise, Promised
    <3>2. CASE t \notin Misfiled \ failed
      BY <2>1, <3>2 DEF KeepsPromise, Promised
    <3> QED
      BY <3>1, <3>2
  <2> QED
    BY <2>3
<1>10. CASE RecoverAfterRestart
  <2>1. tasks = dbTasks /\ tasks' = dbTasks' /\ dbApprovals' = dbApprovals
    BY <1>10 DEF RecoverAfterRestart, Consistent, MemoryIsDurable, SameApprovals
  <2>2. ASSUME NEW t \in Task
        PROVE  KeepsPromise(t)
    <3>1. \/ dbTasks'[t].state = dbTasks[t].state
          \/ /\ dbTasks[t].state \in RecoverableOnRestart
             /\ dbTasks'[t].state = "RECOVERY_REQUIRED"
      BY <1>10, RecoverMoves
    <3>2. \A s \in RecoverableOnRestart : s # "ABSENT" /\ "RECOVERY_REQUIRED" \in Allowed[s]
      BY DEF RecoverableOnRestart, Allowed, STATES
    <3> QED
      BY <2>1, <3>1, <3>2 DEF KeepsPromise, Promised
  <2> QED
    BY <2>2
<1>11. CASE Tick
  BY <1>0, <1>11, RewrittenStates DEF Tick, TypeOK
<1>12. CASE UNCHANGED vars
  BY <1>0, <1>12 DEF vars
<1> QED
  BY <1>1, <1>2, <1>4, <1>5, <1>6, <1>7, <1>8, <1>9, <1>10, <1>11, <1>12 DEF Next, Startup

\* Threads, failed transactions, crashes and repairs add nothing to what
\* TaskLifecycle promises about the tables.
THEOREM TablesImplement == Spec => TablesKeepPromise
<1>1. Init => Durable!Init
  BY DEF Init, Durable!Init, NoTasks, NoApprovals, Absent
<1>2. TypeOK /\ Consistent /\ [Next]_vars => Durable!Next
  BY EveryStepPromises, PromisesAreDurable
<1>3. Spec => []TypeOK /\ []Consistent
  BY TypeInit, ConsistentInit, TypeStep, ConsistentStep, PTL DEF Spec
<1> QED
  BY <1>1, <1>2, <1>3, PTL DEF Spec, TablesKeepPromise, Durable!Spec

=============================================================================
