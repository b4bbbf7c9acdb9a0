---------------------------- MODULE RuntimeManager ----------------------------
(***************************************************************************)
(* agent_control/runtime.py: the registry of tasks, pending approvals and  *)
(* browser resources that every session, worker thread and API handler     *)
(* shares, and runtime_persistence.py: the SQLite file behind it.          *)
(*                                                                         *)
(* Each public method holds one re-entrant lock for its whole body, so a   *)
(* method is one action.  It writes the database first, in a single        *)
(* transaction, and memory after: a transaction that raises leaves both as *)
(* they were, which is a stuttering step here, except in the methods that  *)
(* change memory before or between transactions (resolve_approval, the     *)
(* garbage collector, the start-up repairs); those have their failure      *)
(* outcomes spelled out.  A crash loses memory and keeps the database.     *)
(*                                                                         *)
(* Left out: the event journal, goals, metadata and summaries (data the    *)
(* lifecycle never reads), started_at and completed_at.                    *)
(***************************************************************************)
EXTENDS TaskStates, Naturals

CONSTANTS
    Task,               \* task ids callers may create
    Resource,           \* browser resource keys
    RequestId,          \* approval_request_id values
    Anonymous,          \* the request of a payload that carries no id
    NoTask, NoRequest, NoResource,
    Targets,            \* the states callers hand to transition_task
    WaitingTimeout,     \* _waiting_timeout_s, in ticks
    TerminalRetention,  \* _terminal_retention_s, in ticks
    MaxAge,             \* ages saturate here; no comparison can tell
    MaxAsks             \* bound: how often one request id is asked per task

Request == RequestId \cup {Anonymous}

ASSUME ConstantsAreDistinct ==
    /\ NoTask \notin Task
    /\ NoResource \notin Resource
    /\ Anonymous \notin RequestId
    /\ NoRequest \notin Request

\* An expiry is stamped with the clock read after the pass fixed its own
\* cutoff, so no pass removes what it has just expired: retention is at least
\* one tick.  The saturation point lies beyond both limits.
ASSUME LimitsAreOrdered ==
    /\ WaitingTimeout \in Nat
    /\ TerminalRetention \in Nat \ {0}
    /\ MaxAge \in Nat
    /\ MaxAge > WaitingTimeout
    /\ MaxAge >= TerminalRetention
    /\ MaxAsks \in Nat

ASSUME TargetsAreStates == Targets \subseteq STATES

ApprovalState == {"NONE", "WAITING", "GRANTED", "DENIED", "EXPIRED"}

LinkState == {"NONE", "ATTACHED", "DETACHED", "STALE"}

\* A RuntimeTask reduced to what the lifecycle reads.  "ABSENT" stands for an
\* id with no row; age is the time since updated_at.
TaskRow == [state    : STATES \cup {"ABSENT"},
            approval : ApprovalState,
            key      : Resource \cup {NoResource},
            link     : LinkState,
            age      : 0..MaxAge]

ResourceRow == [owner : Task \cup {NoTask}, state : LinkState]

Absent == [state |-> "ABSENT", approval |-> "NONE", key |-> NoResource,
           link |-> "NONE", age |-> 0]

Unowned == [owner |-> NoTask, state |-> "NONE"]

-----------------------------------------------------------------------------
VARIABLES
    phase,          \* down, then the steps of _load, then up
    tasks,          \* _tasks
    approvals,      \* _approvals: the pending request of each task
    resources,      \* _resources
    focused,        \* _focused_task_id
    dbTasks,        \* the tasks table
    dbApprovals,    \* the runtime_approvals table
    dbResources,    \* the runtime_resources table
    live,           \* history: tasks whose state this process wrote
    unrepaired,     \* history: tasks whose start-up repair failed to commit
    attached,       \* history: resources this process attached
    asked, granted  \* history: how often a request was asked, and granted

memory   == <<tasks, approvals, resources, focused>>
database == <<dbTasks, dbApprovals, dbResources>>
counters == <<asked, granted>>
history  == <<live, unrepaired, attached, asked, granted>>
vars     == <<phase, memory, database, history>>

Phases == {"down", "loaded", "collected", "rehydrated", "up"}

TypeOK ==
    /\ phase \in Phases
    /\ tasks \in [Task -> TaskRow]
    /\ approvals \in [Task -> Request \cup {NoRequest}]
    /\ resources \in [Resource -> ResourceRow]
    /\ focused \in Task \cup {NoTask}
    /\ dbTasks \in [Task -> TaskRow]
    /\ dbApprovals \in [Task -> Request \cup {NoRequest}]
    /\ dbResources \in [Resource -> ResourceRow]
    /\ live \subseteq Task
    /\ unrepaired \subseteq Task
    /\ attached \subseteq Resource
    /\ asked \in [Task -> [Request -> 0..MaxAsks]]
    /\ granted \in [Task -> [Request -> Nat]]

Exists(t) == tasks[t].state # "ABSENT"

NoTasks     == [t \in Task |-> Absent]
NoApprovals == [t \in Task |-> NoRequest]
NoResources == [r \in Resource |-> Unowned]

Init ==
    /\ phase = "down"
    /\ tasks = NoTasks /\ dbTasks = NoTasks
    /\ approvals = NoApprovals /\ dbApprovals = NoApprovals
    /\ resources = NoResources /\ dbResources = NoResources
    /\ focused = NoTask
    /\ live = {} /\ unrepaired = {} /\ attached = {}
    /\ asked = [t \in Task |-> [q \in Request |-> 0]]
    /\ granted = [t \in Task |-> [q \in Request |-> 0]]

-----------------------------------------------------------------------------
(* Transactions.  Put is commit() of one task row followed by the same     *)
(* assignment in memory.                                                   *)

Put(t, row) ==
    /\ tasks' = [tasks EXCEPT ![t] = row]
    /\ dbTasks' = [dbTasks EXCEPT ![t] = row]

\* Fault: the transaction that settles a request leaves its row in the table.
PutApprovalKept(t, q) ==
    /\ approvals' = [approvals EXCEPT ![t] = q]
    /\ dbApprovals' = [dbApprovals EXCEPT ![t] = IF q = NoRequest THEN @ ELSE q]

PutApproval(t, q) ==
    /\ approvals' = [approvals EXCEPT ![t] = q]
    /\ dbApprovals' = [dbApprovals EXCEPT ![t] = q]

SameApprovals == UNCHANGED <<approvals, dbApprovals>>
SameResources == UNCHANGED <<resources, dbResources>>

Fresh(row) == [row EXCEPT !.age = 0]

Moved(row, s) == Fresh([row EXCEPT !.state = s])

-----------------------------------------------------------------------------
(* Task operations.                                                        *)

CreateTask(t) ==
    /\ phase = "up"
    /\ ~Exists(t)
    /\ Put(t, [Absent EXCEPT !.state = "CREATED"])
    /\ focused' = IF focused = NoTask THEN t ELSE focused
    /\ live' = live \cup {t}
    /\ SameApprovals
    /\ SameResources
    /\ UNCHANGED <<phase, unrepaired, attached, counters>>

\* The approval_state some callers pass along with the new state.
Marks(t, s) ==
    {tasks[t].approval} \cup
    (CASE s = "RUNNING" -> {"GRANTED"}
       [] s = "CANCELLED" -> {"DENIED"}
       [] OTHER -> {})

\* transition_task: the same state again is an update, legal even at the end
\* of the lifecycle; any other target must be in the table.  No caller of the
\* generic transition asks it to remove the pending approval.
TransitionTask(t, s) ==
    /\ phase = "up"
    /\ Exists(t)
    /\ Reaches(tasks[t].state, s)
    /\ \E m \in Marks(t, s) :
           Put(t, [Moved(tasks[t], s) EXCEPT !.approval = m])
    /\ live' = live \cup {t}
    /\ SameApprovals
    /\ SameResources
    /\ UNCHANGED <<phase, focused, unrepaired, attached, counters>>

\* cancel_task: a transition that takes the pending approval with it.
CancelTask(t) ==
    /\ phase = "up"
    /\ Exists(t)
    /\ Reaches(tasks[t].state, "CANCELLED")
    /\ Put(t, Moved(tasks[t], "CANCELLED"))
    /\ PutApproval(t, NoRequest)
    /\ live' = live \cup {t}
    /\ SameResources
    /\ UNCHANGED <<phase, focused, unrepaired, attached, counters>>

\* event, update_task, update_workflow and the pending-input methods rewrite
\* data this model leaves out and restart the inactivity clock.
TouchTask(t) ==
    /\ phase = "up"
    /\ Exists(t)
    /\ Put(t, Fresh(tasks[t]))
    /\ SameApprovals
    /\ SameResources
    /\ UNCHANGED <<phase, focused, history>>

SetFocus(t) ==
    /\ phase = "up"
    /\ t \in {NoTask} \cup {u \in Task : Exists(u)}
    /\ focused' = t
    /\ UNCHANGED <<phase, tasks, approvals, resources, database, history>>

-----------------------------------------------------------------------------
(* Approvals.                                                              *)

RequestApproval(t, q) ==
    /\ phase = "up"
    /\ Exists(t)
    /\ \/ Reaches(tasks[t].state, "WAITING_FOR_APPROVAL")
       \/ tasks[t].state = "WAITING_FOR_USER"
    /\ asked[t][q] < MaxAsks
    /\ Put(t, [Moved(tasks[t], "WAITING_FOR_APPROVAL") EXCEPT !.approval = "WAITING"])
    /\ PutApproval(t, q)
    /\ live' = live \cup {t}
    /\ asked' = [asked EXCEPT ![t][q] = @ + 1]
    /\ SameResources
    /\ UNCHANGED <<phase, focused, unrepaired, attached, granted>>

\* The check resolve_approval makes when the caller names a request.
OwnerMatches(t, id) == id = Anonymous \/ approvals[t] = id

Verdict(approved) == IF approved THEN "RUNNING" ELSE "CANCELLED"

\* Fault: resolve_approval does not look at the state of the task.
ResolvableAlways(t, approved) == Exists(t) /\ approved \in BOOLEAN

Resolvable(t, approved) == Reaches(tasks[t].state, Verdict(approved))

\* The request a resolution consumes: the one the caller names, else the row.
Consumed(t, id) == IF id = Anonymous THEN dbApprovals[t] ELSE id

\* resolve_approval runs a collection pass under a lock of its own and then
\* takes the lock again; other threads act and time passes in between, so its
\* pass is a Collect step at some earlier point.
ResolveApproval(t, id, approved) ==
    /\ phase = "up"
    /\ Exists(t)
    /\ OwnerMatches(t, id)
    /\ Resolvable(t, approved)
    /\ Put(t, [Moved(tasks[t], Verdict(approved)) EXCEPT
                  !.approval = IF approved THEN "GRANTED" ELSE "DENIED"])
    /\ PutApproval(t, NoRequest)
    /\ live' = live \cup {t}
    /\ granted' = IF approved /\ Consumed(t, id) # NoRequest
                  THEN [granted EXCEPT ![t][Consumed(t, id)] = @ + 1]
                  ELSE granted
    /\ SameResources
    /\ UNCHANGED <<phase, focused, unrepaired, attached, asked>>

\* resolve_approval drops the request from memory before it looks at the
\* task's state and before the transaction.  When either refuses, the request
\* is gone from memory and everything else is as it was.
FailResolveApproval(t, id) ==
    /\ phase = "up"
    /\ Exists(t)
    /\ OwnerMatches(t, id)
    /\ approvals' = [approvals EXCEPT ![t] = NoRequest]
    /\ UNCHANGED <<phase, tasks, resources, focused, database, history>>

-----------------------------------------------------------------------------
(* Browser resources.                                                      *)

AttachResource(t, r) ==
    /\ phase = "up"
    /\ Exists(t)
    /\ Put(t, [Fresh(tasks[t]) EXCEPT !.key = r, !.link = "ATTACHED"])
    /\ resources' = [resources EXCEPT ![r] = [owner |-> t, state |-> "ATTACHED"]]
    /\ dbResources' = [dbResources EXCEPT ![r] = [owner |-> t, state |-> "ATTACHED"]]
    /\ attached' = attached \cup {r}
    /\ SameApprovals
    /\ UNCHANGED <<phase, focused, live, unrepaired, counters>>

DetachResource(t, r) ==
    /\ phase = "up"
    /\ resources[r].owner = t
    /\ Exists(t)
    /\ Put(t, [Fresh(tasks[t]) EXCEPT !.link = "DETACHED"])
    /\ resources' = [resources EXCEPT ![r].state = "DETACHED"]
    /\ dbResources' = IF dbResources[r].owner = t
                      THEN [dbResources EXCEPT ![r].state = "DETACHED"]
                      ELSE dbResources
    /\ SameApprovals
    /\ UNCHANGED <<phase, focused, history>>

-----------------------------------------------------------------------------
(* Retention.  Every query method and the clean-up thread run a collection *)
(* pass; the pass holds the lock throughout.                               *)

Expirable ==
    {t \in Task : tasks[t].state \in WAITING /\ tasks[t].age > WaitingTimeout}

\* delete_terminal_tasks re-reads the state from the table and keeps every
\* task that still has an approval row.
Deletable(candidates) ==
    {t \in candidates : dbTasks[t].state \in TERMINAL /\ dbApprovals[t] = NoRequest}

Retired ==
    {t \in Task : tasks[t].state \in TERMINAL /\ tasks[t].age >= TerminalRetention}

\* Fault: an expiry recorded with a word the approval state does not have.
ExpiredUnknown(row) == [Moved(row, "EXPIRED") EXCEPT !.approval = "TIMED_OUT"]

\* Fault: an expiry that marks the approval and forgets the task.
ExpiredMarkOnly(row) == [row EXCEPT !.approval = "EXPIRED"]

Expired(row) == [Moved(row, "EXPIRED") EXCEPT !.approval = "EXPIRED"]

\* Where the focus may land: it moves only off a removed task, to the first
\* task left in the dict, whichever that is.
FocusAfter(removed) ==
    LET left == {t \in Task : Exists(t)} \ removed
    IN  IF focused \notin removed THEN {focused}
        ELSE IF left = {} THEN {NoTask} ELSE left

Disowned(table, removed) ==
    [r \in Resource |-> IF table[r].owner \in removed THEN Unowned ELSE table[r]]

\* One pass: the tasks in expiring are expired, one transaction each, then
\* those in removed are deleted in a single transaction.
Sweep(expiring, removed) ==
    LET Swept(table) == [t \in Task |->
            IF t \in removed THEN Absent
            ELSE IF t \in expiring THEN Expired(tasks[t]) ELSE table[t]]
        Cleared(table) == [t \in Task |->
            IF t \in expiring \cup removed THEN NoRequest ELSE table[t]]
    IN  /\ tasks' = Swept(tasks)
        /\ dbTasks' = Swept(dbTasks)
        /\ approvals' = Cleared(approvals)
        /\ dbApprovals' = Cleared(dbApprovals)
        /\ resources' = Disowned(resources, removed)
        /\ dbResources' = Disowned(dbResources, removed)
        /\ focused' \in FocusAfter(removed)
        /\ live' = (live \cup expiring) \ removed
        /\ UNCHANGED <<unrepaired, attached, counters>>

Collect ==
    /\ phase = "up"
    /\ Sweep(Expirable, Deletable(Retired))
    /\ UNCHANGED phase

\* A transaction that raises ends the pass: some waiting tasks have been
\* expired, nothing is deleted.
FailCollect ==
    /\ phase = "up"
    /\ \E expiring \in SUBSET Expirable : Sweep(expiring, {})
    /\ UNCHANGED phase

ClearHistory ==
    /\ phase = "up"
    /\ Sweep({}, Deletable({t \in Task : tasks[t].state \in TERMINAL}))
    /\ UNCHANGED phase

-----------------------------------------------------------------------------
(* Start-up (_load): read the tables, collect, repair; no caller can reach *)
(* the manager before the last step.                                       *)

ForgetMemory ==
    /\ tasks' = NoTasks
    /\ approvals' = NoApprovals
    /\ resources' = NoResources
    /\ focused' = NoTask

Load ==
    /\ phase = "down"
    /\ phase' = "loaded"
    /\ tasks' = dbTasks
    /\ approvals' = dbApprovals
    /\ resources' = dbResources
    /\ LET rows == {t \in Task : dbTasks[t].state # "ABSENT"}
       IN  focused' \in IF rows = {} THEN {NoTask} ELSE rows
    /\ UNCHANGED <<database, history>>

LoadCollect ==
    /\ phase = "loaded"
    /\ phase' = "collected"
    /\ Sweep(Expirable, Deletable(Retired))

\* The constructor does not catch a failing pass: the process stops with the
\* expiries it had committed.
FailLoadCollect ==
    /\ phase = "loaded"
    /\ phase' = "down"
    /\ ForgetMemory
    /\ \E expiring \in SUBSET Expirable :
           /\ dbTasks' = [t \in Task |->
                  IF t \in expiring THEN Expired(tasks[t]) ELSE dbTasks[t]]
           /\ dbApprovals' = [t \in Task |->
                  IF t \in expiring THEN NoRequest ELSE dbApprovals[t]]
    /\ UNCHANGED <<dbResources, history>>

\* Fault: only tasks in another waiting state are put back.
MisfiledWaiting ==
    {t \in Task : approvals[t] # NoRequest /\ tasks[t].state \in WAITING}

\* Fault: ended tasks that kept their request are put back too.
MisfiledEnded ==
    {t \in Task :
        /\ approvals[t] # NoRequest
        /\ tasks[t].state \notin {"ABSENT", "WAITING_FOR_APPROVAL", "RECOVERY_REQUIRED"}}

\* Tasks whose row does not show the approval they own.
Misfiled ==
    {t \in Task :
        /\ approvals[t] # NoRequest
        /\ Exists(t)
        /\ ~(tasks[t].state = "WAITING_FOR_APPROVAL" /\ tasks[t].approval = "WAITING")
        /\ tasks[t].state \notin TERMINAL \cup {"RECOVERY_REQUIRED"}}

Refiled(row) == [Moved(row, "WAITING_FOR_APPROVAL") EXCEPT !.approval = "WAITING"]

\* _rehydrate_approval_states: one transaction per task, a failing one skips
\* the task.
RehydrateApprovalStates ==
    /\ phase = "collected"
    /\ phase' = "rehydrated"
    /\ \E failed \in SUBSET Misfiled :
           LET repaired == Misfiled \ failed
               Repair(table) == [t \in Task |->
                   IF t \in repaired THEN Refiled(tasks[t]) ELSE table[t]]
           IN  /\ tasks' = Repair(tasks)
               /\ dbTasks' = Repair(dbTasks)
               /\ dbApprovals' = [t \in Task |->
                      IF t \in repaired THEN approvals[t] ELSE dbApprovals[t]]
               /\ unrepaired' = failed
    /\ SameResources
    /\ UNCHANGED <<approvals, focused, live, attached, counters>>

\* Fault: verification is not taken for an interrupted execution.
InterruptedNarrow == {t \in Task : tasks[t].state \in {"PLANNING", "RUNNING"}}

Interrupted == {t \in Task : tasks[t].state \in RecoverableOnRestart}

\* Fault: only the resources of interrupted tasks are marked stale.
LinkedInterrupted ==
    {r \in Resource : resources[r].state = "ATTACHED" /\ resources[r].owner \in Interrupted}

LinkedResources == {r \in Resource : resources[r].state = "ATTACHED"}

Holders == {t \in Task : Exists(t) /\ \E r \in LinkedResources : resources[r].owner = t}

Recovered(row) ==
    [Moved(row, "RECOVERY_REQUIRED") EXCEPT
        !.link = IF row.key # NoResource THEN "STALE" ELSE row.link]

Unlinked(row) == [Fresh(row) EXCEPT !.link = "STALE"]

\* _recover_after_restart: interrupted tasks first, then the resources and
\* the tasks that hold them; a transaction that fails skips its task.  The
\* resource's own row keeps its state in the table.
RecoverAfterRestart ==
    /\ phase = "rehydrated"
    /\ phase' = "up"
    /\ \E failed \in SUBSET Interrupted, linked \in SUBSET Holders :
           LET First(row, t) == IF t \in Interrupted \ failed THEN Recovered(row) ELSE row
               Second(row, t) == IF t \in Holders \ linked THEN Unlinked(row) ELSE row
               written == (Interrupted \ failed) \cup (Holders \ linked)
               Repair(table) == [t \in Task |->
                   IF t \in written THEN Second(First(tasks[t], t), t) ELSE table[t]]
           IN  /\ tasks' = Repair(tasks)
               /\ dbTasks' = Repair(dbTasks)
               /\ unrepaired' = unrepaired \cup failed
    /\ resources' = [r \in Resource |->
           IF r \in LinkedResources THEN [resources[r] EXCEPT !.state = "STALE"]
           ELSE resources[r]]
    /\ SameApprovals
    /\ UNCHANGED <<focused, dbResources, live, attached, counters>>

\* The process ends, orderly (close) or not.
Crash ==
    /\ phase # "down"
    /\ phase' = "down"
    /\ ForgetMemory
    /\ live' = {} /\ unrepaired' = {} /\ attached' = {}
    /\ UNCHANGED <<database, counters>>

Older(row) ==
    [row EXCEPT !.age = IF row.state = "ABSENT" \/ row.age = MaxAge THEN row.age
                        ELSE row.age + 1]

Tick ==
    /\ tasks' = [t \in Task |-> Older(tasks[t])]
    /\ dbTasks' = [t \in Task |-> Older(dbTasks[t])]
    /\ UNCHANGED <<phase, approvals, resources, focused, dbApprovals, dbResources, history>>

-----------------------------------------------------------------------------
Operate(t) ==
    \/ CreateTask(t)
    \/ \E s \in Targets : TransitionTask(t, s)
    \/ CancelTask(t)
    \/ TouchTask(t)
    \/ \E q \in Request : RequestApproval(t, q)
    \/ \E id \in Request, approved \in BOOLEAN : ResolveApproval(t, id, approved)
    \/ \E id \in Request : FailResolveApproval(t, id)
    \/ \E r \in Resource : AttachResource(t, r) \/ DetachResource(t, r)

Startup ==
    \/ Load
    \/ LoadCollect
    \/ FailLoadCollect
    \/ RehydrateApprovalStates
    \/ RecoverAfterRestart

Next ==
    \/ \E t \in Task : Operate(t)
    \/ \E t \in Task \cup {NoTask} : SetFocus(t)
    \/ Collect
    \/ FailCollect
    \/ ClearHistory
    \/ Startup
    \/ Crash
    \/ Tick

Spec == Init /\ [][Next]_vars

\* The clean-up thread keeps running and a transaction does not fail forever.
\* Nothing else is promised: callers, time and restarts are the environment's.
FairSpec == Spec /\ WF_vars(Collect)

-----------------------------------------------------------------------------
(* Safety.                                                                 *)

\* What memory shows of a task, a crash cannot take away: whenever the
\* manager is past loading, every task in memory is the row in the table.
MemoryIsDurable == phase # "down" => tasks = dbTasks

\* A request a caller can see is in the table and belongs to a task that
\* exists; memory may have lost a request the table still holds, never the
\* other way round.
ApprovalsAreBacked ==
    \A t \in Task :
        /\ approvals[t] # NoRequest => approvals[t] = dbApprovals[t]
        /\ dbApprovals[t] # NoRequest => dbTasks[t].state # "ABSENT"

\* No request is granted more often than it was asked, across retries of a
\* failed resolution, crashes and start-up repairs (one approval authorises
\* one execution).
GrantsAreSpent ==
    \A t \in Task, q \in Request :
        granted[t][q] + (IF dbApprovals[t] = q THEN 1 ELSE 0) <= asked[t][q]

\* A process never shows execution it did not start itself: a task in an
\* executing state was put there by this process, or its repair failed.
NoOrphanedExecution ==
    phase = "up" =>
        \A t \in Task :
            tasks[t].state \in RecoverableOnRestart => t \in live \cup unrepaired

\* A pending request that survives a restart is answerable: its task waits
\* for approval, unless it needs recovery or has ended, or was moved since.
ApprovalSurvivesRestart ==
    phase = "up" =>
        \A t \in Task :
            approvals[t] # NoRequest /\ t \notin live \cup unrepaired =>
                \/ tasks[t].state = "WAITING_FOR_APPROVAL" /\ tasks[t].approval = "WAITING"
                \/ tasks[t].state \in TERMINAL \cup {"RECOVERY_REQUIRED"}

\* A resource the registry shows as attached was attached by this process:
\* no browser of an earlier process is taken for a live one.
AttachedIsLive ==
    phase = "up" => \A r \in Resource : resources[r].state = "ATTACHED" => r \in attached

\* Deleting history leaves nothing behind: the focus and the owner of every
\* resource, in memory and in the table, are tasks that exist.
NothingDangles ==
    /\ focused # NoTask => Exists(focused)
    /\ \A r \in Resource :
           /\ resources[r].owner # NoTask => Exists(resources[r].owner)
           /\ dbResources[r].owner # NoTask => dbTasks[dbResources[r].owner].state # "ABSENT"

\* The end of a task is final: no operation, late resolution, start-up repair
\* or crash moves a task out of a terminal state; it can only be deleted.
EndIsFinal ==
    [][\A t \in Task :
          dbTasks[t].state \in TERMINAL =>
              dbTasks'[t].state \in {dbTasks[t].state, "ABSENT"}]_vars

\* Collection removes ended tasks only, and none whose approval is pending.
OnlyHistoryIsRemoved ==
    [][\A t \in Task :
          dbTasks[t].state # "ABSENT" /\ dbTasks'[t].state = "ABSENT" =>
              dbTasks[t].state \in TERMINAL /\ dbApprovals[t] = NoRequest]_vars

\* The tables, crashes and repairs included, behave as TaskLifecycle promises.
Durable == INSTANCE TaskLifecycle WITH
    life <- [t \in Task |-> dbTasks[t].state],
    pending <- {t \in Task : dbApprovals[t] # NoRequest}

TablesKeepPromise == Durable!Spec

-----------------------------------------------------------------------------
(* Liveness, under FairSpec.                                               *)

\* The clean-up thread does its work although it swallows every error: a task
\* that has waited longer than the timeout expires, unless it is answered or
\* touched, and one past its retention is deleted, unless it is touched or an
\* approval row it still has holds it back; or the process stops.
CleanUpHappens ==
    \A t \in Task :
        /\ (phase = "up" /\ t \in Expirable) ~> (phase # "up" \/ t \notin Expirable)
        /\ (phase = "up" /\ t \in Deletable(Retired))
               ~> (phase # "up" \/ t \notin Deletable(Retired))

=============================================================================
