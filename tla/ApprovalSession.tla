--------------------------- MODULE ApprovalSession ---------------------------
(***************************************************************************)
(* One Session (agent_control/session.py) that runs requests in background *)
(* lanes and asks a person before a message is sent.  A lane suspends its  *)
(* run on the question and registers the approval with the RuntimeManager; *)
(* the console thread takes the answers, and an approved action runs in a  *)
(* lane of its own.  Between them stand two copies of the same fact: the   *)
(* durable approvals of the registry and the session's own pending         *)
(* approval, which lanes and the console write without a common lock.      *)
(* Tasks move along the table of TaskStates; a refused transition is noted *)
(* and ignored by the session, as _runtime_transition does.                *)
(* Approvals owned by a workflow, which do not expire and resume a graph,  *)
(* are those of WorkflowGraph and are not modelled here.                   *)
(***************************************************************************)
EXTENDS TaskStates, Naturals, FiniteSets

CONSTANTS
    Task,         \* the requests given to the session
    NoTask,       \* "no pending approval"
    Ttl,          \* PendingApproval.ttl_s, in units of the clock
    MaxAnswers,   \* bound: what the person says or commands
    MaxRestarts,  \* bound: ends of the process
    MaxTime       \* bound: the clock

ASSUME SessionAssumption ==
    /\ NoTask \notin Task
    /\ Ttl \in Nat
    /\ MaxAnswers \in Nat /\ MaxRestarts \in Nat /\ MaxTime \in Nat

VARIABLES
    state,       \* the registry's state of each task, or "ABSENT"
    approvals,   \* the approvals the registry shows
    rows,        \* the approvals in its table
    payload,     \* what the approval of each task says: a record and a date
    own,         \* the tasks that carry the id of this session
    now,         \* the time
    pending,     \* session.pending_approval, or Nobody
    cancelled,   \* the tasks whose BackgroundTask record says CANCELLED
    lane,        \* where the lane of each request is
    queued,      \* approved actions waiting for a worker, by record and task
    running,     \* approved actions being executed, by record and task
    console,     \* the answer the console thread is dealing with
    born,              \* history: when the run of each task put its question
    granted, refused,  \* history: consents and refusals
    left,              \* history: how the last run of each task left it
    answers, restarts  \* history: used to bound the instance

registry == <<state, approvals, rows, payload, own>>
session == <<pending, cancelled, lane, queued, running, console>>
history == <<born, granted, refused, left>>
counters == <<answers, restarts>>
vars == <<registry, now, session, history, counters>>

Idle == [at |-> "idle", task |-> NoTask, record |-> NoTask, yes |-> FALSE]

Never == MaxTime + 1

Nobody == [task |-> NoTask, record |-> NoTask, at |-> 0]

Answer == [at : {"taken", "cleared"}, task : Task, record : Task, yes : BOOLEAN]

\* A PendingApproval: its task, its background_task_id and its asked_at.
Handle == [task : Task, record : Task, at : 0..MaxTime]

Lane == {"none", "queued", "running", "suspended", "asking", "ending", "done"}

Init ==
    /\ state = [t \in Task |-> "ABSENT"]
    /\ approvals = {} /\ rows = {} /\ own = {}
    /\ payload = [t \in Task |-> [record |-> t, at |-> 0]] /\ now = 0
    /\ pending = Nobody /\ cancelled = {}
    /\ lane = [t \in Task |-> "none"]
    /\ queued = [w \in Task \X Task |-> 0] /\ running = [w \in Task \X Task |-> 0]
    /\ console = Idle
    /\ born = [t \in Task |-> Never] /\ granted = [t \in Task |-> 0]
    /\ refused = {} /\ left = [t \in Task |-> "ended"]
    /\ answers = 0 /\ restarts = 0

\* The state of the task after a transition that may be refused.
Moved(from, s) == IF Reaches(from, s) THEN s ELSE from

Move(t, s) == state' = [state EXCEPT ![t] = Moved(@, s)]

\* The record copies what the registry says when a lane ends.
Report(t, s) ==
    cancelled' = IF s = "CANCELLED" THEN cancelled \cup {t} ELSE cancelled \ {t}

-----------------------------------------------------------------------------
(* The lane of a request.                                                  *)

Submit(t) ==
    /\ lane[t] = "none" /\ state[t] = "ABSENT"
    /\ state' = [state EXCEPT ![t] = "CREATED"]
    /\ own' = own \cup {t}
    /\ lane' = [lane EXCEPT ![t] = "queued"]
    /\ UNCHANGED <<approvals, rows, payload, now, pending, cancelled, queued, running,
                   console, history, counters>>

StartRun(t) ==
    /\ lane[t] = "queued"
    /\ Move(t, "RUNNING")
    /\ lane' = [lane EXCEPT ![t] = "running"]
    /\ UNCHANGED <<approvals, rows, payload, own, now, pending, cancelled, queued,
                   running, console, history, counters>>

\* A request that is refused, or answered by a question of the session's own,
\* is not run: the turn has no result, and the record is moved all the same.
Decline(t) ==
    /\ lane[t] = "queued"
    /\ state' = [state EXCEPT ![t] = IF @ = "CREATED" THEN "RUNNING" ELSE @]
    /\ Report(t, state'[t])
    /\ lane' = [lane EXCEPT ![t] = "done"]
    /\ left' = [left EXCEPT ![t] = "declined"]
    /\ UNCHANGED <<approvals, rows, payload, own, now, pending, queued, running, console,
                   born, granted, refused, counters>>

\* The run needs no consent, or fails before it needs one.
FinishRun(t) ==
    /\ lane[t] = "running"
    /\ \E s \in {"COMPLETED", "FAILED"} : Move(t, s)
    /\ Report(t, state'[t])
    /\ lane' = [lane EXCEPT ![t] = "done"]
    /\ UNCHANGED <<approvals, rows, payload, own, now, pending, queued, running,
                   console, history, counters>>

\* An exception ends the lane wherever it is, and fails the task.
BreakRun(t) ==
    /\ lane[t] \in {"queued", "running", "suspended", "asking", "ending"}
    /\ Move(t, "FAILED")
    /\ Report(t, state'[t])
    /\ lane' = [lane EXCEPT ![t] = "done"]
    /\ UNCHANGED <<approvals, rows, payload, own, now, pending, queued, running,
                   console, history, counters>>

\* The policy wants a consent: the run ends with the question, and the event
\* watcher publishes that before the session has seen the result.
Suspend(t) ==
    /\ lane[t] = "running"
    /\ Move(t, "WAITING_FOR_USER")
    /\ lane' = [lane EXCEPT ![t] = "suspended"]
    /\ UNCHANGED <<approvals, rows, payload, own, now, pending, cancelled, queued,
                   running, console, history, counters>>

\* The session's own handle first, whatever it held before.
Ask(t) ==
    /\ lane[t] = "suspended"
    /\ pending' = [task |-> t, record |-> t, at |-> now]
    /\ lane' = [lane EXCEPT ![t] = "asking"]
    /\ UNCHANGED <<registry, now, cancelled, queued, running, console, history, counters>>

\* Mutant: only a task that was carried out is not asked about.
MayBeAskedAgain(s) == s \notin {"COMPLETED", "FAILED"}

MayBeAsked(s) == Reaches(s, "WAITING_FOR_APPROVAL")

\* Then the registry, with the record and the date of the handle that is there
\* by now, which may be another's; that there is none, or that the registry
\* refuses, is swallowed.
Register(t) ==
    /\ lane[t] = "asking"
    /\ lane' = [lane EXCEPT ![t] = "ending"]
    /\ IF MayBeAsked(state[t]) /\ pending # Nobody
       THEN /\ state' = [state EXCEPT ![t] = "WAITING_FOR_APPROVAL"]
            /\ approvals' = approvals \cup {t}
            /\ rows' = rows \cup {t}
            /\ payload' = [payload EXCEPT
                              ![t] = [record |-> pending.record, at |-> pending.at]]
       ELSE UNCHANGED <<state, approvals, rows, payload>>
    /\ UNCHANGED <<own, now, pending, cancelled, queued, running, console, history,
                   counters>>

\* The question is put to the person.
EndRun(t) ==
    /\ lane[t] = "ending"
    /\ Report(t, state[t])
    /\ lane' = [lane EXCEPT ![t] = "done"]
    /\ born' = [born EXCEPT ![t] = now]
    /\ UNCHANGED <<registry, now, pending, queued, running, console, granted, refused,
                   left, counters>>

-----------------------------------------------------------------------------
(* The console thread.                                                     *)

Candidates(shown, mine) == IF shown \cap mine # {} THEN shown \cap mine ELSE shown

\* Mutant: an approval that comes from the registry counts as asked just now.
RecordedJustNow(t) == [task |-> t, record |-> payload[t].record, at |-> now]

\* The handle an approval of the registry makes.
Recorded(t) == [task |-> t, record |-> payload[t].record, at |-> payload[t].at]

\* What a session without a handle takes a bare answer to be about: the one
\* candidate, if its task still waits.
Rehydrated(shown, mine, st) ==
    LET c == Candidates(shown, mine) IN
    IF \E t \in c : c = {t} /\ st[t] = "WAITING_FOR_APPROVAL"
    THEN Recorded(CHOOSE t \in c : TRUE)
    ELSE Nobody

Owner == IF pending # Nobody THEN pending ELSE Rehydrated(approvals, own, state)

Expired(h) == now > h.at + Ttl

\* An answer to the question h is accepted, unless it has expired.
Take(h, yes) ==
    /\ IF Expired(h)
       THEN pending' = Nobody /\ UNCHANGED console
       ELSE /\ pending' = h
            /\ console' = [at |-> "taken", task |-> h.task, record |-> h.record, yes |-> yes]
    /\ UNCHANGED <<registry, now, cancelled, lane, queued, running, history>>

Speaks ==
    /\ console = Idle
    /\ answers < MaxAnswers
    /\ answers' = answers + 1
    /\ UNCHANGED restarts

\* A bare yes or no.  Without an owner it is conversation, or the session
\* asks which of several is meant.
BareAnswer(yes) ==
    /\ Speaks
    /\ Owner # Nobody
    /\ Take(Owner, yes)

\* "2": with several candidates and no handle, naming one is a consent.
Pick(t) ==
    /\ Speaks
    /\ Owner = Nobody
    /\ t \in Candidates(approvals, own)
    /\ Cardinality(Candidates(approvals, own)) > 1
    /\ state[t] = "WAITING_FOR_APPROVAL"
    /\ Take(Recorded(t), TRUE)

\* "resume task-...": the question is put again, with the age it has.
Resume(t) ==
    /\ Speaks
    /\ t \in approvals /\ state[t] = "WAITING_FOR_APPROVAL"
    /\ pending' = Recorded(t)
    /\ UNCHANGED <<registry, now, cancelled, lane, queued, running, console, history>>

Drop(t) ==
    /\ approvals' = approvals \ {t}
    /\ rows' = rows \ {t}

\* "cancel task-...": RuntimeManager.cancel_task.
Cancel(t) ==
    /\ Speaks
    /\ state[t] \notin TERMINAL \cup {"ABSENT"}
    /\ Move(t, "CANCELLED")
    /\ Drop(t)
    /\ UNCHANGED <<payload, own, now, session, history>>

Clear ==
    /\ console.at = "taken"
    /\ pending' = Nobody
    /\ console' = [console EXCEPT !.at = "cleared"]
    /\ UNCHANGED <<registry, now, cancelled, lane, queued, running, history, counters>>

\* resolve_approval drops the request from memory before it looks at the
\* state; when it refuses, nothing was written and the session goes on.
Settle(t, s) ==
    /\ approvals' = approvals \ {t}
    /\ rows' = IF Reaches(state[t], s) THEN rows \ {t} ELSE rows
    /\ Move(t, s)
    /\ UNCHANGED <<payload, own>>

\* The record becomes QUEUED and the action is given to the executor.
Grant ==
    LET t == console.task
        work == <<console.record, console.task>>
    IN
    /\ console.at = "cleared" /\ console.yes
    /\ Settle(t, "RUNNING")
    /\ cancelled' = cancelled \ {console.record}
    /\ queued' = [queued EXCEPT ![work] = @ + 1]
    /\ granted' = [granted EXCEPT ![t] = @ + 1]
    /\ console' = Idle
    /\ UNCHANGED <<now, pending, lane, running, born, refused, left, counters>>

Reject ==
    LET t == console.task IN
    /\ console.at = "cleared" /\ ~console.yes
    /\ Settle(t, "CANCELLED")
    /\ cancelled' = cancelled \cup {console.record}
    /\ refused' = refused \cup {t}
    /\ console' = Idle
    /\ UNCHANGED <<now, pending, lane, queued, running, born, granted, left, counters>>

-----------------------------------------------------------------------------
(* The lane of an approved action of t, under the record b.                *)

Begin(b, t) ==
    /\ queued[<<b, t>>] > 0
    /\ queued' = [queued EXCEPT ![<<b, t>>] = @ - 1]
    /\ IF b \in cancelled
       THEN left' = [left EXCEPT ![t] = "dropped"] /\ UNCHANGED <<state, running>>
       ELSE /\ Move(t, "RUNNING")
            /\ running' = [running EXCEPT ![<<b, t>>] = @ + 1]
            /\ UNCHANGED left
    /\ UNCHANGED <<approvals, rows, payload, own, now, pending, cancelled, lane, console,
                   born, granted, refused, counters>>

Ends(b, t) ==
    /\ running[<<b, t>>] > 0
    /\ running' = [running EXCEPT ![<<b, t>>] = @ - 1]
    /\ UNCHANGED <<approvals, rows, payload, own, now, pending, lane, queued, console,
                   born, granted, refused, counters>>

\* The action is executed and verified; the registry may refuse the verdict.
Perform(b, t) ==
    /\ Ends(b, t)
    /\ \E s \in {"COMPLETED", "FAILED"} : Move(t, s)
    /\ Report(b, state'[b])
    /\ left' = [left EXCEPT ![t] = "ended"]

\* An exception, before the verdict or after it: the record says UNKNOWN, the
\* registry is left as it is.
Break(b, t) ==
    /\ Ends(b, t)
    /\ UNCHANGED state \/ \E s \in {"COMPLETED", "FAILED"} : Move(t, s)
    /\ cancelled' = cancelled \ {b}
    /\ left' = [left EXCEPT ![t] = "broken"]

-----------------------------------------------------------------------------
Tick ==
    /\ now < MaxTime
    /\ now' = now + 1
    /\ UNCHANGED <<registry, session, history, counters>>

\* Mutant: what was under way is left as it is.
RecoveredWaits(t) ==
    IF t \in rows /\ state[t] \notin TERMINAL \cup {"RECOVERY_REQUIRED"}
    THEN "WAITING_FOR_APPROVAL"
    ELSE state[t]

\* What the registry makes of a task at start-up: an approval in the table
\* puts its task back to waiting, other work in flight needs recovery.
Recovered(t) ==
    IF t \in rows /\ state[t] \notin TERMINAL \cup {"RECOVERY_REQUIRED"}
    THEN "WAITING_FOR_APPROVAL"
    ELSE IF state[t] \in RecoverableOnRestart THEN "RECOVERY_REQUIRED"
    ELSE state[t]

\* A process ends, with the answer it was dealing with and the work in its
\* lanes, and a new session with an id of its own starts on the same table.
Restart ==
    LET st == [t \in Task |-> Recovered(t)] IN
    /\ restarts < MaxRestarts
    /\ restarts' = restarts + 1
    /\ state' = st
    /\ approvals' = rows
    /\ own' = {}
    /\ pending' = Rehydrated(rows, {}, st)
    /\ cancelled' = {t \in Task : st[t] = "CANCELLED"}
    /\ lane' = [t \in Task |-> IF lane[t] = "none" THEN "none" ELSE "done"]
    /\ queued' = [w \in Task \X Task |-> 0] /\ running' = [w \in Task \X Task |-> 0]
    /\ console' = Idle
    /\ left' = [t \in Task |-> "ended"]
    /\ UNCHANGED <<rows, payload, now, born, granted, refused, answers>>

Next ==
    \/ \E t \in Task :
          \/ Submit(t) \/ StartRun(t) \/ Decline(t) \/ FinishRun(t) \/ BreakRun(t)
          \/ Suspend(t) \/ Ask(t) \/ Register(t) \/ EndRun(t)
          \/ Pick(t) \/ Resume(t) \/ Cancel(t)
          \/ \E b \in Task : Begin(b, t) \/ Perform(b, t) \/ Break(b, t)
    \/ \E yes \in BOOLEAN : BareAnswer(yes)
    \/ Clear \/ Grant \/ Reject
    \/ Tick \/ Restart

Spec == Init /\ [][Next]_vars

-----------------------------------------------------------------------------
(* Properties.                                                             *)

\* Every variable has its type, and the console is on an answer or on none.
TypeOK ==
    /\ state \in [Task -> STATES \cup {"ABSENT"}]
    /\ approvals \subseteq Task /\ rows \subseteq Task
    /\ payload \in [Task -> [record : Task, at : 0..MaxTime]]
    /\ own \subseteq Task /\ now \in 0..MaxTime
    /\ cancelled \subseteq Task /\ refused \subseteq Task
    /\ pending \in Handle \cup {Nobody}
    /\ lane \in [Task -> Lane]
    /\ queued \in [Task \X Task -> Nat] /\ running \in [Task \X Task -> Nat]
    /\ console \in Answer \cup {Idle}
    /\ born \in [Task -> 0..Never] /\ granted \in [Task -> Nat]
    /\ left \in [Task -> {"ended", "declined", "broken", "dropped"}]
    /\ answers \in 0..MaxAnswers /\ restarts \in 0..MaxRestarts

Served(t) ==
    lane[t] = "running" \/ \E b \in Task : queued[<<b, t>>] + running[<<b, t>>] > 0

\* A task that is RUNNING is run in this process, by its lane, an approved
\* action or one about to start, with three exceptions only: its request had no
\* run, its approved action raised, or that was dropped because the record it
\* ran under is cancelled (session.py:2255-2313 and 2521-2534, with the recovery
\* of runtime.py:306).
RunningIsServed ==
    \A t \in Task : state[t] = "RUNNING" => Served(t) \/ left[t] # "ended"

\* A refusal that was carried out is the last word on its task: no later
\* answer, late registration or restart gets a consent for it taken
\* (session.py:2219-2239).
NoIsFinal == [][\A t \in refused : granted'[t] = granted[t]]_vars

\* No answer is taken for a question put longer ago than its time to live,
\* however the session came by its handle: asked in this process, rehydrated,
\* picked or resumed, with the date of its own or of another's question
\* (session.py:2190).
ExpiredIsNotTaken ==
    [][console = Idle /\ console' # Idle => now <= born[console'.task] + Ttl]_vars

\* "Resume the exact approved task" (session.py:2272): what runs under the
\* record of a request is its own approved action.
RunsUnderItsRecord == \A b, t \in Task : running[<<b, t>>] > 0 => b = t

\* "A background exception is a runtime failure, not an alternate UNKNOWN state
\* owned by the presentation record" (session.py:2551): a task whose run ended
\* with an exception is not RUNNING.
ExceptionIsFailure == \A t \in Task : left[t] = "broken" => state[t] # "RUNNING"

\* "A cancelled waiting task must also lose its durable approval owner;
\* otherwise ... its approval could still be selected by a later bare yes"
\* (runtime.py:441): no consent is taken for a cancelled task.
CancelledIsNotSelected ==
    [][console = Idle /\ console' # Idle /\ console'.yes
          => state[console'.task] # "CANCELLED"]_vars

=============================================================================
