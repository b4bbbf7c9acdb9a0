--------------------------- MODULE SessionProofs ---------------------------
(***************************************************************************)
(* Proofs about the two models of a session: ApprovalSession, for every    *)
(* set of requests and every number of answers and restarts; and, under    *)
(* the name Turns, SessionTurns, for every number of threads, inputs,      *)
(* places of a file and repetitions of a question.                         *)
(***************************************************************************)
EXTENDS ApprovalSession, TurnPromises, Sequences, TLAPS

\* Nothing follows the end of a task, and everything else can be cancelled.
LEMMA TerminalIsFinal == \A s \in TERMINAL : Allowed[s] = {}
  BY DEF Allowed, STATES, TERMINAL, WAITING

LEMMA UnendedIsCancellable == \A s \in STATES \ TERMINAL : "CANCELLED" \in Allowed[s]
  BY DEF Allowed, STATES, TERMINAL, WAITING

LEMMA MovedIsState ==
    ASSUME NEW from \in STATES, NEW s \in STATES
    PROVE  Moved(from, s) \in STATES
  BY DEF Moved

LEMMA MovedFromEnd ==
    ASSUME NEW from \in TERMINAL, NEW s \in STATES
    PROVE  Moved(from, s) = from
  BY TerminalIsFinal DEF Moved, Reaches

\* A cancellation ends every task, in one way or another.
LEMMA CancellationEnds ==
    ASSUME NEW from \in STATES
    PROVE  Moved(from, "CANCELLED") \in TERMINAL
  BY UnendedIsCancellable DEF Moved, Reaches, TERMINAL

\* A verdict takes a task out of RUNNING.
LEMMA VerdictLeavesRunning ==
    ASSUME NEW from \in STATES, NEW s \in {"COMPLETED", "FAILED"}
    PROVE  Moved(from, s) # "RUNNING"
<1>1. s \in Allowed["RUNNING"]
  BY DEF Allowed, STATES, WAITING
<1> QED
  BY <1>1 DEF Moved, Reaches

LEMMA SuspensionLeavesRunning ==
    ASSUME NEW from \in STATES
    PROVE  Moved(from, "WAITING_FOR_USER") # "RUNNING"
<1>1. "WAITING_FOR_USER" \in Allowed["RUNNING"]
  BY DEF Allowed, STATES, WAITING
<1> QED
  BY <1>1 DEF Moved, Reaches

\* The handle an approval of the registry makes is of its task.
LEMMA RecordedIsHandle ==
    ASSUME TypeOK, NEW t \in Task
    PROVE  Recorded(t) \in Handle /\ Recorded(t).task = t /\ Recorded(t).at = payload[t].at
<1>1. payload[t] \in [record : Task, at : 0..MaxTime]
  BY DEF TypeOK
<1> QED
  BY <1>1 DEF Recorded, Handle

LEMMA HandleIsSomebody ==
    ASSUME NEW h \in Handle
    PROVE  h.task \in Task /\ h.record \in Task /\ h.at \in 0..MaxTime /\ h # Nobody
  BY SessionAssumption DEF Handle, Nobody

\* What a session without a handle takes an answer to be about is an approval
\* of the registry, and its task waits.
LEMMA RehydratedWaits ==
    ASSUME NEW shown \in SUBSET Task, NEW mine, NEW st
    PROVE  \/ Rehydrated(shown, mine, st) = Nobody
           \/ \E t \in shown : /\ Rehydrated(shown, mine, st) = Recorded(t)
                               /\ st[t] = "WAITING_FOR_APPROVAL"
<1> DEFINE c == Candidates(shown, mine)
<1>1. c \subseteq shown
  BY DEF Candidates
<1>2. CASE \E t \in c : c = {t} /\ st[t] = "WAITING_FOR_APPROVAL"
  <2>1. PICK t \in c : c = {t} /\ st[t] = "WAITING_FOR_APPROVAL"
    BY <1>2
  <2>2. (CHOOSE u \in c : TRUE) = t
    BY <2>1
  <2> QED
    BY <1>1, <1>2, <2>1, <2>2 DEF Rehydrated
<1>3. CASE ~ \E t \in c : c = {t} /\ st[t] = "WAITING_FOR_APPROVAL"
  BY <1>3 DEF Rehydrated
<1> QED
  BY <1>2, <1>3

-----------------------------------------------------------------------------
(* The inductive invariant.  A task has a state from the time its lane     *)
(* begins; only a task whose lane has asked, or ended, is answered, granted *)
(* and run again; a refused task has ended, with no handle and no answer   *)
(* left to it; and no handle of a task, wherever it got its date, is dated *)
(* later than the time its question was put.                               *)

Past == {"asking", "ending", "done"}

HasAsked(t) == lane[t] \in Past

LanesAreOfTasks == \A t \in Task : lane[t] = "none" <=> state[t] = "ABSENT"

AnsweredHasAsked ==
    /\ \A t \in approvals \cup rows \cup refused : HasAsked(t)
    /\ pending # Nobody => HasAsked(pending.task)
    /\ console # Idle => HasAsked(console.task)
    /\ \A b, t \in Task : queued[<<b, t>>] + running[<<b, t>>] > 0 => HasAsked(t)

RefusedIsOver ==
    /\ console.at = "cleared" => pending.task # console.task
    /\ \A t \in refused :
          state[t] \in TERMINAL /\ pending.task # t /\ console.task # t

\* A date of the registry is at most that of the question of its task, since a
\* lane registers before it puts the question, whosever date it takes.
Dated ==
    /\ \A t \in Task : payload[t].at <= now /\ payload[t].at <= born[t]
    /\ pending.at <= now
    /\ pending # Nobody => pending.at <= born[pending.task]
    /\ \A t \in Task : lane[t] # "done" => born[t] = Never

\* RefusedIsOver says more than that a refused task has ended: between the
\* clearing of the handle and the refusal nothing may have set it again.
Sound ==
    /\ LanesAreOfTasks /\ AnsweredHasAsked /\ RefusedIsOver
    /\ RunningIsServed /\ Dated

-----------------------------------------------------------------------------
(* Type correctness.                                                       *)

LEMMA RecoveredIsState ==
    ASSUME TypeOK, NEW t \in Task
    PROVE  Recovered(t) \in STATES \cup {"ABSENT"}
  BY DEF Recovered, TypeOK, STATES

\* A task keeps its end through a restart, and is not RUNNING after one.
LEMMA RecoveredKeepsEnd ==
    ASSUME NEW t \in Task
    PROVE  /\ state[t] \in TERMINAL => Recovered(t) = state[t]
           /\ Recovered(t) # "RUNNING"
  BY DEF Recovered, TERMINAL, RecoverableOnRestart

LEMMA StateNames ==
    /\ {"CREATED", "RUNNING", "WAITING_FOR_USER", "WAITING_FOR_APPROVAL",
        "COMPLETED", "FAILED", "CANCELLED"} \subseteq STATES
    /\ TERMINAL \subseteq STATES
    /\ "ABSENT" \notin STATES
    /\ "RUNNING" \notin TERMINAL /\ "WAITING_FOR_APPROVAL" \notin TERMINAL
    /\ "CREATED" \notin TERMINAL /\ "CANCELLED" \in TERMINAL
  BY DEF STATES, TERMINAL

\* A move, refused or not, leaves a state or the lack of one.
LEMMA MoveIsTyped ==
    ASSUME TypeOK, NEW t \in Task, NEW s \in STATES, Move(t, s)
    PROVE  state' \in [Task -> STATES \cup {"ABSENT"}]
  BY DEF Move, Moved, TypeOK

LEMMA OwnerIsHandle ==
    ASSUME TypeOK, Owner # Nobody
    PROVE  Owner \in Handle
<1>1. CASE pending # Nobody
  BY <1>1 DEF Owner, TypeOK
<1>2. CASE pending = Nobody
  BY <1>2, RehydratedWaits, RecordedIsHandle DEF Owner, TypeOK
<1> QED
  BY <1>1, <1>2

LEMMA TakeIsTyped ==
    ASSUME TypeOK, NEW h \in Handle, NEW yes \in BOOLEAN, Speaks, Take(h, yes)
    PROVE  TypeOK'
<1>1. answers' \in 0..MaxAnswers /\ restarts' = restarts
  BY SessionAssumption DEF Speaks, TypeOK
<1>2. pending' \in Handle \cup {Nobody}
  BY DEF Take
<1>3. console' \in Answer \cup {Idle}
  BY HandleIsSomebody DEF Take, TypeOK, Answer
<1> QED
  BY <1>1, <1>2, <1>3 DEF Take, TypeOK, registry, history

LEMMA LaneIsTyped ==
    ASSUME TypeOK, NEW t \in Task,
           \/ Submit(t) \/ StartRun(t) \/ Decline(t) \/ FinishRun(t) \/ BreakRun(t)
           \/ Suspend(t) \/ Ask(t) \/ Register(t) \/ EndRun(t)
    PROVE  TypeOK'
<1> USE DEF registry, session, history, counters
<1>1. CASE Submit(t)
  BY <1>1, StateNames DEF Submit, TypeOK, Lane
<1>2. CASE StartRun(t)
  BY <1>2, StateNames, MoveIsTyped DEF StartRun, TypeOK, Lane
<1>3. CASE Decline(t)
  BY <1>3, StateNames DEF Decline, Report, TypeOK, Lane
<1>4. CASE FinishRun(t)
  BY <1>4, StateNames, MoveIsTyped DEF FinishRun, Report, TypeOK, Lane
<1>5. CASE BreakRun(t)
  BY <1>5, StateNames, MoveIsTyped DEF BreakRun, Report, TypeOK, Lane
<1>6. CASE Suspend(t)
  BY <1>6, StateNames, MoveIsTyped DEF Suspend, TypeOK, Lane
<1>7. CASE Ask(t)
  <2>1. pending' \in Handle
    BY <1>7 DEF Ask, TypeOK, Handle
  <2> QED
    BY <1>7, <2>1 DEF Ask, TypeOK, Lane
<1>8. CASE Register(t)
  <2>1. payload' \in [Task -> [record : Task, at : 0..MaxTime]]
    <3>1. CASE MayBeAsked(state[t]) /\ pending # Nobody
      <4>1. pending.record \in Task /\ pending.at \in 0..MaxTime
        BY <3>1, HandleIsSomebody DEF TypeOK
      <4> QED
        BY <1>8, <3>1, <4>1 DEF Register, TypeOK
    <3>2. CASE ~ (MayBeAsked(state[t]) /\ pending # Nobody)
      BY <1>8, <3>2 DEF Register, TypeOK
    <3> QED
      BY <3>1, <3>2
  <2>2. lane' \in [Task -> Lane]
    BY <1>8 DEF Register, TypeOK, Lane
  <2>3. state' \in [Task -> STATES \cup {"ABSENT"}] /\ approvals' \subseteq Task /\ rows' \subseteq Task
    BY <1>8, StateNames DEF Register, TypeOK
  <2> QED
    BY <1>8, <2>1, <2>2, <2>3 DEF Register, TypeOK
<1>9. CASE EndRun(t)
  <2>1. born' \in [Task -> 0..Never]
    BY <1>9, SessionAssumption DEF EndRun, TypeOK, Never
  <2> QED
    BY <1>9, <2>1 DEF EndRun, Report, TypeOK, Lane
<1> QED
  BY <1>1, <1>2, <1>3, <1>4, <1>5, <1>6, <1>7, <1>8, <1>9

LEMMA ConsoleIsTyped ==
    ASSUME TypeOK,
           \/ \E t \in Task : Pick(t) \/ Resume(t) \/ Cancel(t)
           \/ \E yes \in BOOLEAN : BareAnswer(yes)
           \/ Clear \/ Grant \/ Reject
    PROVE  TypeOK'
<1> USE DEF registry, session, history, counters
<1>1. ASSUME NEW t \in Task, Pick(t)
      PROVE  TypeOK'
  BY <1>1, TakeIsTyped, RecordedIsHandle DEF Pick
<1>2. ASSUME NEW t \in Task, Resume(t)
      PROVE  TypeOK'
  BY <1>2, SessionAssumption, RecordedIsHandle DEF Resume, Speaks, TypeOK
<1>3. ASSUME NEW t \in Task, Cancel(t)
      PROVE  TypeOK'
  <2>1. answers' \in 0..MaxAnswers /\ restarts' = restarts
    BY <1>3, SessionAssumption DEF Cancel, Speaks, TypeOK
  <2> QED
    BY <1>3, <2>1, StateNames, MoveIsTyped DEF Cancel, Drop, TypeOK
<1>4. ASSUME NEW yes \in BOOLEAN, BareAnswer(yes)
      PROVE  TypeOK'
  BY <1>4, OwnerIsHandle, TakeIsTyped DEF BareAnswer
<1>5. CASE Clear
  <2>1. console \in Answer
    BY <1>5 DEF Clear, TypeOK, Idle
  <2>2. console' = [console EXCEPT !.at = "cleared"]
    BY <1>5 DEF Clear
  <2>3. console' \in Answer
    BY <2>1, <2>2 DEF Answer
  <2> QED
    BY <1>5, <2>3 DEF Clear, TypeOK
<1>6. CASE Grant
  <2>1. console.task \in Task /\ console.record \in Task
    BY <1>6 DEF Grant, TypeOK, Answer, Idle
  <2>2. queued' \in [Task \X Task -> Nat]
    BY <1>6, <2>1 DEF Grant, TypeOK
  <2> QED
    BY <1>6, <2>1, <2>2, StateNames, MoveIsTyped DEF Grant, Settle, TypeOK
<1>7. CASE Reject
  <2>1. console.task \in Task /\ console.record \in Task
    BY <1>7 DEF Reject, TypeOK, Answer, Idle
  <2> QED
    BY <1>7, <2>1, StateNames, MoveIsTyped DEF Reject, Settle, TypeOK
<1> QED
  BY <1>1, <1>2, <1>3, <1>4, <1>5, <1>6, <1>7

LEMMA ActionIsTyped ==
    ASSUME TypeOK, NEW b \in Task, NEW t \in Task,
           Begin(b, t) \/ Perform(b, t) \/ Break(b, t)
    PROVE  TypeOK'
<1> USE DEF registry, session, history, counters
<1>1. CASE Begin(b, t)
  <2>1. state' \in [Task -> STATES \cup {"ABSENT"}]
    BY <1>1, StateNames, MoveIsTyped DEF Begin, TypeOK
  <2>2. queued' \in [Task \X Task -> Nat]
    <3>1. queued \in [Task \X Task -> Nat] /\ <<b, t>> \in Task \X Task
      BY DEF TypeOK
    <3>2. queued[<<b, t>>] > 0 /\ queued' = [queued EXCEPT ![<<b, t>>] = queued[<<b, t>>] - 1]
      BY <1>1 DEF Begin
    <3>3. queued[<<b, t>>] - 1 \in Nat
      BY <3>1, <3>2
    <3> QED
      BY <3>1, <3>2, <3>3
  <2>3. running' \in [Task \X Task -> Nat]
    <3>1. running' = running \/ running' = [running EXCEPT ![<<b, t>>] = @ + 1]
      BY <1>1 DEF Begin
    <3> QED
      BY <3>1 DEF TypeOK
  <2> QED
    BY <1>1, <2>1, <2>2, <2>3 DEF Begin, TypeOK
<1>2. ASSUME Ends(b, t)
      PROVE  running' \in [Task \X Task -> Nat]
  BY <1>2 DEF Ends, TypeOK
<1>3. CASE Perform(b, t)
  <2>1. state' \in [Task -> STATES \cup {"ABSENT"}]
    BY <1>3, StateNames, MoveIsTyped DEF Perform, TypeOK
  <2> QED
    BY <1>2, <1>3, <2>1 DEF Perform, Ends, Report, TypeOK
<1>4. CASE Break(b, t)
  <2>1. state' \in [Task -> STATES \cup {"ABSENT"}]
    BY <1>4, StateNames, MoveIsTyped DEF Break, TypeOK
  <2> QED
    BY <1>2, <1>4, <2>1 DEF Break, Ends, TypeOK
<1> QED
  BY <1>1, <1>3, <1>4

LEMMA TypeIsInductive == TypeOK /\ [Next]_vars => TypeOK'
<1> SUFFICES ASSUME TypeOK, [Next]_vars
             PROVE  TypeOK'
  OBVIOUS
<1>1. CASE UNCHANGED vars
  BY <1>1 DEF vars, registry, session, history, counters, TypeOK
<1>2. CASE Tick
  BY <1>2, SessionAssumption DEF Tick, registry, session, history, counters, TypeOK
<1>3. CASE Restart
  <2>1. state' \in [Task -> STATES \cup {"ABSENT"}]
    BY <1>3, RecoveredIsState DEF Restart
  <2>2. pending' \in Handle \cup {Nobody}
    BY <1>3, RehydratedWaits, RecordedIsHandle DEF Restart, TypeOK
  <2>3. restarts' \in 0..MaxRestarts
    BY <1>3, SessionAssumption DEF Restart, TypeOK
  <2> QED
    BY <1>3, <2>1, <2>2, <2>3 DEF Restart, TypeOK, Lane
<1> QED
  BY <1>1, <1>2, <1>3, LaneIsTyped, ConsoleIsTyped, ActionIsTyped DEF Next

LEMMA TypeInit == Init => TypeOK
  BY SessionAssumption DEF Init, TypeOK, Lane, Never

\* Every variable of the session has its type.
THEOREM Typing == Spec => []TypeOK
  BY TypeInit, TypeIsInductive, PTL DEF Spec

-----------------------------------------------------------------------------
(* The invariant is inductive.                                             *)

LEMMA SoundInit == Init => Sound
<1> SUFFICES ASSUME Init PROVE Sound
  OBVIOUS
<1>1. LanesAreOfTasks /\ RefusedIsOver /\ RunningIsServed
  BY SessionAssumption DEF Init, LanesAreOfTasks, RefusedIsOver, RunningIsServed, Idle
<1>2. AnsweredHasAsked
  BY SessionAssumption DEF Init, AnsweredHasAsked
<1>3. Dated
  BY SessionAssumption DEF Init, Dated, Never, Nobody
<1> QED
  BY <1>1, <1>2, <1>3 DEF Sound

\* A step that takes no answer, gives no work and takes none leaves the
\* counts of an action's work alone.
Quiet == UNCHANGED <<queued, running, console, refused>>

\* The lane of a task that was not done: what waits for it, and what was
\* refused, are of tasks that were asked about.
LEMMA LaneStepIsSound ==
    ASSUME TypeOK, Sound, NEW t \in Task,
           \/ Submit(t) \/ StartRun(t) \/ Decline(t) \/ FinishRun(t) \/ BreakRun(t)
           \/ Suspend(t) \/ Ask(t) \/ Register(t) \/ EndRun(t)
    PROVE  Sound'
<1> USE DEF registry, session, history, counters
<1>1. Quiet
  BY DEF Quiet, Submit, StartRun, Decline, FinishRun, BreakRun, Suspend, Ask, Register, EndRun
<1>2. lane' = [lane EXCEPT ![t] = lane'[t]] /\ (HasAsked(t) => lane'[t] \in Past)
  BY DEF TypeOK, HasAsked, Past, Submit, StartRun, Decline, FinishRun, BreakRun, Suspend, Ask,
     Register, EndRun
<1>3. \A u \in Task : HasAsked(u) => HasAsked(u)'
  BY <1>2 DEF TypeOK, HasAsked
<1>4. /\ state' = [state EXCEPT ![t] = state'[t]]
      /\ state[t] \in TERMINAL => state'[t] = state[t]
      /\ (state'[t] = "ABSENT" <=> lane'[t] = "none")
  <2>1. CASE Submit(t)
    BY <2>1, StateNames DEF Submit, TypeOK
  <2>2. CASE StartRun(t) \/ Suspend(t)
    BY <2>2, StateNames, MovedIsState, MovedFromEnd
       DEF StartRun, Suspend, Move, TypeOK, Sound, LanesAreOfTasks
  <2>3. CASE Decline(t)
    BY <2>3, StateNames DEF Decline, TypeOK, Sound, LanesAreOfTasks
  <2>4. CASE FinishRun(t) \/ BreakRun(t)
    BY <2>4, StateNames, MovedIsState, MovedFromEnd
       DEF FinishRun, BreakRun, Move, TypeOK, Sound, LanesAreOfTasks
  <2>5. CASE Ask(t) \/ EndRun(t)
    BY <2>5 DEF Ask, EndRun, TypeOK, Sound, LanesAreOfTasks
  <2>6. CASE Register(t)
    BY <2>6, StateNames, TerminalIsFinal
       DEF Register, MayBeAsked, Reaches, TypeOK, Sound, LanesAreOfTasks
  <2> QED
    BY <2>1, <2>2, <2>3, <2>4, <2>5, <2>6
<1>5. \/ pending' = pending /\ UNCHANGED now
      \/ pending' = [task |-> t, record |-> t, at |-> now] /\ ~ HasAsked(t) /\ HasAsked(t)'
         /\ lane'[t] # "done" /\ UNCHANGED <<now, born, payload>>
  <2>1. CASE Ask(t)
    BY <2>1 DEF Ask, HasAsked, Past, TypeOK
  <2>2. CASE UNCHANGED <<pending, now>>
    BY <2>2
  <2> QED
    BY <2>1, <2>2 DEF Submit, StartRun, Decline, FinishRun, BreakRun, Suspend, Register, EndRun
<1>6. LanesAreOfTasks'
  BY <1>2, <1>4 DEF Sound, LanesAreOfTasks, TypeOK
<1>7. AnsweredHasAsked'
  <2>1. approvals' \cup rows' \subseteq approvals \cup rows \cup {t}
    BY DEF Submit, StartRun, Decline, FinishRun, BreakRun, Suspend, Ask, Register, EndRun
  <2>2. approvals' \cup rows' \subseteq approvals \cup rows \/ HasAsked(t)'
    <3>1. CASE Register(t)
      BY <3>1 DEF Register, HasAsked, Past, TypeOK
    <3>2. CASE UNCHANGED <<approvals, rows>>
      BY <3>2
    <3> QED
      BY <3>1, <3>2 DEF Submit, StartRun, Decline, FinishRun, BreakRun, Suspend, Ask, EndRun
  <2>3. \A u \in approvals' \cup rows' \cup refused' : HasAsked(u)'
    BY <1>1, <1>3, <2>1, <2>2 DEF Quiet, TypeOK, Sound, AnsweredHasAsked
  <2>4. (pending # Nobody => HasAsked(pending.task))'
    <3>1. CASE pending' = pending
      <4>1. pending # Nobody => pending.task \in Task /\ HasAsked(pending.task)
        BY HandleIsSomebody DEF TypeOK, Sound, AnsweredHasAsked
      <4> QED
        BY <1>3, <3>1, <4>1 DEF HasAsked
    <3>2. CASE pending'.task = t /\ HasAsked(t)'
      BY <3>2 DEF HasAsked
    <3> QED
      BY <1>5, <3>1, <3>2
  <2>5. (console # Idle => HasAsked(console.task))'
    <3>1. console # Idle => console.task \in Task /\ HasAsked(console.task)
      BY DEF TypeOK, Answer, Sound, AnsweredHasAsked
    <3> QED
      BY <1>1, <1>3, <3>1 DEF Quiet, HasAsked
  <2>6. \A b, u \in Task : queued'[<<b, u>>] + running'[<<b, u>>] > 0 => HasAsked(u)'
    BY <1>1, <1>3 DEF Quiet, Sound, AnsweredHasAsked
  <2> QED
    BY <2>3, <2>4, <2>5, <2>6 DEF AnsweredHasAsked
<1>8. RefusedIsOver'
  <2>1. ASSUME ~ HasAsked(t)
        PROVE  t \notin refused /\ (console # Idle => console.task # t)
    BY <2>1 DEF Sound, AnsweredHasAsked
  <2>2. console.at = "cleared" => pending'.task # console.task
    BY <1>5, <2>1 DEF Sound, RefusedIsOver, Idle
  <2>3. \A u \in refused : pending'.task # u
    BY <1>5, <2>1 DEF Sound, RefusedIsOver
  <2>4. \A u \in refused : state'[u] \in TERMINAL
    BY <1>4 DEF TypeOK, Sound, RefusedIsOver
  <2> QED
    BY <1>1, <2>2, <2>3, <2>4 DEF Quiet, Sound, RefusedIsOver
<1>9. RunningIsServed'
  <2>1. state'[t] # "RUNNING" \/ lane'[t] = "running" \/ left'[t] # "ended"
        \/ (state[t] = "RUNNING" /\ lane[t] # "running" /\ left'[t] = left[t])
    <3>1. CASE FinishRun(t)
      BY <3>1, StateNames, VerdictLeavesRunning DEF FinishRun, Move, TypeOK, Sound, LanesAreOfTasks
    <3>2. CASE BreakRun(t)
      BY <3>2, StateNames, VerdictLeavesRunning DEF BreakRun, Move, TypeOK, Sound, LanesAreOfTasks
    <3>3. CASE Suspend(t)
      BY <3>3, StateNames, SuspensionLeavesRunning DEF Suspend, Move, TypeOK, Sound, LanesAreOfTasks
    <3>4. CASE Decline(t)
      BY <3>4 DEF Decline, TypeOK
    <3>5. CASE StartRun(t) \/ Submit(t)
      BY <3>5 DEF StartRun, Submit, TypeOK
    <3>6. CASE Ask(t) \/ EndRun(t)
      BY <3>6 DEF Ask, EndRun
    <3>7. CASE Register(t)
      BY <3>7 DEF Register, TypeOK
    <3> QED
      BY <3>1, <3>2, <3>3, <3>4, <3>5, <3>6, <3>7
  <2>2. \A u \in Task \ {t} : left'[u] = left[u] /\ lane'[u] = lane[u] /\ state'[u] = state[u]
    BY <1>2, <1>4 DEF TypeOK, Submit, StartRun, Decline, FinishRun, BreakRun, Suspend, Ask,
       Register, EndRun
  <2>3. ASSUME NEW u \in Task, u # t, state'[u] = "RUNNING"
        PROVE  Served(u)' \/ left'[u] # "ended"
    BY <1>1, <2>2, <2>3 DEF Quiet, Sound, RunningIsServed, Served
  <2>4. ASSUME state'[t] = "RUNNING"
        PROVE  Served(t)' \/ left'[t] # "ended"
    BY <1>1, <2>1, <2>4 DEF Quiet, Sound, RunningIsServed, Served
  <2> QED
    BY <2>3, <2>4 DEF RunningIsServed
<1>10. Dated'
  <2>1. CASE Register(t)
    <3>1. \/ UNCHANGED payload
          \/ /\ pending # Nobody
             /\ payload' = [payload EXCEPT ![t] = [record |-> pending.record, at |-> pending.at]]
      BY <2>1 DEF Register
    <3>2. \A u \in Task : payload'[u] = payload[u]
             \/ (u = t /\ pending # Nobody /\ payload'[u].at = pending.at)
      BY <3>1 DEF TypeOK
    <3>3. born[t] = Never /\ now <= Never /\ pending.at <= now
      BY <2>1, SessionAssumption DEF Register, TypeOK, Sound, Dated, Never
    <3>4. pending.at <= born[t]
      BY <3>3, SessionAssumption, HandleIsSomebody DEF TypeOK, Nobody, Never
    <3>5. \A u \in Task : payload'[u].at <= now /\ payload'[u].at <= born[u]
      BY <3>2, <3>3, <3>4 DEF Sound, Dated
    <3>6. UNCHANGED <<now, born, pending>> /\ \A u \in Task : lane'[u] # "done" => lane[u] # "done"
      BY <2>1 DEF Register, TypeOK
    <3> QED
      BY <3>5, <3>6 DEF Sound, Dated
  <2>2. CASE EndRun(t)
    <3>1. /\ UNCHANGED <<now, payload, pending>>
          /\ \A u \in Task : u # t => born'[u] = born[u] /\ lane'[u] = lane[u]
          /\ born'[t] = now /\ lane'[t] = "done"
      BY <2>2 DEF EndRun, TypeOK
    <3>2. pending # Nobody => pending.task \in Task
      BY HandleIsSomebody DEF TypeOK
    <3> QED
      BY <3>1, <3>2 DEF Sound, Dated
  <2>3. CASE Ask(t)
    <3>1. /\ UNCHANGED <<now, payload, born>> /\ born[t] = Never
          /\ \A u \in Task : lane'[u] # "done" => lane[u] # "done"
      BY <2>3 DEF Ask, Sound, Dated, TypeOK
    <3>2. pending'.at = now /\ pending'.task = t /\ now \in Nat /\ now <= Never
      BY <2>3, SessionAssumption DEF Ask, TypeOK, Never
    <3> QED
      BY <3>1, <3>2 DEF Sound, Dated
  <2>4. CASE UNCHANGED <<now, payload, born, pending>>
             /\ \A u \in Task : lane'[u] # "done" => lane[u] # "done"
    BY <2>4 DEF Sound, Dated
  <2>5. ASSUME Submit(t) \/ StartRun(t) \/ Decline(t) \/ FinishRun(t) \/ BreakRun(t) \/ Suspend(t)
        PROVE  UNCHANGED <<now, payload, born, pending>>
               /\ \A u \in Task : lane'[u] # "done" => lane[u] # "done"
    BY <2>5 DEF TypeOK, Submit, StartRun, Decline, FinishRun, BreakRun, Suspend
  <2> QED
    BY <2>1, <2>2, <2>3, <2>4, <2>5
<1> QED
  BY <1>6, <1>7, <1>8, <1>9, <1>10 DEF Sound

\* A handle whose question was asked, of a task not refused, and no later than
\* its question: what an answer is taken for.
Answerable(h) ==
    /\ h \in Handle /\ HasAsked(h.task) /\ h.task \notin refused
    /\ h.at <= now /\ h.at <= born[h.task]

LEMMA RecordedIsAnswerable ==
    ASSUME TypeOK, Sound, NEW t \in approvals, state[t] = "WAITING_FOR_APPROVAL"
    PROVE  Answerable(Recorded(t))
<1>1. t \in Task /\ HasAsked(t) /\ t \notin refused
  BY StateNames DEF TypeOK, Sound, AnsweredHasAsked, RefusedIsOver
<1>2. payload[t].at <= now /\ payload[t].at <= born[t]
  BY <1>1 DEF Sound, Dated
<1> QED
  BY <1>1, <1>2, RecordedIsHandle DEF Answerable

LEMMA OwnerIsAnswerable ==
    ASSUME TypeOK, Sound, Owner # Nobody
    PROVE  Answerable(Owner)
<1>1. CASE pending # Nobody
  <2>1. Owner = pending /\ pending \in Handle
    BY <1>1 DEF Owner, TypeOK
  <2>2. HasAsked(pending.task) /\ pending.task \notin refused
    BY <1>1 DEF Sound, AnsweredHasAsked, RefusedIsOver
  <2>3. pending.at <= now /\ pending.at <= born[pending.task]
    BY <1>1 DEF Sound, Dated
  <2> QED
    BY <2>1, <2>2, <2>3 DEF Answerable
<1>2. CASE pending = Nobody
  <2>1. PICK t \in approvals : Owner = Recorded(t) /\ state[t] = "WAITING_FOR_APPROVAL"
    BY <1>2, RehydratedWaits DEF Owner, TypeOK
  <2> QED
    BY <2>1, RecordedIsAnswerable
<1> QED
  BY <1>1, <1>2

\* Putting a handle in its place again, by an answer or a resume, is sound.
LEMMA HandleIsSound ==
    ASSUME TypeOK, Sound, NEW h \in Handle \cup {Nobody}, console = Idle,
           h # Nobody => Answerable(h), pending' = h,
           console' = Idle \/ (console'.at = "taken" /\ console'.task = h.task
                               /\ h # Nobody /\ console' # Idle),
           UNCHANGED <<registry, now, cancelled, lane, queued, running, history>>
    PROVE  Sound'
<1> USE DEF registry, history
<1>1. LanesAreOfTasks' /\ RunningIsServed'
  BY DEF Sound, LanesAreOfTasks, RunningIsServed, Served
<1>2. AnsweredHasAsked'
  <2>1. (pending # Nobody => HasAsked(pending.task))'
    BY DEF Answerable, HasAsked
  <2>2. (console # Idle => HasAsked(console.task))'
    BY DEF Answerable, HasAsked
  <2>3. /\ \A t \in approvals' \cup rows' \cup refused' : HasAsked(t)'
        /\ \A b, t \in Task : queued'[<<b, t>>] + running'[<<b, t>>] > 0 => HasAsked(t)'
    BY DEF Sound, AnsweredHasAsked, HasAsked
  <2> QED
    BY <2>1, <2>2, <2>3 DEF AnsweredHasAsked
<1>3. RefusedIsOver'
  <2>1. console'.at # "cleared"
    BY DEF Idle
  <2>2. ASSUME NEW t \in refused
        PROVE  state[t] \in TERMINAL /\ h.task # t /\ console'.task # t
    BY SessionAssumption DEF TypeOK, Sound, RefusedIsOver, Answerable, Nobody, Idle
  <2> QED
    BY <2>1, <2>2 DEF RefusedIsOver
<1>4. Dated'
  BY SessionAssumption DEF Sound, Dated, Answerable, Nobody, TypeOK
<1> QED
  BY <1>1, <1>2, <1>3, <1>4 DEF Sound

LEMMA TakeIsSound ==
    ASSUME TypeOK, Sound, NEW h, NEW yes \in BOOLEAN, console = Idle,
           Answerable(h), Take(h, yes)
    PROVE  Sound'
<1>1. h \in Handle /\ h # Nobody
  BY HandleIsSomebody DEF Answerable
<1>2. CASE Expired(h)
  <2>1. pending' = Nobody /\ console' = Idle
    BY <1>2 DEF Take
  <2> QED
    BY <2>1, HandleIsSound DEF Take
<1>3. CASE ~ Expired(h)
  <2>1. /\ pending' = h
        /\ console' = [at |-> "taken", task |-> h.task, record |-> h.record, yes |-> yes]
    BY <1>3 DEF Take
  <2>2. console'.at = "taken" /\ console'.task = h.task /\ console' # Idle
    BY <2>1 DEF Idle
  <2> QED
    BY <1>1, <2>1, <2>2, HandleIsSound DEF Take
<1> QED
  BY <1>2, <1>3

\* A state of u changes, and approvals are dropped; nothing else that the
\* invariant reads does, but the work given for u, which was asked about.
LEMMA SettledIsSound ==
    ASSUME TypeOK, Sound, NEW u \in Task, NEW s \in {"RUNNING", "CANCELLED"},
           state[u] \in STATES, Move(u, s), HasAsked(u),
           approvals' \subseteq approvals, rows' \subseteq rows,
           UNCHANGED <<payload, now, pending, lane, running, born, left>>,
           \A b, t \in Task : queued'[<<b, t>>] >= queued[<<b, t>>]
                              /\ (queued'[<<b, t>>] > queued[<<b, t>>] => t = u),
           queued' \in [Task \X Task -> Nat],
           s = "RUNNING" => \E b \in Task : queued'[<<b, u>>] > 0,
           console' = console \/ console' = Idle,
           \/ refused' = refused
           \/ refused' = refused \cup {u} /\ s = "CANCELLED" /\ pending.task # u
              /\ console' = Idle
    PROVE  Sound'
<1>1. /\ state' = [state EXCEPT ![u] = Moved(state[u], s)]
      /\ Moved(state[u], s) \in STATES
      /\ state[u] \in TERMINAL => Moved(state[u], s) = state[u]
      /\ s = "CANCELLED" => Moved(state[u], s) \in TERMINAL
  BY StateNames, MovedIsState, MovedFromEnd, CancellationEnds DEF Move
<1>2. LanesAreOfTasks'
  BY <1>1, StateNames DEF Sound, LanesAreOfTasks, TypeOK
<1>3. AnsweredHasAsked'
  <2>1. \A t \in approvals' \cup rows' \cup refused' : HasAsked(t)'
    BY DEF Sound, AnsweredHasAsked, HasAsked
  <2>2. (pending # Nobody => HasAsked(pending.task))'
    BY DEF Sound, AnsweredHasAsked, HasAsked
  <2>3. (console # Idle => HasAsked(console.task))'
    BY DEF Sound, AnsweredHasAsked, HasAsked
  <2>4. ASSUME NEW b \in Task, NEW t \in Task, queued'[<<b, t>>] + running'[<<b, t>>] > 0
        PROVE  HasAsked(t)'
    <3>1. queued[<<b, t>>] \in Nat /\ queued'[<<b, t>>] \in Nat /\ running[<<b, t>>] \in Nat
      BY DEF TypeOK
    <3>2. queued[<<b, t>>] + running[<<b, t>>] > 0 \/ t = u
      BY <2>4, <3>1
    <3> QED
      BY <3>2 DEF Sound, AnsweredHasAsked, HasAsked
  <2> QED
    BY <2>1, <2>2, <2>3, <2>4 DEF AnsweredHasAsked
<1>4. RefusedIsOver'
  <2>1. console'.at = "cleared" => pending'.task # console'.task
    BY DEF Sound, RefusedIsOver, Idle
  <2>2. ASSUME NEW t \in refused
        PROVE  state'[t] \in TERMINAL /\ pending'.task # t /\ console'.task # t
    <3>1. t \in Task /\ state[t] \in TERMINAL /\ pending.task # t /\ console.task # t
      BY DEF TypeOK, Sound, RefusedIsOver
    <3> QED
      BY <1>1, <3>1, SessionAssumption DEF TypeOK, Idle
  <2>3. ASSUME refused' # refused
        PROVE  state'[u] \in TERMINAL /\ pending'.task # u /\ console'.task # u
    BY <1>1, <2>3, SessionAssumption DEF TypeOK, Idle
  <2> QED
    BY <2>1, <2>2, <2>3 DEF RefusedIsOver
<1>5. RunningIsServed'
  <2>1. ASSUME NEW t \in Task, t # u, state'[t] = "RUNNING"
        PROVE  Served(t)' \/ left'[t] # "ended"
    <3>1. state[t] = "RUNNING"
      BY <1>1, <2>1 DEF TypeOK
    <3>2. Served(t) \/ left[t] # "ended"
      BY <3>1 DEF Sound, RunningIsServed
    <3>3. \A b \in Task : /\ queued[<<b, t>>] \in Nat /\ queued'[<<b, t>>] \in Nat
                          /\ running[<<b, t>>] \in Nat
                          /\ queued'[<<b, t>>] >= queued[<<b, t>>]
      BY DEF TypeOK
    <3> QED
      BY <3>2, <3>3 DEF Served
  <2>2. CASE s = "RUNNING"
    <3>1. PICK b \in Task : queued'[<<b, u>>] > 0
      BY <2>2
    <3>2. queued'[<<b, u>>] + running'[<<b, u>>] > 0
      BY <3>1 DEF TypeOK
    <3>3. Served(u)'
      BY <3>2 DEF Served
    <3> QED
      BY <2>1, <3>3 DEF RunningIsServed
  <2>3. CASE s = "CANCELLED"
    <3>1. state'[u] # "RUNNING"
      BY <1>1, <2>3, StateNames DEF TypeOK
    <3> QED
      BY <2>1, <3>1 DEF RunningIsServed
  <2> QED
    BY <2>2, <2>3
<1>6. Dated'
  BY DEF Sound, Dated
<1> QED
  BY <1>2, <1>3, <1>4, <1>5, <1>6 DEF Sound

LEMMA ConsoleStepIsSound ==
    ASSUME TypeOK, Sound,
           \/ \E t \in Task : Pick(t) \/ Resume(t) \/ Cancel(t)
           \/ \E yes \in BOOLEAN : BareAnswer(yes)
           \/ Clear \/ Grant \/ Reject
    PROVE  Sound'
<1> USE DEF registry, session, history, counters
<1>1. ASSUME NEW t \in Task, Pick(t)
      PROVE  Sound'
  <2>1. t \in approvals /\ state[t] = "WAITING_FOR_APPROVAL"
    BY <1>1 DEF Pick, Candidates
  <2> QED
    BY <1>1, <2>1, RecordedIsAnswerable, TakeIsSound DEF Pick, Speaks
<1>2. ASSUME NEW t \in Task, Resume(t)
      PROVE  Sound'
  <2>1. Answerable(Recorded(t)) /\ Recorded(t) \in Handle
    BY <1>2, RecordedIsAnswerable, RecordedIsHandle DEF Resume
  <2> QED
    BY <1>2, <2>1, HandleIsSound DEF Resume, Speaks
<1>3. ASSUME NEW t \in Task, Cancel(t)
      PROVE  Sound'
  <2>1. state[t] \in STATES /\ state[t] \notin TERMINAL
    BY <1>3 DEF Cancel, TypeOK
  <2>2. t \notin refused
    BY <2>1 DEF Sound, RefusedIsOver
  <2>3. /\ state' = [state EXCEPT ![t] = Moved(state[t], "CANCELLED")]
        /\ Moved(state[t], "CANCELLED") \in TERMINAL
    BY <1>3, <2>1, CancellationEnds DEF Cancel, Move
  <2>4. LanesAreOfTasks'
    BY <1>3, <2>1, <2>3, StateNames DEF Cancel, Sound, LanesAreOfTasks, TypeOK
  <2>5. AnsweredHasAsked'
    <3>1. approvals' \subseteq approvals /\ rows' \subseteq rows
      BY <1>3 DEF Cancel, Drop
    <3> QED
      BY <1>3, <3>1 DEF Cancel, Sound, AnsweredHasAsked, HasAsked
  <2>6. RefusedIsOver'
    BY <1>3, <2>3 DEF Cancel, Sound, RefusedIsOver, TypeOK
  <2>7. RunningIsServed'
    BY <1>3, <2>3, StateNames DEF Cancel, Sound, RunningIsServed, Served, TypeOK
  <2>8. Dated'
    BY <1>3 DEF Cancel, Sound, Dated
  <2> QED
    BY <2>4, <2>5, <2>6, <2>7, <2>8 DEF Sound
<1>4. ASSUME NEW yes \in BOOLEAN, BareAnswer(yes)
      PROVE  Sound'
  BY <1>4, OwnerIsAnswerable, TakeIsSound DEF BareAnswer, Speaks
<1>5. CASE Clear
  <2>1. /\ console \in Answer /\ console' \in Answer /\ console'.task = console.task
        /\ console.task \in Task
    <3>1. console \in Answer /\ console' = [console EXCEPT !.at = "cleared"]
      BY <1>5 DEF Clear, TypeOK, Idle
    <3> QED
      BY <3>1 DEF Answer
  <2>2. console # Idle /\ HasAsked(console.task) /\ pending' = Nobody
    BY <1>5 DEF Clear, Idle, Sound, AnsweredHasAsked
  <2>3. LanesAreOfTasks' /\ RunningIsServed'
    BY <1>5 DEF Clear, Sound, LanesAreOfTasks, RunningIsServed, Served
  <2>4. AnsweredHasAsked'
    BY <1>5, <2>1, <2>2 DEF Clear, Sound, AnsweredHasAsked, HasAsked
  <2>5. RefusedIsOver'
    BY <1>5, <2>1, <2>2, SessionAssumption DEF Clear, Sound, RefusedIsOver, Nobody, TypeOK
  <2>6. Dated'
    BY <1>5, <2>2 DEF Clear, Sound, Dated, Nobody, TypeOK
  <2> QED
    BY <2>3, <2>4, <2>5, <2>6 DEF Sound
<1>6. CASE Grant
  <2> DEFINE u == console.task
             b == console.record
  <2>1. u \in Task /\ b \in Task /\ console # Idle
    BY <1>6 DEF Grant, TypeOK, Answer, Idle
  <2>2. HasAsked(u)
    BY <2>1 DEF Sound, AnsweredHasAsked
  <2>3. state[u] \in STATES
    BY <2>1, <2>2 DEF HasAsked, Past, TypeOK, Sound, LanesAreOfTasks
  <2>4. queued' = [queued EXCEPT ![<<b, u>>] = queued[<<b, u>>] + 1]
    BY <1>6 DEF Grant
  <2>5. queued' \in [Task \X Task -> Nat] /\ queued'[<<b, u>>] > 0
    BY <2>1, <2>4 DEF TypeOK
  <2>6. \A c, t \in Task : /\ queued'[<<c, t>>] >= queued[<<c, t>>]
                           /\ (queued'[<<c, t>>] > queued[<<c, t>>] => t = u)
    <3>1. queued \in [Task \X Task -> Nat]
      BY DEF TypeOK
    <3> TAKE c, t \in Task
    <3>2. CASE c = b /\ t = u
      <4>1. queued'[<<c, t>>] = queued[<<c, t>>] + 1 /\ queued[<<c, t>>] \in Nat
        BY <2>4, <3>1, <3>2
      <4> QED
        BY <3>2, <4>1
    <3>3. CASE ~ (c = b /\ t = u)
      <4>1. <<c, t>> # <<b, u>>
        BY <3>3
      <4>2. queued'[<<c, t>>] = queued[<<c, t>>] /\ queued[<<c, t>>] \in Nat
        BY <2>4, <3>1, <4>1
      <4> QED
        BY <4>2
    <3> QED
      BY <3>2, <3>3
  <2>7. /\ Move(u, "RUNNING") /\ approvals' \subseteq approvals /\ rows' \subseteq rows
        /\ UNCHANGED <<payload, now, pending, lane, running, born, left, refused>>
        /\ console' = Idle
    BY <1>6 DEF Grant, Settle
  <2>8. \E c \in Task : queued'[<<c, u>>] > 0
    BY <2>1, <2>5
  <2> HIDE DEF u, b
  <2> QED
    BY <2>1, <2>2, <2>3, <2>5, <2>6, <2>7, <2>8, SettledIsSound
<1>7. CASE Reject
  <2> DEFINE u == console.task
  <2>1. u \in Task /\ console # Idle /\ pending.task # u
    BY <1>7 DEF Reject, TypeOK, Answer, Idle, Sound, RefusedIsOver
  <2>2. HasAsked(u)
    BY <2>1 DEF Sound, AnsweredHasAsked
  <2>3. state[u] \in STATES
    BY <2>1, <2>2 DEF HasAsked, Past, TypeOK, Sound, LanesAreOfTasks
  <2>4. queued' \in [Task \X Task -> Nat]
        /\ \A c, t \in Task : /\ queued'[<<c, t>>] >= queued[<<c, t>>]
                              /\ (queued'[<<c, t>>] > queued[<<c, t>>] => t = u)
    BY <1>7 DEF Reject, TypeOK
  <2>5. /\ Move(u, "CANCELLED") /\ approvals' \subseteq approvals /\ rows' \subseteq rows
        /\ UNCHANGED <<payload, now, pending, lane, running, born, left>>
        /\ console' = Idle /\ refused' = refused \cup {u}
    BY <1>7 DEF Reject, Settle
  <2> HIDE DEF u
  <2> QED
    BY <2>1, <2>2, <2>3, <2>4, <2>5, SettledIsSound
<1> QED
  BY <1>1, <1>2, <1>3, <1>4, <1>5, <1>6, <1>7

\* A lane of an approved action takes its work, or ends it: work is of tasks
\* that were asked about, and only the state of t and how it was left change.
LEMMA ActionStepIsSound ==
    ASSUME TypeOK, Sound, NEW b \in Task, NEW t \in Task,
           Begin(b, t) \/ Perform(b, t) \/ Break(b, t)
    PROVE  Sound'
<1> DEFINE w == <<b, t>>
<1>1. /\ UNCHANGED <<approvals, rows, payload, own, now, pending, lane, console,
                     born, granted, refused, counters>>
      /\ \/ queued[w] > 0 /\ queued' = [queued EXCEPT ![w] = @ - 1]
         \/ running[w] > 0 /\ queued' = queued
  BY DEF Begin, Perform, Break, Ends
<1>2. queued[w] \in Nat /\ running[w] \in Nat /\ w \in Task \X Task
  BY DEF TypeOK
<1>3. HasAsked(t)
  <2>1. queued[w] + running[w] > 0
    BY <1>1, <1>2
  <2> QED
    BY <2>1 DEF Sound, AnsweredHasAsked
<1>4. state[t] \in STATES
  BY <1>3 DEF HasAsked, Past, TypeOK, Sound, LanesAreOfTasks
<1>5. /\ state' = [state EXCEPT ![t] = state'[t]] /\ state'[t] \in STATES
      /\ state[t] \in TERMINAL => state'[t] = state[t]
  <2>1. \/ UNCHANGED state
        \/ \E s \in {"RUNNING", "COMPLETED", "FAILED"} : Move(t, s)
    BY DEF Begin, Perform, Break
  <2>2. CASE UNCHANGED state
    BY <1>4, <2>2 DEF TypeOK
  <2>3. ASSUME NEW s \in {"RUNNING", "COMPLETED", "FAILED"}, Move(t, s)
        PROVE  /\ state' = [state EXCEPT ![t] = state'[t]] /\ state'[t] \in STATES
               /\ state[t] \in TERMINAL => state'[t] = state[t]
    BY <1>4, <2>3, StateNames, MovedIsState, MovedFromEnd DEF Move, TypeOK
  <2> QED
    BY <2>1, <2>2, <2>3
<1>6. \A c, u \in Task : <<c, u>> # w =>
         queued'[<<c, u>>] = queued[<<c, u>>] /\ running'[<<c, u>>] = running[<<c, u>>]
  BY DEF Begin, Perform, Break, Ends, TypeOK
<1>7. LanesAreOfTasks'
  BY <1>1, <1>3, <1>4, <1>5, StateNames DEF TypeOK, Sound, LanesAreOfTasks
<1>8. AnsweredHasAsked'
  <2>1. \A c, u \in Task : queued'[<<c, u>>] + running'[<<c, u>>] > 0 => HasAsked(u)'
    <3> TAKE c, u \in Task
    <3>1. CASE <<c, u>> = w
      BY <1>1, <1>3, <3>1 DEF HasAsked
    <3>2. CASE <<c, u>> # w
      BY <1>1, <1>6, <3>2 DEF HasAsked, Sound, AnsweredHasAsked
    <3> QED
      BY <3>1, <3>2
  <2>2. /\ \A u \in approvals' \cup rows' \cup refused' : HasAsked(u)'
        /\ (pending # Nobody => HasAsked(pending.task))'
        /\ (console # Idle => HasAsked(console.task))'
    BY <1>1 DEF HasAsked, Sound, AnsweredHasAsked
  <2> QED
    BY <2>1, <2>2 DEF AnsweredHasAsked
<1>9. RefusedIsOver'
  BY <1>1, <1>5 DEF TypeOK, Sound, RefusedIsOver
<1>10. RunningIsServed'
  <2>1. ASSUME NEW u \in Task, u # t, state'[u] = "RUNNING"
        PROVE  Served(u)' \/ left'[u] # "ended"
    <3>1. state[u] = "RUNNING" /\ left'[u] = left[u]
      BY <1>5, <2>1 DEF TypeOK, Begin, Perform, Break
    <3>2. Served(u) \/ left[u] # "ended"
      BY <3>1 DEF Sound, RunningIsServed
    <3>3. \A c \in Task : <<c, u>> # w
      BY <2>1
    <3> QED
      BY <1>1, <1>6, <3>1, <3>2, <3>3 DEF Served
  <2>2. ASSUME state'[t] = "RUNNING"
        PROVE  Served(t)' \/ left'[t] # "ended"
    <3>1. CASE Begin(b, t) /\ b \in cancelled
      BY <3>1 DEF Begin, TypeOK
    <3>2. CASE Begin(b, t) /\ b \notin cancelled
      <4>1. running' = [running EXCEPT ![w] = running[w] + 1]
        BY <3>2 DEF Begin
      <4>2. queued'[w] \in Nat /\ running'[w] > 0 /\ running'[w] \in Nat
        BY <1>1, <1>2, <4>1 DEF TypeOK
      <4>3. queued'[w] + running'[w] > 0
        BY <4>2
      <4> QED
        BY <4>3 DEF Served
    <3>3. CASE Perform(b, t)
      <4>1. state'[t] # "RUNNING"
        BY <1>4, <3>3, VerdictLeavesRunning DEF Perform, Move, TypeOK
      <4> QED
        BY <2>2, <4>1
    <3>4. CASE Break(b, t)
      BY <3>4 DEF Break, TypeOK
    <3> QED
      BY <3>1, <3>2, <3>3, <3>4
  <2> QED
    BY <2>1, <2>2 DEF RunningIsServed
<1>11. Dated'
  BY <1>1 DEF Sound, Dated
<1> QED
  BY <1>7, <1>8, <1>9, <1>10, <1>11 DEF Sound

LEMMA TickIsSound ==
    ASSUME TypeOK, Sound, Tick
    PROVE  Sound'
<1> USE DEF registry, session, history
<1>1. LanesAreOfTasks' /\ RefusedIsOver' /\ RunningIsServed'
  BY DEF Tick, Sound, LanesAreOfTasks, RefusedIsOver, RunningIsServed, Served
<1>2. AnsweredHasAsked'
  BY DEF Tick, Sound, AnsweredHasAsked, HasAsked
<1>3. Dated'
  <2>1. \A t \in Task : payload[t].at \in Nat
    BY DEF TypeOK
  <2>2. pending.at \in Nat
    BY HandleIsSomebody DEF TypeOK, Nobody
  <2>3. now' = now + 1 /\ now \in Nat /\ UNCHANGED <<payload, pending, born, lane>>
    BY DEF Tick, TypeOK
  <2>4. \A t \in Task : payload'[t].at <= now'
    BY <2>1, <2>3 DEF Sound, Dated
  <2>5. pending'.at <= now'
    BY <2>2, <2>3 DEF Sound, Dated
  <2> QED
    BY <2>3, <2>4, <2>5 DEF Sound, Dated
<1> QED
  BY <1>1, <1>2, <1>3 DEF Sound

LEMMA RestartIsSound ==
    ASSUME TypeOK, Sound, Restart
    PROVE  Sound'
<1>1. \A t \in Task : state'[t] = Recovered(t)
  BY DEF Restart
<1>2. \A t \in Task : HasAsked(t) => HasAsked(t)'
  BY DEF Restart, HasAsked, Past, TypeOK
<1>3. \/ pending' = Nobody
      \/ \E t \in rows : pending' = Recorded(t) /\ state'[t] = "WAITING_FOR_APPROVAL"
  <2>1. pending' = Rehydrated(rows, {}, state') /\ rows \in SUBSET Task
    BY DEF Restart, TypeOK
  <2> QED
    BY <2>1, RehydratedWaits
<1>4. UNCHANGED <<rows, payload, now, born, refused>> /\ approvals' = rows /\ console' = Idle
  BY DEF Restart
<1>5. LanesAreOfTasks'
  <2>1. \A t \in Task : state[t] = "ABSENT" => Recovered(t) = "ABSENT"
    BY DEF Recovered, RecoverableOnRestart, Sound, LanesAreOfTasks, AnsweredHasAsked,
       HasAsked, Past
  <2>2. \A t \in Task : Recovered(t) = "ABSENT" => state[t] = "ABSENT"
    BY DEF Recovered
  <2> QED
    BY <1>1, <2>1, <2>2 DEF Restart, TypeOK, Sound, LanesAreOfTasks
<1>6. AnsweredHasAsked'
  <2>1. (pending # Nobody => HasAsked(pending.task))'
    <3>1. ASSUME NEW t \in rows, pending' = Recorded(t)
          PROVE  HasAsked(pending.task)'
      <4>1. t \in Task /\ HasAsked(t)
        BY DEF TypeOK, Sound, AnsweredHasAsked
      <4> QED
        BY <1>2, <3>1, <4>1, RecordedIsHandle DEF HasAsked
    <3> QED
      BY <1>3, <3>1
  <2>2. \A t \in approvals' \cup rows' \cup refused' : HasAsked(t)'
    BY <1>2, <1>4 DEF TypeOK, Sound, AnsweredHasAsked
  <2>3. \A b, t \in Task : queued'[<<b, t>>] = 0 /\ running'[<<b, t>>] = 0
    BY DEF Restart
  <2> QED
    BY <1>4, <2>1, <2>2, <2>3 DEF AnsweredHasAsked
<1>7. RefusedIsOver'
  <2>1. ASSUME NEW t \in refused
        PROVE  state'[t] \in TERMINAL /\ pending'.task # t /\ console'.task # t
    <3>1. t \in Task /\ state[t] \in TERMINAL
      BY DEF TypeOK, Sound, RefusedIsOver
    <3>2. state'[t] \in TERMINAL
      BY <1>1, <3>1, RecoveredKeepsEnd
    <3>3. pending'.task # t
      <4>1. CASE pending' = Nobody
        BY <3>1, <4>1, SessionAssumption DEF Nobody
      <4>2. ASSUME NEW u \in rows, pending' = Recorded(u),
                   state'[u] = "WAITING_FOR_APPROVAL"
            PROVE  pending'.task # t
        BY <3>2, <4>2, RecordedIsHandle, StateNames DEF TypeOK
      <4> QED
        BY <1>3, <4>1, <4>2
    <3> QED
      BY <1>4, <3>1, <3>2, <3>3, SessionAssumption DEF Idle
  <2> QED
    BY <1>4, <2>1 DEF RefusedIsOver, Idle
<1>8. RunningIsServed'
  BY <1>1, RecoveredKeepsEnd DEF RunningIsServed
<1>9. Dated'
  <2>1. \A t \in Task : payload'[t].at <= now' /\ payload'[t].at <= born'[t]
    BY <1>4 DEF Sound, Dated
  <2>2. pending'.at <= now' /\ ((pending # Nobody => pending.at <= born[pending.task])')
    <3>1. CASE pending' = Nobody
      BY <1>4, <3>1 DEF Nobody, TypeOK
    <3>2. ASSUME NEW t \in rows, pending' = Recorded(t)
          PROVE  pending'.at <= now' /\ ((pending # Nobody => pending.at <= born[pending.task])')
      <4>1. t \in Task /\ pending'.task = t /\ pending'.at = payload[t].at
        BY <3>2, RecordedIsHandle DEF TypeOK
      <4> QED
        BY <1>4, <4>1 DEF Sound, Dated
    <3> QED
      BY <1>3, <3>1, <3>2
  <2>3. \A t \in Task : lane'[t] # "done" => lane[t] # "done"
    BY DEF Restart
  <2> QED
    BY <1>4, <2>1, <2>2, <2>3 DEF Sound, Dated
<1> QED
  BY <1>5, <1>6, <1>7, <1>8, <1>9 DEF Sound

LEMMA SoundIsInductive == TypeOK /\ Sound /\ [Next]_vars => Sound'
<1> SUFFICES ASSUME TypeOK, Sound, [Next]_vars
             PROVE  Sound'
  OBVIOUS
<1>1. CASE UNCHANGED vars
  BY <1>1 DEF vars, registry, session, history, counters, Sound, LanesAreOfTasks,
     AnsweredHasAsked, RefusedIsOver, RunningIsServed, Served, Dated, HasAsked
<1>2. CASE Next
  BY <1>2, LaneStepIsSound, ConsoleStepIsSound, ActionStepIsSound, TickIsSound, RestartIsSound
     DEF Next
<1> QED
  BY <1>1, <1>2

-----------------------------------------------------------------------------
(* What a person may rely on.                                              *)

\* The inductive invariant holds in every state the session reaches.
THEOREM Soundness == Spec => [](TypeOK /\ Sound)
<1>1. Init => TypeOK /\ Sound
  BY TypeInit, SoundInit
<1>2. TypeOK /\ Sound /\ [Next]_vars => (TypeOK /\ Sound)'
  BY TypeIsInductive, SoundIsInductive
<1> QED
  BY <1>1, <1>2, PTL DEF Spec

\* Whatever raced with an answer, a task that is RUNNING is run by somebody
\* in this process, or its request was declined, its approved action raised or
\* was dropped.
THEOREM RunningServed == Spec => []RunningIsServed
<1>1. TypeOK /\ Sound => RunningIsServed
  BY DEF Sound
<1> QED
  BY <1>1, Soundness, PTL

\* No step grants a task that was refused.
LEMMA GrantIsOfUnrefused ==
    ASSUME TypeOK, Sound, [Next]_vars, NEW t \in refused
    PROVE  granted'[t] = granted[t]
<1>1. CASE Grant
  BY <1>1 DEF Grant, TypeOK, Sound, RefusedIsOver
<1>2. CASE UNCHANGED granted
  BY <1>2
<1> QED
  BY <1>1, <1>2 DEF Next, vars, registry, session, history, counters, Submit, StartRun,
     Decline, FinishRun, BreakRun, Suspend, Ask, Register, EndRun, Pick, Take, Resume, Cancel,
     Begin, Ends, Perform, Break, BareAnswer, Clear, Reject, Tick, Restart

\* A refusal that was carried out is final: no later answer, late question or
\* restart makes a consent of it.
THEOREM RefusalIsFinal == Spec => NoIsFinal
<1>1. TypeOK /\ Sound /\ [Next]_vars => [\A t \in refused : granted'[t] = granted[t]]_vars
  BY GrantIsOfUnrefused
<1> QED
  BY <1>1, Soundness, PTL DEF Spec, NoIsFinal

\* Only Take puts an answer before the console, for a handle that is not older
\* than its time to live and is dated no later than the question of its task.
LEMMA TakenIsInTime ==
    ASSUME TypeOK, Sound, [Next]_vars, console = Idle, console' # Idle
    PROVE  now <= born[console'.task] + Ttl
<1>1. ASSUME NEW h, NEW yes \in BOOLEAN, Answerable(h), Take(h, yes)
      PROVE  now <= born[console'.task] + Ttl
  <2>1. ~ Expired(h) /\ console'.task = h.task
    BY <1>1 DEF Take
  <2>2. h.at <= born[h.task] /\ h.at \in Nat /\ born[h.task] \in Nat /\ now \in Nat
    BY <1>1, HandleIsSomebody, SessionAssumption DEF Answerable, TypeOK, Never
  <2>3. now <= h.at + Ttl
    BY <2>1, <2>2, SessionAssumption DEF Expired
  <2> QED
    BY <2>1, <2>2, <2>3, SessionAssumption
<1>2. ASSUME NEW t \in Task, Pick(t)
      PROVE  now <= born[console'.task] + Ttl
  <2>1. t \in approvals
    BY <1>2 DEF Pick, Candidates
  <2> QED
    BY <1>1, <1>2, <2>1, RecordedIsAnswerable DEF Pick
<1>3. ASSUME NEW yes \in BOOLEAN, BareAnswer(yes)
      PROVE  now <= born[console'.task] + Ttl
  BY <1>1, <1>3, OwnerIsAnswerable DEF BareAnswer
<1>4. ~ Clear /\ ~ Grant /\ ~ Reject
  BY DEF Idle, Clear, Grant, Reject
<1> QED
  BY <1>2, <1>3, <1>4 DEF Next, vars, registry, session, history, counters, Submit, StartRun,
     Decline, FinishRun, BreakRun, Suspend, Ask, Register, EndRun, Resume, Cancel,
     Begin, Ends, Perform, Break, Tick, Restart

\* However a session came by a question, and whosever date that says, an answer
\* later than its time to live after it was put is not taken.
THEOREM Expiry == Spec => ExpiredIsNotTaken
<1>1. TypeOK /\ Sound /\ [Next]_vars =>
        [console = Idle /\ console' # Idle => now <= born[console'.task] + Ttl]_vars
  BY TakenIsInTime
<1> QED
  BY <1>1, Soundness, PTL DEF Spec, ExpiredIsNotTaken

-----------------------------------------------------------------------------
(* SessionTurns: the turns of a session and the question they share.       *)

CONSTANTS Workers, Talker, Replies, MaxPlaces

VARIABLES queue, talk, question, thread, recent, overdue

Turns == INSTANCE SessionTurns WITH pending <- question, lane <- thread

\* What the proofs need to know of the constants.
RepliesAreSaid == Replies \subseteq [names : Nat, says : {"", "DROP", "NO"}]
TurnsAreBounded == MaxInputs \in Nat /\ MaxAsks \in Nat \ {0}

Given == 1..Len(inputs)

TurnOf == [pc : {"IDLE", "TAKEN", "RUN"}, input : Given \cup {0},
           taken : Turns!Question \cup {Turns!NoQuestion},
           record : Turns!Records, late : BOOLEAN]

TurnsTyped ==
    /\ inputs \in Seq(Turns!Requests \cup Turns!SaidTo) /\ Len(inputs) <= MaxInputs
    /\ queue \in Seq(Given) /\ talk \in Seq(Given)
    /\ question \in Turns!Question \cup {Turns!NoQuestion}
    /\ thread \in [Turns!Lanes -> TurnOf]
    /\ record \in [Turns!Records -> STATES \cup {"ABSENT"}]
    /\ result \in [Turns!Ids -> Turns!Results]
    /\ puts \in [Turns!Ids -> Nat] /\ overdue \subseteq Turns!Ids
    /\ opened \in Seq([question : Turns!Ids, input : Turns!Ids, late : BOOLEAN])

\* An input waits in one queue or is worked on by one thread, and has not
\* ended then.
OneTurnEach ==
    /\ \A i \in Turns!Ids : i > Len(inputs) => result[i] = "NONE"
    /\ \A k \in DOMAIN queue :
          /\ result[queue[k]] = "NONE"
          /\ \A m \in DOMAIN queue : queue[m] = queue[k] => m = k
          /\ \A m \in DOMAIN talk : talk[m] # queue[k]
    /\ \A k \in DOMAIN talk :
          /\ result[talk[k]] = "NONE"
          /\ \A m \in DOMAIN talk : talk[m] = talk[k] => m = k
    /\ \A l \in Turns!Lanes : thread[l].pc = "IDLE" => thread[l] = Turns!Free
    /\ \A l \in Turns!Lanes : thread[l].pc # "IDLE" =>
          /\ thread[l].input \in Given /\ result[thread[l].input] = "NONE"
          /\ \A k \in DOMAIN queue : queue[k] # thread[l].input
          /\ \A k \in DOMAIN talk : talk[k] # thread[l].input
          /\ \A m \in Turns!Lanes :
                thread[m].pc # "IDLE" /\ thread[m].input = thread[l].input => m = l

\* A question is in one place only: the session's, or that of the thread whose
\* turn took it.
OnePlaceEach ==
    \A l \in Turns!Lanes : thread[l].taken # Turns!NoQuestion =>
        /\ thread[l].taken.by # question.by
        /\ \A m \in Turns!Lanes : thread[m].taken.by = thread[l].taken.by => m = l

\* A question was asked by a turn that ended.  It knows how often it was put
\* and whether it is overdue; who took it took it in time.
QuestionsAreKnown ==
    /\ question # Turns!NoQuestion =>
          /\ result[question.by] # "NONE" /\ puts[question.by] = question.asks
          /\ question.aged <=> question.by \in overdue
    /\ \A l \in Turns!Lanes : thread[l].taken # Turns!NoQuestion =>
          /\ result[thread[l].taken.by] # "NONE"
          /\ puts[thread[l].taken.by] = thread[l].taken.asks
          /\ thread[l].taken.aged <=> thread[l].taken.by \in overdue
          /\ ~ thread[l].late
    /\ \A i \in overdue : result[i] # "NONE"

\* What was run on an answer is not asked about any more.
OpenedIsOver ==
    \A k \in DOMAIN opened :
        /\ result[opened[k].question] # "NONE"
        /\ question.by # opened[k].question
        /\ \A l \in Turns!Lanes :
              thread[l].pc = "TAKEN" => thread[l].taken.by # opened[k].question

\* While a turn lasts its input's own record is at its beginning, and what the
\* turn runs has that record or one of a workflow.
RecordsFollow ==
    /\ \A i \in Turns!Ids : result[i] = "NONE" => record[i] \in {"ABSENT", "CREATED", "RUNNING"}
    /\ \A l \in Turns!Lanes : thread[l].pc = "RUN" =>
          thread[l].record \in {Turns!NamedFile, Turns!Registered, thread[l].input}

Turning ==
    /\ TurnsTyped /\ OneTurnEach /\ OnePlaceEach /\ QuestionsAreKnown /\ OpenedIsOver
    /\ RecordsFollow
    /\ Turns!AnswersAreBound /\ Turns!PutAtMostTwice /\ Turns!OwnRecordIsHonest

LEMMA TurningInit ==
    ASSUME TurnsAreBounded, Turns!Init
    PROVE  Turning
<1>1. /\ inputs = <<>> /\ queue = <<>> /\ talk = <<>> /\ opened = <<>>
      /\ question = Turns!NoQuestion /\ thread = [l \in Turns!Lanes |-> Turns!Free]
      /\ record = [r \in Turns!Records |-> "ABSENT"] /\ overdue = {}
      /\ result = [i \in Turns!Ids |-> "NONE"] /\ puts = [i \in Turns!Ids |-> 0]
  BY DEF Turns!Init
<1>2. /\ Len(inputs) = 0 /\ DOMAIN inputs = {} /\ DOMAIN queue = {} /\ DOMAIN talk = {}
      /\ DOMAIN opened = {}
  BY <1>1
<1>3. Turns!Free \in TurnOf /\ Turns!Free.pc = "IDLE"
      /\ Turns!Free.taken = Turns!NoQuestion
  BY DEF TurnOf, Turns!Free, Turns!NoQuestion, Turns!Records, TurnsAreBounded, Given
<1>4. TurnsTyped
  BY <1>1, <1>2, <1>3 DEF TurnsTyped, TurnsAreBounded, Turns!Results
<1>5. OneTurnEach
  BY <1>1, <1>2, <1>3 DEF OneTurnEach
<1>6. OnePlaceEach /\ QuestionsAreKnown /\ OpenedIsOver
  BY <1>1, <1>2, <1>3 DEF OnePlaceEach, QuestionsAreKnown, OpenedIsOver
<1>7. RecordsFollow
  <2>1. Turns!Ids \subseteq Turns!Records
    BY DEF Turns!Ids, Turns!Records, TurnsAreBounded
  <2> QED
    BY <1>1, <1>3, <2>1 DEF RecordsFollow
<1>8. Turns!AnswersAreBound /\ Turns!PutAtMostTwice /\ Turns!OwnRecordIsHonest
  <2>1. \A i \in Turns!Ids : puts[i] <= MaxAsks
    BY <1>1 DEF TurnsAreBounded
  <2> QED
    BY <1>2, <2>1 DEF Turns!AnswersAreBound, Turns!PutAtMostTwice, Turns!OwnRecordIsHonest
<1> QED
  BY <1>4, <1>5, <1>6, <1>7, <1>8 DEF Turning

\* The new input is in no queue, at no thread, and has not ended.
LEMMA ArrivalIsNew ==
    ASSUME TurnsAreBounded, TurnsTyped, OneTurnEach, Len(inputs) < MaxInputs,
           NEW said \in Turns!Requests \cup Turns!SaidTo, inputs' = Append(inputs, said)
    PROVE  LET n == Len(inputs') IN
           /\ inputs' \in Seq(Turns!Requests \cup Turns!SaidTo)
           /\ n = Len(inputs) + 1 /\ n \in Turns!Ids /\ n \in Given' /\ n \notin Given
           /\ Given \subseteq Given' /\ TurnOf \subseteq TurnOf'
           /\ result[n] = "NONE"
           /\ \A i \in Turns!Ids : i > n => result[i] = "NONE"
           /\ DOMAIN inputs' = DOMAIN inputs \cup {n}
<1>1. /\ Len(inputs') = Len(inputs) + 1 /\ Len(inputs) \in Nat
      /\ inputs' \in Seq(Turns!Requests \cup Turns!SaidTo)
      /\ DOMAIN inputs = 1..Len(inputs) /\ DOMAIN inputs' = 1..(Len(inputs) + 1)
  BY DEF TurnsTyped
<1>2. Len(inputs') \in Turns!Ids /\ Given \subseteq Given'
      /\ Len(inputs') \in Given' /\ Len(inputs') \notin Given
      /\ DOMAIN inputs' = DOMAIN inputs \cup {Len(inputs')}
  BY <1>1 DEF TurnsAreBounded, Turns!Ids, Given
<1>3. TurnOf \subseteq TurnOf'
  BY <1>2 DEF TurnOf
<1>4. \A i \in Turns!Ids : i >= Len(inputs') => result[i] = "NONE"
  BY <1>1 DEF OneTurnEach, Turns!Ids, TurnsAreBounded
<1> QED
  BY <1>1, <1>2, <1>3, <1>4 DEF Turns!Ids, TurnsAreBounded

\* A queue that n is added to.
LEMMA Joins ==
    ASSUME NEW S, NEW T, S \subseteq T, NEW n \in T, NEW q \in Seq(S)
    PROVE  /\ Append(q, n) \in Seq(T)
           /\ DOMAIN q \subseteq DOMAIN Append(q, n)
           /\ \A k \in DOMAIN q : Append(q, n)[k] = q[k] /\ q[k] \in S
           /\ \A k \in DOMAIN Append(q, n) : k \notin DOMAIN q =>
                 k = Len(q) + 1 /\ Append(q, n)[k] = n
           /\ q \in Seq(T)
  OBVIOUS

LEMMA DispatchTurns ==
    ASSUME TurnsAreBounded, Turning, NEW request \in Turns!Requests,
           Turns!Dispatch(request)
    PROVE  Turning'
<1> DEFINE n == Len(inputs')
<1>1. /\ inputs' = Append(inputs, request) /\ Len(inputs) < MaxInputs
      /\ queue' = Append(queue, n) /\ record' = [record EXCEPT ![n] = "CREATED"]
      /\ UNCHANGED <<talk, thread, question, recent, result, puts, overdue, opened>>
  BY DEF Turns!Dispatch, Turns!history
<1>2. /\ inputs' \in Seq(Turns!Requests \cup Turns!SaidTo)
      /\ n = Len(inputs) + 1 /\ n \in Turns!Ids /\ n \in Given' /\ n \notin Given
      /\ Given \subseteq Given' /\ TurnOf \subseteq TurnOf' /\ result[n] = "NONE"
      /\ \A i \in Turns!Ids : i > n => result[i] = "NONE"
      /\ DOMAIN inputs' = DOMAIN inputs \cup {n}
  BY <1>1, ArrivalIsNew DEF Turning
<1>3. /\ queue' \in Seq(Given') /\ talk' \in Seq(Given')
      /\ \A k \in DOMAIN queue : queue[k] \in Given
      /\ \A k \in DOMAIN queue' :
            \/ k \in DOMAIN queue /\ queue'[k] = queue[k]
            \/ k = Len(queue) + 1 /\ queue'[k] = n
      /\ \A k \in DOMAIN talk : talk[k] \in Given
  BY <1>1, <1>2, Joins DEF Turning, TurnsTyped
<1> HIDE DEF n
<1>4. TurnsTyped'
  <2>1. Turns!Ids \subseteq Turns!Records
    BY DEF Turns!Ids, Turns!Records, TurnsAreBounded
  <2>2. record' \in [Turns!Records -> STATES \cup {"ABSENT"}]
    BY <1>1, <1>2, <2>1 DEF Turning, TurnsTyped, STATES
  <2>3. Len(inputs') <= MaxInputs
    BY <1>2 DEF n, Turns!Ids, TurnsAreBounded
  <2> QED
    BY <1>1, <1>2, <1>3, <2>2, <2>3 DEF Turning, TurnsTyped
<1>5. OneTurnEach'
  <2>1. \A l \in Turns!Lanes : thread[l].pc # "IDLE" => thread[l].input \in Given
    BY DEF Turning, OneTurnEach
  <2>2. \A i \in Turns!Ids : i > Len(inputs') => result'[i] = "NONE"
    BY <1>1, <1>2 DEF n
  <2> QED
    <3>1. \A k \in DOMAIN queue' :
            /\ result'[queue'[k]] = "NONE"
            /\ \A m \in DOMAIN queue' : queue'[m] = queue'[k] => m = k
            /\ \A m \in DOMAIN talk' : talk'[m] # queue'[k]
      BY <1>1, <1>2, <1>3 DEF Turning, OneTurnEach
    <3>2. \A l \in Turns!Lanes : thread'[l].pc # "IDLE" =>
            /\ thread'[l].input \in Given'
            /\ \A k \in DOMAIN queue' : queue'[k] # thread'[l].input
      <4>1. \A l \in Turns!Lanes : thread[l].pc # "IDLE" =>
              \A k \in DOMAIN queue : queue[k] # thread[l].input
        BY DEF Turning, OneTurnEach
      <4>2. SUFFICES ASSUME NEW l \in Turns!Lanes, thread[l].pc # "IDLE"
                     PROVE  /\ thread[l].input \in Given'
                            /\ \A k \in DOMAIN queue' : queue'[k] # thread[l].input
        BY <1>1
      <4>3. thread[l].input \in Given /\ thread[l].input # n
        BY <1>2, <2>1, <4>2
      <4> QED
        BY <1>2, <1>3, <4>1, <4>2, <4>3
    <3> QED
      BY <1>1, <2>2, <3>1, <3>2 DEF Turning, OneTurnEach
<1>6. RecordsFollow'
  BY <1>1, <1>2 DEF Turning, TurnsTyped, RecordsFollow
<1>7. Turns!OwnRecordIsHonest'
  BY <1>1, <1>2 DEF Turning, TurnsTyped, Turns!OwnRecordIsHonest
<1> QED
  BY <1>1, <1>4, <1>5, <1>6, <1>7
  DEF Turning, OnePlaceEach, QuestionsAreKnown, OpenedIsOver, Turns!AnswersAreBound,
      Turns!PutAtMostTwice

LEMMA SayTurns ==
    ASSUME TurnsAreBounded, RepliesAreSaid, Turning, NEW reply \in Replies,
           Turns!Say(reply)
    PROVE  Turning'
<1> DEFINE n == Len(inputs')
           said == [kind |-> "REPLY", names |-> reply.names, says |-> reply.says]
<1>1. /\ inputs' = Append(inputs, said) /\ Len(inputs) < MaxInputs
      /\ talk' = Append(talk, n)
      /\ UNCHANGED <<queue, record, thread, question, recent, result, puts, overdue, opened>>
  BY DEF Turns!Say, Turns!history
<1>2. said \in Turns!SaidTo
  BY DEF RepliesAreSaid, Turns!SaidTo
<1> HIDE DEF said
<1>3. /\ inputs' \in Seq(Turns!Requests \cup Turns!SaidTo)
      /\ n = Len(inputs) + 1 /\ n \in Turns!Ids /\ n \in Given' /\ n \notin Given
      /\ Given \subseteq Given' /\ TurnOf \subseteq TurnOf' /\ result[n] = "NONE"
      /\ \A i \in Turns!Ids : i > n => result[i] = "NONE"
      /\ DOMAIN inputs' = DOMAIN inputs \cup {n}
  BY <1>1, <1>2, ArrivalIsNew DEF Turning
<1>4. /\ queue' \in Seq(Given') /\ talk' \in Seq(Given')
      /\ \A k \in DOMAIN talk : talk[k] \in Given
      /\ \A k \in DOMAIN talk' :
            \/ k \in DOMAIN talk /\ talk'[k] = talk[k]
            \/ k = Len(talk) + 1 /\ talk'[k] = n
      /\ \A k \in DOMAIN queue : queue[k] \in Given
  <2>1. queue \in Seq(Given) /\ talk \in Seq(Given)
    BY DEF Turning, TurnsTyped
  <2>2. queue \in Seq(Given') /\ \A k \in DOMAIN queue : queue[k] \in Given
    BY <1>3, <2>1
  <2> QED
    BY <1>1, <1>3, <2>1, <2>2, Joins
<1> HIDE DEF n
<1>5. TurnsTyped'
  <2>1. Len(inputs') <= MaxInputs
    BY <1>3 DEF n, Turns!Ids, TurnsAreBounded
  <2> QED
    BY <1>1, <1>3, <1>4, <2>1 DEF Turning, TurnsTyped
<1>6. OneTurnEach'
  <2>1. \A l \in Turns!Lanes : thread[l].pc # "IDLE" => thread[l].input \in Given
    BY DEF Turning, OneTurnEach
  <2>2. \A i \in Turns!Ids : i > Len(inputs') => result'[i] = "NONE"
    BY <1>1, <1>3 DEF n
  <2> QED
    BY <1>1, <1>3, <1>4, <2>1, <2>2 DEF Turning, OneTurnEach
<1>7. Turns!OwnRecordIsHonest'
  BY <1>1, <1>3 DEF Turning, Turns!OwnRecordIsHonest
<1> QED
  BY <1>1, <1>5, <1>6, <1>7
  DEF Turning, OnePlaceEach, QuestionsAreKnown, OpenedIsOver, RecordsFollow,
      Turns!AnswersAreBound, Turns!PutAtMostTwice

LEMMA GrowOldTurns ==
    ASSUME TurnsAreBounded, Turning, Turns!GrowOld
    PROVE  Turning'
<1>1. UNCHANGED <<inputs, queue, talk, record, recent, result, puts, opened>>
  BY DEF Turns!GrowOld
<1>2. CASE /\ question # Turns!NoQuestion
           /\ question' = [question EXCEPT !.aged = TRUE]
           /\ overdue' = overdue \cup {question.by} /\ thread' = thread
  <2>1. /\ question \in Turns!Question /\ question' \in Turns!Question
        /\ question'.by = question.by /\ question'.asks = question.asks
        /\ question'.aged = TRUE /\ question.by \in Turns!Ids
        /\ question' # Turns!NoQuestion
    BY <1>2 DEF Turning, TurnsTyped, Turns!Question, Turns!NoQuestion, Turns!Ids
  <2>2. TurnsTyped'
    BY <1>1, <1>2, <2>1 DEF Turning, TurnsTyped, TurnOf, Given
  <2>3. OnePlaceEach' /\ OpenedIsOver'
    BY <1>1, <1>2, <2>1 DEF Turning, OnePlaceEach, OpenedIsOver
  <2>4. QuestionsAreKnown'
    <3>1. \A l \in Turns!Lanes : thread[l].taken # Turns!NoQuestion =>
            (thread[l].taken.by \in overdue' <=> thread[l].taken.by \in overdue)
      BY <1>2 DEF Turning, OnePlaceEach
    <3> QED
      BY <1>1, <1>2, <2>1, <3>1 DEF Turning, QuestionsAreKnown
  <2> QED
    BY <1>1, <1>2, <2>2, <2>3, <2>4
    DEF Turning, OneTurnEach, RecordsFollow, Turns!AnswersAreBound, Turns!PutAtMostTwice,
        Turns!OwnRecordIsHonest, Given
<1>3. CASE \E l \in Turns!Lanes :
              /\ thread[l].taken # Turns!NoQuestion
              /\ thread' = [thread EXCEPT ![l].taken.aged = TRUE]
              /\ overdue' = overdue \cup {thread[l].taken.by} /\ question' = question
  <2>1. PICK l \in Turns!Lanes :
              /\ thread[l].taken # Turns!NoQuestion
              /\ thread' = [thread EXCEPT ![l].taken.aged = TRUE]
              /\ overdue' = overdue \cup {thread[l].taken.by} /\ question' = question
    BY <1>3
  <2>2. thread[l] \in TurnOf /\ thread[l].taken \in Turns!Question
    BY <2>1 DEF Turning, TurnsTyped, TurnOf
  <2>3. /\ thread'[l] = [thread[l] EXCEPT !.taken = [thread[l].taken EXCEPT !.aged = TRUE]]
        /\ \A m \in Turns!Lanes : m # l => thread'[m] = thread[m]
        /\ DOMAIN thread' = Turns!Lanes
        /\ thread' = [m \in Turns!Lanes |-> thread'[m]]
    BY <2>1 DEF Turning, TurnsTyped
  <2> DEFINE old == [thread[l].taken EXCEPT !.aged = TRUE]
  <2>4. /\ old \in Turns!Question /\ old.by = thread[l].taken.by
        /\ old.asks = thread[l].taken.asks /\ old.aged = TRUE
        /\ old.by \in Turns!Ids
    BY <2>2 DEF Turns!Question
  <2>5. old # Turns!NoQuestion
    BY <2>4 DEF Turns!NoQuestion, Turns!Ids, TurnsAreBounded
  <2>6. thread'[l] = [thread[l] EXCEPT !.taken = old]
    BY <2>3
  <2> HIDE DEF old
  <2>7. /\ thread'[l] \in TurnOf /\ thread'[l].taken = old /\ thread'[l].pc = thread[l].pc
        /\ thread'[l].input = thread[l].input /\ thread'[l].record = thread[l].record
        /\ thread'[l].late = thread[l].late
    BY <2>2, <2>4, <2>6 DEF TurnOf
  <2>8. TurnsTyped'
    BY <1>1, <2>1, <2>2, <2>3, <2>4, <2>7 DEF Turning, TurnsTyped, TurnOf, Given
  <2>9. thread[l].pc # "IDLE"
    BY <2>1 DEF Turning, OneTurnEach, Turns!Free
  <2>10. OneTurnEach' /\ RecordsFollow'
    <3>1. \A m \in Turns!Lanes :
            /\ thread'[m].pc = thread[m].pc /\ thread'[m].input = thread[m].input
            /\ thread'[m].record = thread[m].record
            /\ thread[m].pc = "IDLE" => thread'[m] = thread[m]
      BY <2>3, <2>7, <2>9
    <3>2. Given' = Given
      BY <1>1 DEF Given
    <3>3. OneTurnEach'
      BY <1>1, <3>1, <3>2 DEF Turning, OneTurnEach
    <3>4. RecordsFollow'
      BY <1>1, <3>1 DEF Turning, RecordsFollow
    <3> QED
      BY <3>3, <3>4
  <2>11. OnePlaceEach' /\ OpenedIsOver'
    BY <1>1, <2>1, <2>3, <2>4, <2>7 DEF Turning, OnePlaceEach, OpenedIsOver
  <2>12. QuestionsAreKnown'
    <3>1. question # Turns!NoQuestion => (question.by \in overdue' <=> question.by \in overdue)
      BY <2>1 DEF Turning, OnePlaceEach
    <3>2. \A m \in Turns!Lanes : thread[m].taken # Turns!NoQuestion /\ m # l =>
            (thread[m].taken.by \in overdue' <=> thread[m].taken.by \in overdue)
      BY <2>1 DEF Turning, OnePlaceEach
    <3>3. /\ result[old.by] # "NONE" /\ puts[old.by] = old.asks /\ old.by \in overdue'
          /\ ~ thread[l].late
      BY <2>1, <2>4 DEF Turning, QuestionsAreKnown
    <3> QED
      BY <1>1, <2>1, <2>3, <2>4, <2>7, <3>1, <3>2, <3>3 DEF Turning, QuestionsAreKnown
  <2> QED
    BY <1>1, <2>8, <2>10, <2>11, <2>12
    DEF Turning, Turns!AnswersAreBound, Turns!PutAtMostTwice, Turns!OwnRecordIsHonest
<1> QED
  BY <1>2, <1>3 DEF Turns!GrowOld

\* What is left of a queue when its first member is taken.
LEMMA Leaves ==
    ASSUME NEW S, NEW q \in Seq(S), q # <<>>
    PROVE  /\ 1 \in DOMAIN q /\ Head(q) = q[1] /\ Head(q) \in S /\ Tail(q) \in Seq(S)
           /\ \A k \in DOMAIN Tail(q) :
                 k + 1 \in DOMAIN q /\ k + 1 # 1 /\ Tail(q)[k] = q[k + 1]
           /\ \A k, m \in DOMAIN Tail(q) : k + 1 = m + 1 => k = m
  OBVIOUS

LEMMA OpenedWereAsked ==
    ASSUME TurnsTyped
    PROVE  \A k \in DOMAIN opened : opened[k].question \in Turns!Ids
<1> DEFINE S == [question : Turns!Ids, input : Turns!Ids, late : BOOLEAN]
<1>1. opened \in Seq(S) /\ \A x \in S : x.question \in Turns!Ids
  BY DEF TurnsTyped
<1> HIDE DEF S
<1> QED
  BY <1>1

\* A turn begins with an input that is in no queue any more, and takes the
\* question along unless it is overdue.
LEMMA BeginTurns ==
    ASSUME TurnsAreBounded, Turning,
           NEW l \in Turns!Lanes, thread[l].pc = "IDLE",
           NEW i \in Given, result[i] = "NONE", Turns!Begin(l, i),
           queue' \in Seq(Given), talk' \in Seq(Given),
           \A k \in DOMAIN queue' :
               /\ result[queue'[k]] = "NONE" /\ queue'[k] # i
               /\ \A m \in DOMAIN queue' : queue'[m] = queue'[k] => m = k
               /\ \A m \in DOMAIN talk' : talk'[m] # queue'[k]
               /\ \A m \in Turns!Lanes : thread[m].pc # "IDLE" => queue'[k] # thread[m].input,
           \A k \in DOMAIN talk' :
               /\ result[talk'[k]] = "NONE" /\ talk'[k] # i
               /\ \A m \in DOMAIN talk' : talk'[m] = talk'[k] => m = k
               /\ \A m \in Turns!Lanes : thread[m].pc # "IDLE" => talk'[k] # thread[m].input,
           \A m \in Turns!Lanes : thread[m].pc # "IDLE" => thread[m].input # i
    PROVE  Turning'
<1> DEFINE taken == IF question.aged THEN Turns!NoQuestion ELSE question
<1>1. UNCHANGED <<inputs, record, recent, result, puts, overdue, opened>>
      /\ question' = Turns!NoQuestion
  BY DEF Turns!Begin, Turns!Take, Turns!history
<1>2. PICK turn : /\ turn = [Turns!Free EXCEPT !.pc = "TAKEN", !.input = i,
                                   !.late = question.by \in overdue, !.taken = taken]
                  /\ thread' = [thread EXCEPT ![l] = turn]
  BY Zenon DEF Turns!Begin
<1>3. taken \in Turns!Question \cup {Turns!NoQuestion}
  BY DEF Turning, TurnsTyped
<1>4. /\ taken # Turns!NoQuestion =>
            /\ taken = question /\ question # Turns!NoQuestion /\ ~ question.aged
            /\ question.by \notin overdue
      /\ taken.by \in {question.by, 0}
  BY DEF Turning, QuestionsAreKnown, Turns!NoQuestion
<1> HIDE DEF taken
<1>5. /\ turn = [pc |-> "TAKEN", input |-> i, taken |-> taken, record |-> 0,
                late |-> turn.late]
      /\ turn.late \in BOOLEAN /\ (turn.late <=> question.by \in overdue)
  <2>1. turn.pc = "TAKEN" /\ turn.input = i /\ turn.taken = taken /\ turn.record = 0
    BY <1>2 DEF Turns!Free
  <2>2. turn.late <=> question.by \in overdue
    BY <1>2 DEF Turns!Free
  <2>3. turn.late \in BOOLEAN
    BY <1>2 DEF Turns!Free
  <2>4. turn = [pc |-> turn.pc, input |-> turn.input, taken |-> turn.taken,
                record |-> turn.record, late |-> turn.late]
    BY <1>2 DEF Turns!Free
  <2> QED
    BY <2>1, <2>2, <2>3, <2>4
<1>6. /\ turn \in TurnOf /\ turn.pc = "TAKEN" /\ turn.input = i /\ turn.taken = taken
      /\ (taken # Turns!NoQuestion => ~ turn.late)
  BY <1>3, <1>4, <1>5 DEF TurnOf, Turns!Records, TurnsAreBounded
<1>7. /\ thread'[l] = turn /\ \A m \in Turns!Lanes : m # l => thread'[m] = thread[m]
      /\ thread' \in [Turns!Lanes -> TurnOf]
  BY <1>2, <1>6 DEF Turning, TurnsTyped
<1>8. Given' = Given /\ TurnOf' = TurnOf
  BY <1>1 DEF Given, TurnOf
<1>9. TurnsTyped'
  BY <1>1, <1>7, <1>8 DEF Turning, TurnsTyped
<1>10. OneTurnEach'
  <2>1. \A m \in Turns!Lanes : thread'[m].pc = "IDLE" => thread'[m] = Turns!Free
    BY <1>6, <1>7 DEF Turning, OneTurnEach
  <2>2. ASSUME NEW m \in Turns!Lanes, thread'[m].pc # "IDLE"
        PROVE  /\ thread'[m].input \in Given /\ result[thread'[m].input] = "NONE"
               /\ \A k \in DOMAIN queue' : queue'[k] # thread'[m].input
               /\ \A k \in DOMAIN talk' : talk'[k] # thread'[m].input
               /\ \A o \in Turns!Lanes :
                     thread'[o].pc # "IDLE" /\ thread'[o].input = thread'[m].input => o = m
    <3>1. CASE m = l
      BY <1>6, <1>7, <3>1
    <3>2. CASE m # l
      <4>1. thread'[m] = thread[m]
        BY <1>7, <3>2
      <4> QED
        BY <1>6, <1>7, <2>2, <3>2, <4>1 DEF Turning, OneTurnEach
    <3> QED
      BY <3>1, <3>2
  <2>3. \A j \in Turns!Ids : j > Len(inputs) => result[j] = "NONE"
    BY DEF Turning, OneTurnEach
  <2> QED
    BY <1>1, <1>8, <2>1, <2>2, <2>3 DEF OneTurnEach
<1>11. OnePlaceEach'
  <2>1. Turns!NoQuestion.by = 0 /\ \A q \in Turns!Question : q.by # 0
    BY DEF Turns!NoQuestion, Turns!Question, Turns!Ids, TurnsAreBounded
  <2>2. \A m \in Turns!Lanes : thread[m].taken # Turns!NoQuestion => thread[m].taken.by # 0
    BY <2>1 DEF Turning, TurnsTyped, TurnOf
  <2>3. question # Turns!NoQuestion => question.by # 0
    BY <2>1 DEF Turning, TurnsTyped
  <2>4. \A m \in Turns!Lanes : thread[m].taken # Turns!NoQuestion =>
          /\ thread[m].taken.by # question.by
          /\ \A o \in Turns!Lanes : thread[o].taken.by = thread[m].taken.by => o = m
    BY DEF Turning, OnePlaceEach
  <2>5. question # Turns!NoQuestion =>
          \A m \in Turns!Lanes : thread[m].taken.by # question.by
    <3>1. ASSUME NEW m \in Turns!Lanes, question # Turns!NoQuestion
          PROVE  thread[m].taken.by # question.by
      BY <2>1, <2>3, <2>4, <3>1
    <3> QED
      BY <3>1
  <2> QED
    BY <1>1, <1>4, <1>6, <1>7, <2>1, <2>2, <2>3, <2>4, <2>5 DEF OnePlaceEach
<1>12. QuestionsAreKnown'
  BY <1>1, <1>4, <1>6, <1>7 DEF Turning, QuestionsAreKnown
<1>13. OpenedIsOver'
  <2>1. \A k \in DOMAIN opened : opened[k].question # 0
    BY OpenedWereAsked DEF Turning, Turns!Ids, TurnsAreBounded
  <2> QED
    BY <1>1, <1>4, <1>6, <1>7, <2>1 DEF Turning, OpenedIsOver, Turns!NoQuestion
<1>14. RecordsFollow'
  BY <1>1, <1>6, <1>7 DEF Turning, RecordsFollow
<1> QED
  BY <1>1, <1>9, <1>10, <1>11, <1>12, <1>13, <1>14
  DEF Turning, Turns!AnswersAreBound, Turns!PutAtMostTwice, Turns!OwnRecordIsHonest

LEMMA WorkTurns ==
    ASSUME TurnsAreBounded, Turning, NEW w \in Workers, Turns!Work(w)
    PROVE  Turning'
<1> DEFINE i == Head(queue)
<1>1. /\ thread[w].pc = "IDLE" /\ queue # <<>> /\ queue' = Tail(queue) /\ talk' = talk
      /\ Turns!Begin(w, i) /\ w \in Turns!Lanes
  BY DEF Turns!Work, Turns!Lanes
<1>2. queue \in Seq(Given) /\ talk \in Seq(Given)
  BY DEF Turning, TurnsTyped
<1>3. /\ 1 \in DOMAIN queue /\ i = queue[1] /\ i \in Given /\ queue' \in Seq(Given)
      /\ \A k \in DOMAIN queue' :
            k + 1 \in DOMAIN queue /\ k + 1 # 1 /\ queue'[k] = queue[k + 1]
      /\ \A k, m \in DOMAIN queue' : k + 1 = m + 1 => k = m
  BY <1>1, <1>2, Leaves
<1> HIDE DEF i
<1>4. /\ \A k \in DOMAIN queue :
            /\ result[queue[k]] = "NONE"
            /\ \A m \in DOMAIN queue : queue[m] = queue[k] => m = k
            /\ \A m \in DOMAIN talk : talk[m] # queue[k]
            /\ \A m \in Turns!Lanes : thread[m].pc # "IDLE" => queue[k] # thread[m].input
      /\ \A k \in DOMAIN talk :
            /\ result[talk[k]] = "NONE"
            /\ \A m \in DOMAIN talk : talk[m] = talk[k] => m = k
            /\ \A m \in Turns!Lanes : thread[m].pc # "IDLE" => talk[k] # thread[m].input
  BY DEF Turning, OneTurnEach
<1>5. \A k \in DOMAIN queue' :
          /\ result[queue'[k]] = "NONE" /\ queue'[k] # i
          /\ \A m \in DOMAIN queue' : queue'[m] = queue'[k] => m = k
          /\ \A m \in DOMAIN talk' : talk'[m] # queue'[k]
          /\ \A m \in Turns!Lanes : thread[m].pc # "IDLE" => queue'[k] # thread[m].input
  BY <1>1, <1>3, <1>4
<1>6. \A k \in DOMAIN talk' :
          /\ result[talk'[k]] = "NONE" /\ talk'[k] # i
          /\ \A m \in DOMAIN talk' : talk'[m] = talk'[k] => m = k
          /\ \A m \in Turns!Lanes : thread[m].pc # "IDLE" => talk'[k] # thread[m].input
  BY <1>1, <1>3, <1>4
<1>7. result[i] = "NONE"
      /\ \A m \in Turns!Lanes : thread[m].pc # "IDLE" => thread[m].input # i
  BY <1>3, <1>4
<1> QED
  BY <1>1, <1>2, <1>3, <1>5, <1>6, <1>7, BeginTurns

LEMMA TalkTurns ==
    ASSUME TurnsAreBounded, Turning, Turns!Talk
    PROVE  Turning'
<1> DEFINE i == Head(talk)
<1>1. /\ thread[Talker].pc = "IDLE" /\ talk # <<>> /\ talk' = Tail(talk) /\ queue' = queue
      /\ Turns!Begin(Talker, i) /\ Talker \in Turns!Lanes
  BY DEF Turns!Talk, Turns!Lanes
<1>2. queue \in Seq(Given) /\ talk \in Seq(Given)
  BY DEF Turning, TurnsTyped
<1>3. /\ 1 \in DOMAIN talk /\ i = talk[1] /\ i \in Given /\ talk' \in Seq(Given)
      /\ \A k \in DOMAIN talk' :
            k + 1 \in DOMAIN talk /\ k + 1 # 1 /\ talk'[k] = talk[k + 1]
      /\ \A k, m \in DOMAIN talk' : k + 1 = m + 1 => k = m
  BY <1>1, <1>2, Leaves
<1> HIDE DEF i
<1>4. /\ \A k \in DOMAIN queue :
            /\ result[queue[k]] = "NONE"
            /\ \A m \in DOMAIN queue : queue[m] = queue[k] => m = k
            /\ \A m \in DOMAIN talk : talk[m] # queue[k]
            /\ \A m \in Turns!Lanes : thread[m].pc # "IDLE" => queue[k] # thread[m].input
      /\ \A k \in DOMAIN talk :
            /\ result[talk[k]] = "NONE"
            /\ \A m \in DOMAIN talk : talk[m] = talk[k] => m = k
            /\ \A m \in Turns!Lanes : thread[m].pc # "IDLE" => talk[k] # thread[m].input
  BY DEF Turning, OneTurnEach
<1>5. \A k \in DOMAIN queue' :
          /\ result[queue'[k]] = "NONE" /\ queue'[k] # i
          /\ \A m \in DOMAIN queue' : queue'[m] = queue'[k] => m = k
          /\ \A m \in DOMAIN talk' : talk'[m] # queue'[k]
          /\ \A m \in Turns!Lanes : thread[m].pc # "IDLE" => queue'[k] # thread[m].input
  BY <1>1, <1>3, <1>4
<1>6. \A k \in DOMAIN talk' :
          /\ result[talk'[k]] = "NONE" /\ talk'[k] # i
          /\ \A m \in DOMAIN talk' : talk'[m] = talk'[k] => m = k
          /\ \A m \in Turns!Lanes : thread[m].pc # "IDLE" => talk'[k] # thread[m].input
  BY <1>1, <1>3, <1>4
<1>7. result[i] = "NONE"
      /\ \A m \in Turns!Lanes : thread[m].pc # "IDLE" => thread[m].input # i
  BY <1>3, <1>4
<1> QED
  BY <1>1, <1>2, <1>3, <1>5, <1>6, <1>7, BeginTurns

\* A turn goes on to a run, under its input's own record or a workflow's.  The
\* question it took, if any, stays with it.
LEMMA RunsTurns ==
    ASSUME TurnsAreBounded, Turning, NEW l \in Turns!Lanes, thread[l].pc = "TAKEN",
           NEW r \in {Turns!NamedFile, Turns!Registered, thread[l].input},
           Turns!Runs(l, r), question' = question,
           opened' \in Seq([question : Turns!Ids, input : Turns!Ids, late : BOOLEAN])
    PROVE  /\ \A m \in Turns!Lanes : thread'[m].taken = thread[m].taken
           /\ \A m \in Turns!Lanes : thread'[m].pc = "TAKEN" => m # l /\ thread[m].pc = "TAKEN"
           /\ result' = result
           /\ TurnsTyped' /\ OneTurnEach' /\ OnePlaceEach' /\ QuestionsAreKnown'
           /\ RecordsFollow' /\ Turns!PutAtMostTwice' /\ Turns!OwnRecordIsHonest'
<1>1. /\ thread' = [thread EXCEPT ![l].pc = "RUN", ![l].record = r]
      /\ UNCHANGED <<inputs, queue, talk, recent, result, puts, overdue>>
  BY DEF Turns!Runs
<1>2. PICK s \in {record[r], "CREATED", "RUNNING"} :
         /\ record' = [record EXCEPT ![r] = s]
         /\ s = record[r] => record[r] # "ABSENT"
  BY DEF Turns!Runs, Turns!Moved, Turns!Created
<1>3. /\ thread[l] \in TurnOf /\ thread[l].input \in Given
      /\ result[thread[l].input] = "NONE"
      /\ r \in Turns!Records /\ Given \subseteq Turns!Ids
  <2>1. thread[l] \in TurnOf /\ thread[l].input \in Given
        /\ result[thread[l].input] = "NONE"
    BY DEF Turning, TurnsTyped, OneTurnEach
  <2>2. Len(inputs) \in Nat /\ Len(inputs) <= MaxInputs
    BY DEF Turning, TurnsTyped
  <2>3. Given \subseteq Turns!Ids /\ Turns!Ids \subseteq Turns!Records
        /\ Turns!NamedFile \in Turns!Records /\ Turns!Registered \in Turns!Records
    BY <2>2 DEF Given, Turns!Ids, Turns!Records, Turns!NamedFile, Turns!Registered,
                TurnsAreBounded
  <2> QED
    BY <2>1, <2>3
<1>4. /\ thread'[l] = [thread[l] EXCEPT !.pc = "RUN", !.record = r]
      /\ \A m \in Turns!Lanes : m # l => thread'[m] = thread[m]
      /\ thread' = [m \in Turns!Lanes |-> thread'[m]]
  BY <1>1 DEF Turning, TurnsTyped
<1>5. /\ thread'[l] \in TurnOf /\ thread'[l].pc = "RUN" /\ thread'[l].record = r
      /\ thread'[l].input = thread[l].input /\ thread'[l].taken = thread[l].taken
      /\ thread'[l].late = thread[l].late
  BY <1>3, <1>4 DEF TurnOf
<1>6. /\ \A m \in Turns!Lanes :
            /\ thread'[m].input = thread[m].input /\ thread'[m].taken = thread[m].taken
            /\ thread'[m].late = thread[m].late
            /\ (thread'[m].pc = "IDLE" <=> thread[m].pc = "IDLE")
            /\ thread'[m].pc = "IDLE" => thread'[m] = thread[m]
            /\ thread'[m].pc = "TAKEN" => m # l /\ thread[m].pc = "TAKEN"
      /\ Given' = Given
  BY <1>1, <1>4, <1>5 DEF Given
<1>7. TurnsTyped'
  <2>1. TurnOf' = TurnOf
    BY <1>6 DEF TurnOf
  <2>2. thread' \in [Turns!Lanes -> TurnOf]
    BY <1>4, <1>5 DEF Turning, TurnsTyped
  <2>3. record' \in [Turns!Records -> STATES \cup {"ABSENT"}]
    BY <1>2, <1>3 DEF Turning, TurnsTyped, STATES
  <2> QED
    BY <1>1, <1>6, <2>1, <2>2, <2>3 DEF Turning, TurnsTyped
<1>8. UNCHANGED <<inputs, queue, talk, result, puts, overdue, question>>
  BY <1>1
<1>9. OneTurnEach'
  <2>1. OneTurnEach
    BY DEF Turning
  <2>2. \A m \in Turns!Lanes :
          /\ thread'[m].pc = "IDLE" => thread'[m] = Turns!Free
          /\ thread'[m].pc # "IDLE" => thread[m].pc # "IDLE"
          /\ thread'[m].input = thread[m].input
    BY <1>6, <2>1 DEF OneTurnEach
  <2>3. ASSUME NEW m \in Turns!Lanes, thread'[m].pc # "IDLE"
        PROVE  /\ thread'[m].input \in Given' /\ result[thread'[m].input] = "NONE"
               /\ \A k \in DOMAIN queue : queue[k] # thread'[m].input
               /\ \A k \in DOMAIN talk : talk[k] # thread'[m].input
    BY <1>6, <2>1, <2>2, <2>3 DEF OneTurnEach
  <2>4. \A m, o \in Turns!Lanes :
          thread'[m].pc # "IDLE" /\ thread'[o].pc # "IDLE"
          /\ thread'[o].input = thread'[m].input => o = m
    BY <2>1, <2>2 DEF OneTurnEach
  <2> QED
    BY <1>8, <2>1, <2>2, <2>3, <2>4 DEF OneTurnEach
<1>10. OnePlaceEach' /\ QuestionsAreKnown'
  <2>1. OnePlaceEach'
    BY <1>6, <1>8 DEF Turning, OnePlaceEach
  <2>2. \A m \in Turns!Lanes :
          thread'[m].taken = thread[m].taken /\ thread'[m].late = thread[m].late
    BY <1>6
  <2>3. QuestionsAreKnown'
    BY <1>8, <2>2 DEF Turning, QuestionsAreKnown
  <2> QED
    BY <2>1, <2>3
<1>11. \A i \in Turns!Ids : i # thread[l].input => record'[i] = record[i]
  BY <1>2 DEF Turning, TurnsTyped, Turns!Ids, Turns!NamedFile, Turns!Registered,
              TurnsAreBounded
<1>12. RecordsFollow'
  <2>1. ASSUME NEW i \in Turns!Ids, result[i] = "NONE"
        PROVE  record'[i] \in {"ABSENT", "CREATED", "RUNNING"}
    BY <1>2, <1>11, <2>1 DEF Turning, TurnsTyped, RecordsFollow
  <2>2. ASSUME NEW m \in Turns!Lanes, thread'[m].pc = "RUN"
        PROVE  thread'[m].record \in {Turns!NamedFile, Turns!Registered, thread'[m].input}
    BY <1>4, <1>5, <2>2 DEF Turning, RecordsFollow
  <2> QED
    BY <1>1, <2>1, <2>2 DEF RecordsFollow
<1>13. Turns!OwnRecordIsHonest'
  <2>1. DOMAIN inputs = Given
    BY DEF Turning, TurnsTyped, Given
  <2> QED
    BY <1>1, <1>3, <1>11, <2>1 DEF Turning, Turns!OwnRecordIsHonest
<1>14. Turns!PutAtMostTwice'
  BY <1>1 DEF Turning, Turns!PutAtMostTwice
<1> QED
  BY <1>1, <1>6, <1>7, <1>9, <1>10, <1>12, <1>13, <1>14

LEMMA RunTurns ==
    ASSUME TurnsAreBounded, Turning, NEW l \in Turns!Lanes,
           Turns!RunRegistered(l) \/ Turns!RunGeneral(l)
    PROVE  Turning'
<1>1. /\ thread[l].pc = "TAKEN" /\ question' = question /\ opened' = opened
      /\ \E r \in {Turns!NamedFile, Turns!Registered, thread[l].input} : Turns!Runs(l, r)
  BY DEF Turns!RunRegistered, Turns!RunGeneral, Turns!Turn
<1>2. opened' \in Seq([question : Turns!Ids, input : Turns!Ids, late : BOOLEAN])
  BY <1>1 DEF Turning, TurnsTyped
<1>3. /\ \A m \in Turns!Lanes : thread'[m].taken = thread[m].taken
      /\ \A m \in Turns!Lanes : thread'[m].pc = "TAKEN" => m # l /\ thread[m].pc = "TAKEN"
      /\ result' = result
      /\ TurnsTyped' /\ OneTurnEach' /\ OnePlaceEach' /\ QuestionsAreKnown'
      /\ RecordsFollow' /\ Turns!PutAtMostTwice' /\ Turns!OwnRecordIsHonest'
  BY <1>1, <1>2, RunsTurns
<1>4. OpenedIsOver' /\ Turns!AnswersAreBound'
  BY <1>1, <1>3 DEF Turning, OpenedIsOver, Turns!AnswersAreBound
<1> QED
  BY <1>3, <1>4 DEF Turning

\* The question picked from was in nobody else's hands, was not run on before,
\* and was taken in time.
LEMMA PickTurns ==
    ASSUME TurnsAreBounded, Turning, NEW l \in Turns!Lanes, Turns!Pick(l)
    PROVE  Turning'
<1> DEFINE S == [question : Turns!Ids, input : Turns!Ids, late : BOOLEAN]
           by == thread[l].taken.by
<1>1. /\ thread[l].pc = "TAKEN" /\ question' = question /\ Turns!Runs(l, Turns!NamedFile)
      /\ thread[l].taken # Turns!NoQuestion
  BY DEF Turns!Pick, Turns!Answers, Turns!Turn
<1>2. /\ by \in Turns!Ids /\ thread[l].input \in Turns!Ids
      /\ result[by] # "NONE" /\ ~ thread[l].late /\ thread[l].late \in BOOLEAN
      /\ by # question.by
      /\ \A m \in Turns!Lanes : thread[m].taken.by = by => m = l
      /\ \A k \in DOMAIN opened : opened[k].question # by
  <2>1. thread[l] \in TurnOf /\ thread[l].taken \in Turns!Question
        /\ thread[l].input \in Given
    BY <1>1 DEF Turning, TurnsTyped, OneTurnEach, TurnOf
  <2>2. Given \subseteq Turns!Ids
    BY DEF Turning, TurnsTyped, Given, Turns!Ids, TurnsAreBounded
  <2>3. by \in Turns!Ids /\ thread[l].late \in BOOLEAN
    BY <2>1 DEF TurnOf, Turns!Question
  <2> QED
    BY <1>1, <2>1, <2>2, <2>3 DEF Turning, QuestionsAreKnown, OnePlaceEach, OpenedIsOver
<1>3. PICK new \in S : /\ opened' = Append(opened, new) /\ new.question = by /\ ~ new.late
  <2>1. opened' = Append(opened, [question |-> by, input |-> thread[l].input,
                                  late |-> thread[l].late])
    BY DEF Turns!Pick
  <2> QED
    BY <1>2, <2>1
<1>4. opened \in Seq(S)
  BY DEF Turning, TurnsTyped
<1> HIDE DEF S, by
<1>5. /\ opened' \in Seq(S)
      /\ \A k \in DOMAIN opened' :
            \/ k \in DOMAIN opened /\ opened'[k] = opened[k]
            \/ k = Len(opened) + 1 /\ opened'[k] = new
  BY <1>3, <1>4
<1>6. opened' \in Seq([question : Turns!Ids, input : Turns!Ids, late : BOOLEAN])
  BY <1>5 DEF S
<1>7. /\ \A m \in Turns!Lanes : thread'[m].taken = thread[m].taken
      /\ \A m \in Turns!Lanes : thread'[m].pc = "TAKEN" => m # l /\ thread[m].pc = "TAKEN"
      /\ result' = result
      /\ TurnsTyped' /\ OneTurnEach' /\ OnePlaceEach' /\ QuestionsAreKnown'
      /\ RecordsFollow' /\ Turns!PutAtMostTwice' /\ Turns!OwnRecordIsHonest'
  BY <1>1, <1>6, RunsTurns
<1>8. OpenedIsOver'
  BY <1>1, <1>2, <1>3, <1>5, <1>7 DEF Turning, OpenedIsOver
<1>9. Turns!AnswersAreBound'
  BY <1>2, <1>3, <1>5 DEF Turning, Turns!AnswersAreBound
<1> QED
  BY <1>7, <1>8, <1>9 DEF Turning

Beginnings == {"ABSENT", "CREATED", "RUNNING"}

\* What submit leaves in the record of an input whose turn ended how.
Fits(s, how) ==
    s \in Beginnings \/ (s = "COMPLETED" /\ how = "OK") \/ (s = "FAILED" /\ how = "FAIL")

\* What is made of it says COMPLETED after a verified run only, and FAILED
\* only after one that was not.
LEMMA ReconciledIsHonest ==
    ASSUME NEW s, NEW how \in {"REPLIED", "OK", "FAIL", "RAISED"}, Fits(s, how)
    PROVE  /\ Turns!Reconciled(s, how) \in STATES \cup {"ABSENT"}
           /\ Turns!Reconciled(s, how) = "COMPLETED" => how = "OK"
           /\ Turns!Reconciled(s, how) = "FAILED" => how \in {"FAIL", "RAISED"}
<1>1. CASE how = "RAISED"
  BY <1>1 DEF Turns!Reconciled, Fits, Beginnings, STATES, Turns!Moved
<1>2. CASE how # "RAISED" /\ s # "CREATED"
  BY <1>2 DEF Turns!Reconciled, Fits, Beginnings, STATES
<1>3. CASE how # "RAISED" /\ s = "CREATED"
  BY <1>3 DEF Turns!Reconciled, Fits, Beginnings, STATES
<1> QED
  BY <1>1, <1>2, <1>3

\* A turn that is over leaves its thread free and its question with no one.
LEMMA EndsTurns ==
    ASSUME TurnsAreBounded, Turning, NEW l \in Turns!Lanes, thread[l].pc # "IDLE",
           NEW how \in {"REPLIED", "OK", "FAIL", "RAISED"},
           NEW st \in [Turns!Records -> STATES \cup {"ABSENT"}], Turns!Ends(l, how, st),
           \A i \in Turns!Ids : i # thread[l].input => st[i] = record[i],
           Fits(st[thread[l].input], how)
    PROVE  /\ thread[l].input \in Turns!Ids /\ result[thread[l].input] = "NONE"
           /\ result' = [result EXCEPT ![thread[l].input] = how]
           /\ thread'[l] = Turns!Free
           /\ \A m \in Turns!Lanes : m # l => thread'[m] = thread[m]
           /\ question' \in Turns!Question \cup {Turns!NoQuestion}
              /\ puts' \in [Turns!Ids -> Nat] /\ opened' = opened => TurnsTyped'
           /\ OneTurnEach' /\ RecordsFollow' /\ Turns!OwnRecordIsHonest'
           /\ overdue' = overdue
<1> DEFINE i == thread[l].input
<1>1. /\ thread[l] \in TurnOf /\ i \in Given /\ i \in Turns!Ids /\ result[i] = "NONE"
      /\ Turns!Ids \subseteq Turns!Records /\ DOMAIN inputs = Given
      /\ Given \subseteq Turns!Ids
  <2>1. thread[l] \in TurnOf /\ i \in Given /\ result[i] = "NONE"
    BY DEF Turning, TurnsTyped, OneTurnEach
  <2>2. Given \subseteq Turns!Ids /\ DOMAIN inputs = Given
    BY DEF Turning, TurnsTyped, Given, Turns!Ids, TurnsAreBounded
  <2>3. Turns!Ids \subseteq Turns!Records
    BY DEF Turns!Ids, Turns!Records, TurnsAreBounded
  <2> QED
    BY <2>1, <2>2, <2>3
<1> HIDE DEF i
<1>2. /\ result' = [result EXCEPT ![i] = how] /\ thread' = [thread EXCEPT ![l] = Turns!Free]
      /\ record' = IF l = Talker THEN st
                   ELSE [st EXCEPT ![i] = Turns!Reconciled(st[i], how)]
  BY DEF Turns!Ends, i
<1>3. UNCHANGED <<inputs, queue, talk, overdue>>
  BY DEF Turns!Ends
<1>4. /\ thread'[l] = Turns!Free
      /\ \A m \in Turns!Lanes : m # l => thread'[m] = thread[m]
      /\ DOMAIN thread' = Turns!Lanes /\ thread' = [m \in Turns!Lanes |-> thread'[m]]
  BY <1>2 DEF Turning, TurnsTyped
<1>5. /\ result'[i] = how /\ how # "NONE"
      /\ \A j \in Turns!Ids : j # i => result'[j] = result[j]
      /\ result' \in [Turns!Ids -> Turns!Results]
  BY <1>1, <1>2 DEF Turning, TurnsTyped, Turns!Results
<1>6. /\ record' \in [Turns!Records -> STATES \cup {"ABSENT"}]
      /\ \A j \in Turns!Ids : j # i => record'[j] = record[j]
      /\ record'[i] = "COMPLETED" => how = "OK"
      /\ record'[i] = "FAILED" => how \in {"FAIL", "RAISED"}
  <2>1. CASE l = Talker
    BY <1>1, <1>2, <2>1 DEF Fits, Beginnings, i
  <2>2. CASE l # Talker
    <3> DEFINE s == Turns!Reconciled(st[i], how)
    <3>1. /\ s \in STATES \cup {"ABSENT"}
          /\ s = "COMPLETED" => how = "OK"
          /\ s = "FAILED" => how \in {"FAIL", "RAISED"}
      BY ReconciledIsHonest DEF i
    <3>2. record' = [st EXCEPT ![i] = s]
      BY <1>2, <2>2
    <3> HIDE DEF s
    <3> QED
      BY <1>1, <3>1, <3>2 DEF i
  <2> QED
    BY <2>1, <2>2
<1>7. Turns!Free \in TurnOf /\ Turns!Free.pc = "IDLE"
  BY DEF TurnOf, Turns!Free, Turns!NoQuestion, Turns!Records, TurnsAreBounded, Given
<1>8. Given' = Given /\ TurnOf' = TurnOf
  BY <1>3 DEF Given, TurnOf
<1>9. ASSUME question' \in Turns!Question \cup {Turns!NoQuestion},
             puts' \in [Turns!Ids -> Nat], opened' = opened
      PROVE  TurnsTyped'
  <2>1. thread' \in [Turns!Lanes -> TurnOf]
    <3>1. thread \in [Turns!Lanes -> TurnOf]
      BY DEF Turning, TurnsTyped
    <3> QED
      BY <1>2, <1>7, <3>1
  <2>2. opened' \in Seq([question : Turns!Ids, input : Turns!Ids, late : BOOLEAN])
    BY <1>9 DEF Turning, TurnsTyped
  <2>3. /\ result' \in [Turns!Ids -> Turns!Results]
        /\ record' \in [Turns!Records -> STATES \cup {"ABSENT"}]
    BY <1>5, <1>6
  <2>4. /\ inputs \in Seq(Turns!Requests \cup Turns!SaidTo) /\ Len(inputs) <= MaxInputs
        /\ queue \in Seq(Given) /\ talk \in Seq(Given) /\ overdue \subseteq Turns!Ids
    BY DEF Turning, TurnsTyped
  <2> QED
    BY <1>3, <1>8, <1>9, <2>1, <2>2, <2>3, <2>4 DEF TurnsTyped
<1>10. OneTurnEach'
  <2>1. OneTurnEach
    BY DEF Turning
  <2>2. ASSUME NEW j \in Turns!Ids, j > Len(inputs')
        PROVE  result'[j] = "NONE"
    BY <1>1, <1>3, <1>5, <2>1, <2>2 DEF OneTurnEach, Given, Turns!Ids, TurnsAreBounded
  <2>3. ASSUME NEW k \in DOMAIN queue
        PROVE  result'[queue[k]] = "NONE"
    <3>1. queue[k] \in Given /\ queue[k] # i
      BY <2>1 DEF OneTurnEach, i, Turning, TurnsTyped
    <3> QED
      BY <1>1, <1>5, <2>1, <3>1 DEF OneTurnEach
  <2>4. ASSUME NEW k \in DOMAIN talk
        PROVE  result'[talk[k]] = "NONE"
    <3>1. talk[k] \in Given /\ talk[k] # i
      BY <2>1 DEF OneTurnEach, i, Turning, TurnsTyped
    <3> QED
      BY <1>1, <1>5, <2>1, <3>1 DEF OneTurnEach
  <2>5. ASSUME NEW m \in Turns!Lanes, thread'[m].pc # "IDLE"
        PROVE  m # l /\ thread'[m] = thread[m] /\ result'[thread[m].input] = "NONE"
    <3>1. m # l /\ thread'[m] = thread[m]
      BY <1>4, <1>7, <2>5
    <3>2. thread[m].input # i /\ thread[m].input \in Given
      BY <2>1, <2>5, <3>1 DEF OneTurnEach, i
    <3> QED
      BY <1>1, <1>5, <2>1, <2>5, <3>1, <3>2 DEF OneTurnEach
  <2>6. \A m \in Turns!Lanes : thread'[m].pc = "IDLE" => thread'[m] = Turns!Free
    BY <1>4, <2>1 DEF OneTurnEach
  <2>7. \A m \in Turns!Lanes : thread'[m].pc # "IDLE" =>
          /\ thread'[m].input \in Given /\ result'[thread'[m].input] = "NONE"
          /\ \A k \in DOMAIN queue : queue[k] # thread'[m].input
          /\ \A k \in DOMAIN talk : talk[k] # thread'[m].input
    BY <2>1, <2>5 DEF OneTurnEach
  <2>8. \A m, o \in Turns!Lanes :
          thread'[m].pc # "IDLE" /\ thread'[o].pc # "IDLE"
          /\ thread'[o].input = thread'[m].input => o = m
    BY <2>1, <2>5 DEF OneTurnEach
  <2>9. \A k \in DOMAIN queue :
          /\ \A m \in DOMAIN queue : queue[m] = queue[k] => m = k
          /\ \A m \in DOMAIN talk : talk[m] # queue[k]
    BY <2>1 DEF OneTurnEach
  <2>10. \A k, m \in DOMAIN talk : talk[m] = talk[k] => m = k
    BY <2>1 DEF OneTurnEach
  <2> QED
    BY <1>3, <1>8, <2>2, <2>3, <2>4, <2>6, <2>7, <2>8, <2>9, <2>10 DEF OneTurnEach
<1>11. RecordsFollow'
  BY <1>4, <1>5, <1>6, <1>7 DEF Turning, RecordsFollow
<1>12. Turns!OwnRecordIsHonest'
  BY <1>1, <1>3, <1>5, <1>6 DEF Turning, Turns!OwnRecordIsHonest
<1> QED
  BY <1>1, <1>2, <1>3, <1>4, <1>9, <1>10, <1>11, <1>12 DEF i

\* What has ended has ended.
LEMMA EndedStays ==
    ASSUME TurnsTyped, NEW i \in Turns!Ids, NEW how \in {"REPLIED", "OK", "FAIL", "RAISED"},
           result' = [result EXCEPT ![i] = how]
    PROVE  /\ \A j \in Turns!Ids : result[j] # "NONE" => result'[j] # "NONE"
           /\ result'[i] # "NONE"
  BY DEF TurnsTyped

\* The questions there are, wherever they are, are of inputs.
LEMMA QuestionsAreOfInputs ==
    ASSUME TurnsTyped
    PROVE  /\ question # Turns!NoQuestion =>
                 question \in Turns!Question /\ question.by \in Turns!Ids
           /\ \A m \in Turns!Lanes : thread[m].taken # Turns!NoQuestion =>
                 thread[m].taken \in Turns!Question /\ thread[m].taken.by \in Turns!Ids
<1>1. \A m \in Turns!Lanes : thread[m].taken \in Turns!Question \cup {Turns!NoQuestion}
  BY DEF TurnsTyped, TurnOf
<1>2. question \in Turns!Question \cup {Turns!NoQuestion}
  BY DEF TurnsTyped
<1>3. \A q \in Turns!Question : q.by \in Turns!Ids
  BY DEF Turns!Question
<1> QED
  BY <1>1, <1>2, <1>3

\* Every end of a turn that puts no question.
LEMMA QuietEndTurns ==
    ASSUME TurnsAreBounded, Turning, NEW l \in Turns!Lanes, thread[l].pc # "IDLE",
           NEW how \in {"REPLIED", "OK", "FAIL", "RAISED"},
           NEW st \in [Turns!Records -> STATES \cup {"ABSENT"}], Turns!Ends(l, how, st),
           \A i \in Turns!Ids : i # thread[l].input => st[i] = record[i],
           Fits(st[thread[l].input], how),
           UNCHANGED <<question, puts, opened>>
    PROVE  Turning'
<1>1. /\ thread[l].input \in Turns!Ids
      /\ result' = [result EXCEPT ![thread[l].input] = how]
      /\ thread'[l] = Turns!Free
      /\ \A m \in Turns!Lanes : m # l => thread'[m] = thread[m]
      /\ TurnsTyped' /\ OneTurnEach' /\ RecordsFollow' /\ Turns!OwnRecordIsHonest'
      /\ overdue' = overdue
  <2>1. question' \in Turns!Question \cup {Turns!NoQuestion}
        /\ puts' \in [Turns!Ids -> Nat] /\ opened' = opened
    BY DEF Turning, TurnsTyped
  <2> QED
    BY <2>1, EndsTurns
<1>2. \A j \in Turns!Ids : result[j] # "NONE" => result'[j] # "NONE"
  BY <1>1, EndedStays DEF Turning
<1>3. Turns!Free.taken = Turns!NoQuestion /\ Turns!Free.pc = "IDLE"
      /\ Turns!NoQuestion.by = 0
  BY DEF Turns!Free, Turns!NoQuestion
<1>4. OnePlaceEach'
  <2>1. \A m \in Turns!Lanes : thread'[m].taken # Turns!NoQuestion =>
          m # l /\ thread'[m] = thread[m] /\ thread[m].taken.by # 0
    BY <1>1, <1>3, QuestionsAreOfInputs DEF Turning, Turns!Ids, TurnsAreBounded
  <2> QED
    BY <1>1, <1>3, <2>1 DEF Turning, OnePlaceEach
<1>5. QuestionsAreKnown'
  <2>1. /\ question # Turns!NoQuestion => question.by \in Turns!Ids
        /\ \A m \in Turns!Lanes :
              thread[m].taken # Turns!NoQuestion => thread[m].taken.by \in Turns!Ids
        /\ \A i \in overdue : i \in Turns!Ids
    BY QuestionsAreOfInputs DEF Turning, TurnsTyped
  <2>2. \A m \in Turns!Lanes : thread'[m].taken # Turns!NoQuestion => thread'[m] = thread[m]
    BY <1>1, <1>3
  <2> QED
    BY <1>1, <1>2, <2>1, <2>2 DEF Turning, QuestionsAreKnown
<1>6. OpenedIsOver'
  <2>1. \A m \in Turns!Lanes : thread'[m].pc = "TAKEN" => thread'[m] = thread[m]
    BY <1>1, <1>3
  <2>2. \A k \in DOMAIN opened : opened[k].question \in Turns!Ids
    BY OpenedWereAsked DEF Turning
  <2> QED
    BY <1>2, <2>1, <2>2 DEF Turning, OpenedIsOver
<1>7. Turns!AnswersAreBound' /\ Turns!PutAtMostTwice'
  BY DEF Turning, Turns!AnswersAreBound, Turns!PutAtMostTwice
<1> QED
  BY <1>1, <1>4, <1>5, <1>6, <1>7 DEF Turning

\* A change to the record of a file asked for by name is to no input's own.
LEMMA NamedFileIsApart ==
    ASSUME TurnsAreBounded, Turning, NEW l \in Turns!Lanes, thread[l].pc # "IDLE",
           NEW s \in STATES \cup {"ABSENT"}, NEW how,
           NEW st, st \in {record, [record EXCEPT ![Turns!NamedFile] = s]}
    PROVE  /\ st \in [Turns!Records -> STATES \cup {"ABSENT"}]
           /\ \A i \in Turns!Ids : st[i] = record[i]
           /\ thread[l].input \in Turns!Ids
           /\ Fits(st[thread[l].input], how)
<1>1. /\ thread[l].input \in Turns!Ids /\ result[thread[l].input] = "NONE"
  <2>1. thread[l].input \in Given /\ result[thread[l].input] = "NONE"
    BY DEF Turning, OneTurnEach
  <2>2. Given \subseteq Turns!Ids
    BY DEF Turning, TurnsTyped, Given, Turns!Ids, TurnsAreBounded
  <2> QED
    BY <2>1, <2>2
<1>2. st \in [Turns!Records -> STATES \cup {"ABSENT"}]
  BY DEF Turning, TurnsTyped
<1>3. \A i \in Turns!Ids : st[i] = record[i]
  <2>1. \A i \in Turns!Ids : i # Turns!NamedFile /\ i \in Turns!Records
    BY DEF Turns!Ids, Turns!NamedFile, Turns!Records, TurnsAreBounded
  <2>2. record \in [Turns!Records -> STATES \cup {"ABSENT"}]
    BY DEF Turning, TurnsTyped
  <2> QED
    BY <2>1, <2>2
<1> QED
  BY <1>1, <1>2, <1>3 DEF Turning, RecordsFollow, Fits, Beginnings

LEMMA ReplyTurns ==
    ASSUME TurnsAreBounded, Turning, NEW l \in Turns!Lanes,
           \/ Turns!NotFound(l) \/ Turns!Unique(l) \/ Turns!NeverMind(l)
           \/ Turns!Converse(l) \/ Turns!Withdraw(l)
    PROVE  Turning'
<1>1. /\ thread[l].pc # "IDLE" /\ UNCHANGED <<question, puts, opened>>
      /\ \E how \in {"REPLIED", "RAISED"} :
            \/ Turns!Ends(l, how, record)
            \/ Turns!Ends(l, how, [record EXCEPT ![Turns!NamedFile] =
                                      Turns!Moved(record[Turns!NamedFile], "CANCELLED")])
  BY DEF Turns!NotFound, Turns!Unique, Turns!NeverMind, Turns!Converse, Turns!Withdraw,
         Turns!Resolves, Turns!Answers, Turns!Turn
<1>2. Turns!Moved(record[Turns!NamedFile], "CANCELLED") \in STATES \cup {"ABSENT"}
  <2>1. Turns!NamedFile \in Turns!Records
    BY DEF Turns!NamedFile, Turns!Records, TurnsAreBounded
  <2> QED
    BY <2>1 DEF Turning, TurnsTyped, Turns!Moved, STATES
<1>3. PICK how \in {"REPLIED", "RAISED"},
           st \in {record, [record EXCEPT ![Turns!NamedFile] =
                               Turns!Moved(record[Turns!NamedFile], "CANCELLED")]} :
        Turns!Ends(l, how, st)
  BY <1>1
<1>4. /\ st \in [Turns!Records -> STATES \cup {"ABSENT"}]
      /\ \A i \in Turns!Ids : st[i] = record[i]
      /\ Fits(st[thread[l].input], how)
  BY <1>1, <1>2, <1>3, NamedFileIsApart
<1> QED
  BY <1>1, <1>3, <1>4, QuietEndTurns

LEMMA FinishTurns ==
    ASSUME TurnsAreBounded, Turning, NEW l \in Turns!Lanes, NEW how \in {"OK", "FAIL"},
           Turns!Finish(l, how)
    PROVE  Turning'
<1> DEFINE r == thread[l].record
           i == thread[l].input
           s == Turns!Moved(record[r], IF how = "OK" THEN "COMPLETED" ELSE "FAILED")
           st == [record EXCEPT ![r] = s]
<1>1. /\ thread[l].pc = "RUN" /\ UNCHANGED <<question, puts, opened>>
      /\ Turns!Ends(l, how, st)
  BY DEF Turns!Finish
<1>2. /\ r \in {Turns!NamedFile, Turns!Registered, i} /\ r \in Turns!Records
      /\ i \in Turns!Ids /\ result[i] = "NONE"
  <2>1. r \in {Turns!NamedFile, Turns!Registered, i} /\ r \in Turns!Records
        /\ i \in Given /\ result[i] = "NONE"
    BY <1>1 DEF Turning, TurnsTyped, TurnOf, OneTurnEach, RecordsFollow
  <2>2. Given \subseteq Turns!Ids
    BY DEF Turning, TurnsTyped, Given, Turns!Ids, TurnsAreBounded
  <2> QED
    BY <2>1, <2>2
<1> HIDE DEF r, i
<1>3. /\ s \in {record[r], IF how = "OK" THEN "COMPLETED" ELSE "FAILED"}
      /\ s \in STATES \cup {"ABSENT"}
  BY <1>2 DEF Turns!Moved, Turning, TurnsTyped, STATES
<1>4. i # Turns!NamedFile /\ i # Turns!Registered /\ Turns!NamedFile \notin Turns!Ids
      /\ Turns!Registered \notin Turns!Ids
  BY <1>2 DEF Turns!NamedFile, Turns!Registered, Turns!Ids, TurnsAreBounded
<1> HIDE DEF s
<1>5. /\ st \in [Turns!Records -> STATES \cup {"ABSENT"}]
      /\ \A j \in Turns!Ids : j # i => st[j] = record[j]
  BY <1>2, <1>3, <1>4 DEF Turning, TurnsTyped
<1>6. Fits(st[i], how)
  <2>1. record[i] \in Beginnings
    BY <1>2 DEF Turning, RecordsFollow, Beginnings
  <2>2. CASE r = i
    <3>1. st[i] = s
      BY <1>2, <2>2 DEF Turning, TurnsTyped
    <3> QED
      BY <1>3, <2>1, <2>2, <3>1 DEF Fits
  <2>3. CASE r # i
    <3>1. st[i] = record[i]
      BY <1>2, <2>3 DEF Turning, TurnsTyped
    <3> QED
      BY <2>1, <3>1 DEF Fits
  <2> QED
    BY <2>2, <2>3
<1> HIDE DEF st
<1> QED
  BY <1>1, <1>5, <1>6, QuietEndTurns DEF i

\* A question put for the first time is of an input that had not ended.
LEMMA AskTurns ==
    ASSUME TurnsAreBounded, Turning, NEW l \in Turns!Lanes, NEW n \in 2..MaxPlaces,
           Turns!Ask(l, n)
    PROVE  Turning'
<1> DEFINE i == thread[l].input
           s == Turns!Moved(Turns!Created(Turns!NamedFile), "WAITING_FOR_USER")
           st == [record EXCEPT ![Turns!NamedFile] = s]
<1>1. /\ thread[l].pc # "IDLE" /\ opened' = opened /\ Turns!Ends(l, "REPLIED", st)
      /\ question' = [by |-> i, places |-> n, asks |-> 1, aged |-> FALSE]
      /\ puts' = [puts EXCEPT ![i] = 1]
  BY DEF Turns!Ask, Turns!Resolves, Turns!Turn
<1>2. s \in STATES \cup {"ABSENT"}
  <2>1. Turns!NamedFile \in Turns!Records
    BY DEF Turns!NamedFile, Turns!Records, TurnsAreBounded
  <2> QED
    BY <2>1 DEF Turning, TurnsTyped, Turns!Moved, Turns!Created, STATES
<1> HIDE DEF s
<1>3. /\ st \in [Turns!Records -> STATES \cup {"ABSENT"}]
      /\ \A j \in Turns!Ids : st[j] = record[j]
      /\ i \in Turns!Ids /\ Fits(st[i], "REPLIED")
  BY <1>1, <1>2, NamedFileIsApart
<1> HIDE DEF st
<1>4. /\ question' \in Turns!Question /\ question' # Turns!NoQuestion
      /\ question'.by = i /\ question'.asks = 1 /\ ~ question'.aged
  BY <1>1, <1>3 DEF Turns!Question, Turns!NoQuestion, Turns!Ids, TurnsAreBounded
<1>5. /\ puts' \in [Turns!Ids -> Nat] /\ puts'[i] = 1
      /\ \A j \in Turns!Ids : j # i => puts'[j] = puts[j]
  BY <1>1, <1>3 DEF Turning, TurnsTyped
<1>6. /\ result[i] = "NONE" /\ result' = [result EXCEPT ![i] = "REPLIED"]
      /\ thread'[l] = Turns!Free
      /\ \A m \in Turns!Lanes : m # l => thread'[m] = thread[m]
      /\ TurnsTyped' /\ OneTurnEach' /\ RecordsFollow' /\ Turns!OwnRecordIsHonest'
      /\ overdue' = overdue
  <2>1. /\ question' \in Turns!Question \cup {Turns!NoQuestion}
        /\ \A j \in Turns!Ids : j # i => st[j] = record[j]
    BY <1>3, <1>4
  <2>2. /\ thread[l].pc # "IDLE" /\ Turns!Ends(l, "REPLIED", st)
        /\ st \in [Turns!Records -> STATES \cup {"ABSENT"}]
        /\ \A j \in Turns!Ids : j # thread[l].input => st[j] = record[j]
        /\ Fits(st[thread[l].input], "REPLIED")
    BY <1>1, <1>3
  <2>3. puts' \in [Turns!Ids -> Nat] /\ opened' = opened
    BY <1>1, <1>5
  <2>4. /\ result[thread[l].input] = "NONE"
        /\ result' = [result EXCEPT ![thread[l].input] = "REPLIED"]
        /\ thread'[l] = Turns!Free
        /\ \A m \in Turns!Lanes : m # l => thread'[m] = thread[m]
        /\ question' \in Turns!Question \cup {Turns!NoQuestion}
           /\ puts' \in [Turns!Ids -> Nat] /\ opened' = opened => TurnsTyped'
        /\ OneTurnEach' /\ RecordsFollow' /\ Turns!OwnRecordIsHonest'
        /\ overdue' = overdue
    <3> HIDE DEF i
    <3> QED
      BY <2>2, EndsTurns
  <2> QED
    BY <2>1, <2>3, <2>4
<1>7. /\ \A j \in Turns!Ids : result[j] # "NONE" => result'[j] # "NONE" /\ j # i
      /\ result'[i] # "NONE"
  BY <1>3, <1>6, EndedStays DEF Turning
<1>8. Turns!Free.taken = Turns!NoQuestion /\ Turns!Free.pc = "IDLE"
      /\ Turns!NoQuestion.by = 0
  BY DEF Turns!Free, Turns!NoQuestion
<1>9. \A m \in Turns!Lanes : thread'[m].taken # Turns!NoQuestion =>
        /\ m # l /\ thread'[m] = thread[m]
        /\ thread[m].taken.by \in Turns!Ids /\ result[thread[m].taken.by] # "NONE"
        /\ thread[m].taken.by # i
  BY <1>6, <1>7, <1>8, QuestionsAreOfInputs DEF Turning, QuestionsAreKnown
<1>10. OnePlaceEach'
  <2>1. ASSUME NEW m \in Turns!Lanes, NEW o \in Turns!Lanes,
               thread'[m].taken # Turns!NoQuestion, thread'[o].taken.by = thread'[m].taken.by
        PROVE  o = m
    <3>1. o # l
      BY <1>6, <1>8, <1>9, <2>1 DEF Turns!Ids, TurnsAreBounded
    <3> QED
      BY <1>6, <1>9, <2>1, <3>1 DEF Turning, OnePlaceEach
  <2> QED
    BY <1>4, <1>9, <2>1 DEF OnePlaceEach
<1>11. QuestionsAreKnown'
  <2>1. i \notin overdue /\ \A j \in overdue : j \in Turns!Ids
    BY <1>6 DEF Turning, TurnsTyped, QuestionsAreKnown
  <2>2. \A j \in overdue' : result'[j] # "NONE"
    BY <1>6, <1>7, <2>1 DEF Turning, QuestionsAreKnown
  <2>3. question'.aged <=> question'.by \in overdue'
    BY <1>4, <1>6, <2>1
  <2>4. ASSUME NEW m \in Turns!Lanes, thread'[m].taken # Turns!NoQuestion
        PROVE  /\ result'[thread'[m].taken.by] # "NONE"
               /\ puts'[thread'[m].taken.by] = thread'[m].taken.asks
               /\ thread'[m].taken.aged <=> thread'[m].taken.by \in overdue'
               /\ ~ thread'[m].late
    BY <1>5, <1>6, <1>7, <1>9, <2>4 DEF Turning, QuestionsAreKnown
  <2> QED
    BY <1>4, <1>5, <1>7, <2>2, <2>3, <2>4 DEF QuestionsAreKnown
<1>12. OpenedIsOver'
  <2>1. \A m \in Turns!Lanes : thread'[m].pc = "TAKEN" => thread'[m] = thread[m]
    BY <1>6, <1>8
  <2>2. \A k \in DOMAIN opened : opened[k].question \in Turns!Ids
    BY OpenedWereAsked DEF Turning
  <2> QED
    BY <1>1, <1>4, <1>7, <2>1, <2>2 DEF Turning, OpenedIsOver
<1>13. Turns!AnswersAreBound' /\ Turns!PutAtMostTwice'
  <2>1. Turns!PutAtMostTwice'
    BY <1>5 DEF Turning, Turns!PutAtMostTwice, TurnsAreBounded
  <2> QED
    BY <1>1, <2>1 DEF Turning, Turns!AnswersAreBound
<1> QED
  BY <1>6, <1>10, <1>11, <1>12, <1>13 DEF Turning

\* A question put again is one that only this thread had, and not for the last
\* time that it may be put.
LEMMA AskAgainTurns ==
    ASSUME TurnsAreBounded, Turning, NEW l \in Turns!Lanes, Turns!AskAgain(l)
    PROVE  Turning'
<1> DEFINE q == thread[l].taken
           i == thread[l].input
<1>1. /\ thread[l].pc = "TAKEN" /\ q # Turns!NoQuestion /\ opened' = opened
      /\ Turns!Ends(l, "REPLIED", record)
  BY DEF Turns!AskAgain, Turns!Answers, Turns!Turn
<1>2. /\ record \in [Turns!Records -> STATES \cup {"ABSENT"}]
      /\ i \in Turns!Ids /\ Fits(record[i], "REPLIED")
  BY <1>1, NamedFileIsApart DEF Turning, TurnsTyped
<1>3. CASE Turns!Exhausted(q)
  BY <1>1, <1>2, <1>3, QuietEndTurns DEF Turns!AskAgain
<1>4. CASE ~ Turns!Exhausted(q)
  <2>1. /\ question' = [q EXCEPT !.asks = q.asks + 1]
        /\ puts' = [puts EXCEPT ![q.by] = puts[q.by] + 1]
    BY <1>4 DEF Turns!AskAgain, Turns!Again
  <2>2. /\ q \in Turns!Question /\ q.by \in Turns!Ids /\ q.asks \in 1..MaxAsks
        /\ q.asks < MaxAsks
    <3>1. q \in Turns!Question /\ q.by \in Turns!Ids
      BY <1>1, QuestionsAreOfInputs DEF Turning
    <3>2. q.asks \in 1..MaxAsks
      BY <3>1 DEF Turns!Question
    <3> QED
      BY <1>4, <3>1, <3>2 DEF Turns!Exhausted, TurnsAreBounded
  <2>3. /\ result[q.by] # "NONE" /\ puts[q.by] = q.asks
        /\ q.aged <=> q.by \in overdue
        /\ \A m \in Turns!Lanes : thread[m].taken.by = q.by => m = l
        /\ \A k \in DOMAIN opened : q.by # opened[k].question
    BY <1>1 DEF Turning, QuestionsAreKnown, OnePlaceEach, OpenedIsOver
  <2>4. /\ question' \in Turns!Question /\ question'.by = q.by
        /\ question'.asks = q.asks + 1 /\ question'.aged = q.aged
        /\ question' # Turns!NoQuestion
    <3>1. q = [by |-> q.by, places |-> q.places, asks |-> q.asks, aged |-> q.aged]
          /\ q.places \in 2..MaxPlaces /\ q.aged \in BOOLEAN
      BY <2>2 DEF Turns!Question
    <3> HIDE DEF q
    <3>2. question' = [by |-> q.by, places |-> q.places, asks |-> q.asks + 1,
                       aged |-> q.aged]
      BY <2>1, <3>1
    <3>3. q.asks + 1 \in 1..MaxAsks
      BY <2>2 DEF TurnsAreBounded
    <3> QED
      BY <2>2, <3>1, <3>2, <3>3 DEF Turns!Question, Turns!NoQuestion
  <2>5. /\ puts' \in [Turns!Ids -> Nat] /\ puts'[q.by] = q.asks + 1
        /\ \A j \in Turns!Ids : j # q.by => puts'[j] = puts[j]
    BY <2>1, <2>2, <2>3 DEF Turning, TurnsTyped
  <2> HIDE DEF q, i
  <2>6. /\ result' = [result EXCEPT ![i] = "REPLIED"]
        /\ thread'[l] = Turns!Free
        /\ \A m \in Turns!Lanes : m # l => thread'[m] = thread[m]
        /\ TurnsTyped' /\ OneTurnEach' /\ RecordsFollow' /\ Turns!OwnRecordIsHonest'
        /\ overdue' = overdue
    BY <1>1, <1>2, <2>4, <2>5, EndsTurns DEF i
  <2>7. \A j \in Turns!Ids : result[j] # "NONE" => result'[j] # "NONE"
    BY <1>2, <2>6, EndedStays DEF Turning
  <2>8. Turns!Free.taken = Turns!NoQuestion /\ Turns!Free.pc = "IDLE"
        /\ Turns!NoQuestion.by = 0
    BY DEF Turns!Free, Turns!NoQuestion
  <2>9. \A m \in Turns!Lanes : thread'[m].taken # Turns!NoQuestion =>
          /\ m # l /\ thread'[m] = thread[m]
          /\ thread[m].taken.by \in Turns!Ids /\ result[thread[m].taken.by] # "NONE"
          /\ thread[m].taken.by # q.by
    BY <2>3, <2>6, <2>8, QuestionsAreOfInputs DEF Turning, QuestionsAreKnown
  <2>10. OnePlaceEach'
    <3>1. ASSUME NEW m \in Turns!Lanes, NEW o \in Turns!Lanes,
                 thread'[m].taken # Turns!NoQuestion,
                 thread'[o].taken.by = thread'[m].taken.by
          PROVE  o = m
      <4>1. o # l
        BY <2>6, <2>8, <2>9, <3>1 DEF Turns!Ids, TurnsAreBounded
      <4> QED
        BY <2>6, <2>9, <3>1, <4>1 DEF Turning, OnePlaceEach
    <3> QED
      BY <2>4, <2>9, <3>1 DEF OnePlaceEach
  <2>11. QuestionsAreKnown'
    <3>1. \A j \in overdue' : result'[j] # "NONE"
      BY <2>6, <2>7 DEF Turning, TurnsTyped, QuestionsAreKnown
    <3>2. question'.aged <=> question'.by \in overdue'
      BY <2>3, <2>4, <2>6
    <3>3. ASSUME NEW m \in Turns!Lanes, thread'[m].taken # Turns!NoQuestion
          PROVE  /\ result'[thread'[m].taken.by] # "NONE"
                 /\ puts'[thread'[m].taken.by] = thread'[m].taken.asks
                 /\ thread'[m].taken.aged <=> thread'[m].taken.by \in overdue'
                 /\ ~ thread'[m].late
      BY <2>5, <2>6, <2>7, <2>9, <3>3 DEF Turning, QuestionsAreKnown
    <3>4. result'[question'.by] # "NONE" /\ puts'[question'.by] = question'.asks
      BY <2>2, <2>3, <2>4, <2>5, <2>7
    <3> QED
      BY <3>1, <3>2, <3>3, <3>4 DEF QuestionsAreKnown
  <2>12. OpenedIsOver'
    <3>1. \A m \in Turns!Lanes : thread'[m].pc = "TAKEN" => thread'[m] = thread[m]
      BY <2>6, <2>8
    <3>2. \A k \in DOMAIN opened : opened[k].question \in Turns!Ids
      BY OpenedWereAsked DEF Turning
    <3> QED
      BY <1>1, <2>3, <2>4, <2>7, <3>1, <3>2 DEF Turning, OpenedIsOver
  <2>13. Turns!AnswersAreBound' /\ Turns!PutAtMostTwice'
    <3>1. Turns!PutAtMostTwice'
      BY <2>2, <2>5 DEF Turning, Turns!PutAtMostTwice, TurnsAreBounded
    <3> QED
      BY <1>1, <3>1 DEF Turning, Turns!AnswersAreBound
  <2> QED
    BY <2>6, <2>10, <2>11, <2>12, <2>13 DEF Turning
<1> QED
  BY <1>3, <1>4

LEMMA IdleTurns ==
    ASSUME Turning, UNCHANGED Turns!vars
    PROVE  Turning'
<1>1. UNCHANGED <<inputs, queue, talk, question, thread, record, result, puts, overdue,
                  opened>>
  BY DEF Turns!vars, Turns!turns, Turns!history
<1> QED
  BY <1>1
  DEF Turning, TurnsTyped, OneTurnEach, OnePlaceEach, QuestionsAreKnown, OpenedIsOver,
      RecordsFollow, Given, TurnOf, Turns!AnswersAreBound, Turns!PutAtMostTwice,
      Turns!OwnRecordIsHonest

LEMMA TurningStep ==
    ASSUME TurnsAreBounded, RepliesAreSaid, Turning, [Turns!Next]_(Turns!vars)
    PROVE  Turning'
<1>1. ASSUME NEW l \in Turns!Lanes, Turns!Goes(l)
      PROVE  Turning'
  BY <1>1, RunTurns, ReplyTurns, AskTurns, PickTurns, AskAgainTurns, FinishTurns
  DEF Turns!Goes
<1> QED
  BY <1>1, DispatchTurns, SayTurns, GrowOldTurns, WorkTurns, TalkTurns, IdleTurns
  DEF Turns!Next

LEMMA TurnsSoundness ==
    TurnsAreBounded /\ RepliesAreSaid /\ Turns!Spec => []Turning
<1> SUFFICES ASSUME TurnsAreBounded, RepliesAreSaid
             PROVE  Turns!Spec => []Turning
  OBVIOUS
<1>1. Turns!Init => Turning
  BY TurningInit
<1>2. Turning /\ [Turns!Next]_(Turns!vars) => Turning'
  BY TurningStep
<1> QED
  BY <1>1, <1>2, PTL DEF Turns!Spec

\* For every number of threads, inputs, places and repetitions: a question leads
\* to one run at most, and to none when its turn began too late (session.py,
\* submit and _background_run).
THEOREM AnswersBound ==
    TurnsAreBounded /\ RepliesAreSaid /\ Turns!Spec => []AnswersAreBound
<1>1. Turning => AnswersAreBound
  BY DEF Turning, Turns!AnswersAreBound, AnswersAreBound
<1> QED
  BY <1>1, TurnsSoundness, PTL

\* For every number of threads, inputs, places and repetitions: no question is
\* put more often than it may be (session.py, _ask).
THEOREM PutsBounded ==
    TurnsAreBounded /\ RepliesAreSaid /\ Turns!Spec => []PutAtMostTwice
<1>1. Turning => PutAtMostTwice
  BY DEF Turning, Turns!PutAtMostTwice, Turns!Ids, PutAtMostTwice, Ids
<1> QED
  BY <1>1, TurnsSoundness, PTL

\* For every number of threads, inputs, places and repetitions: the record of a
\* request says COMPLETED after a verified run only, and FAILED only after
\* one that was not (session.py, _background_run).
THEOREM RecordsHonest ==
    TurnsAreBounded /\ RepliesAreSaid /\ Turns!Spec => []OwnRecordIsHonest
<1>1. Turning => OwnRecordIsHonest
  BY DEF Turning, Turns!OwnRecordIsHonest, OwnRecordIsHonest
<1> QED
  BY <1>1, TurnsSoundness, PTL

=============================================================================
