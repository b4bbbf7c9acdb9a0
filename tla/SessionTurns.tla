------------------------------ MODULE SessionTurns ------------------------------
(***************************************************************************)
(* The turns of a Session (agent_control/session.py): what the console's   *)
(* submit_background does with an input, and what submit does with it in   *)
(* a lane.  Requests go to a pool of workers, conversation to a lane of    *)
(* its own, and all of them share one question: a request for a file that  *)
(* is in several places leaves a Pending behind, and whichever turn starts *)
(* next takes it.  The runs themselves, approvals and compound requests    *)
(* are those of RunnerLoop, ApprovalSession and WorkflowGraph.             *)
(*                                                                         *)
(* A request is what its text says after normalize and classify_intent; a  *)
(* reply, an index, if it names one, and a word that declines.  Taking the *)
(* question is one step: the statement calls nothing in between.           *)
(***************************************************************************)
EXTENDS TurnPromises, TaskStates, Naturals, Sequences

CONSTANTS
    Workers,      \* the threads of the background executor
    Talker,       \* the thread of the conversation executor
    Replies,      \* what a person says to a question
    MaxPlaces     \* places a file is found in, at most (limit)

ASSUME TurnsAssumption ==
    /\ Talker \notin Workers
    /\ Replies \subseteq [names : Nat, says : {"", "DROP", "NO"}]
    /\ MaxInputs \in Nat /\ MaxPlaces \in Nat \ {0, 1} /\ MaxAsks \in Nat \ {0}

VARIABLES
    queue,     \* the background executor's queue
    talk,      \* the conversation executor's queue
    pending,   \* session.pending, with no choices if there is none
    lane,      \* of each thread: the turn it works on
    recent,    \* the file asked for was the last one verified
    overdue    \* history: questions first put longer ago than ttl_s
\* The other variables are those of TurnPromises.
turns == <<queue, talk, lane>>
history == <<result, puts, overdue, opened>>
vars == <<inputs, turns, pending, record, recent, history>>

Lanes == Workers \cup {Talker}

\* The records of the registry: a background input's own, and those a run has
\* under the name of its workflow.
NamedFile == 0
Registered == MaxInputs + 1
Records == 0..(MaxInputs + 1)

Requests == [kind : {"NAMED", "REGISTERED", "GENERAL", "NEVERMIND"}]
SaidTo == [kind : {"REPLY"}, names : Nat, says : {"", "DROP", "NO"}]

\* A Pending; by is the input that made the session ask.
Question == [by : Ids, places : 2..MaxPlaces, asks : 1..MaxAsks, aged : BOOLEAN]
NoQuestion == [by |-> 0, places |-> 0, asks |-> 0, aged |-> FALSE]

\* late: history, whether the question taken was overdue then.
Free == [pc |-> "IDLE", input |-> 0, taken |-> NoQuestion, record |-> 0, late |-> FALSE]

Results == {"NONE", "REPLIED", "OK", "FAIL", "RAISED"}

TypeOK ==
    /\ Len(inputs) <= MaxInputs
    /\ \A i \in DOMAIN inputs : inputs[i] \in Requests \cup SaidTo
    /\ pending \in Question \cup {NoQuestion}
    /\ \A l \in Lanes :
          /\ lane[l].pc \in {"IDLE", "TAKEN", "RUN"}
          /\ lane[l].input \in 0..Len(inputs) /\ lane[l].record \in Records
          /\ lane[l].taken \in Question \cup {NoQuestion} /\ lane[l].late \in BOOLEAN
    /\ record \in [Records -> STATES \cup {"ABSENT"}]
    /\ recent \in BOOLEAN
    /\ result \in [Ids -> Results] /\ overdue \subseteq Ids
    \* A question is in one place only.
    /\ \A l, m \in Lanes : lane[l].taken # NoQuestion =>
          /\ pending.by # lane[l].taken.by
          /\ l # m => lane[m].taken.by # lane[l].taken.by

Init ==
    /\ inputs = <<>> /\ queue = <<>> /\ talk = <<>>
    /\ pending = NoQuestion
    /\ lane = [l \in Lanes |-> Free]
    /\ record = [r \in Records |-> "ABSENT"]
    /\ recent = FALSE
    /\ result = [i \in Ids |-> "NONE"] /\ puts = [i \in Ids |-> 0]
    /\ overdue = {} /\ opened = <<>>

-----------------------------------------------------------------------------
(* The console: submit_background.                                         *)

\* A request gets a record of its own and goes to the workers' queue.
Dispatch(request) ==
    /\ Len(inputs) < MaxInputs /\ inputs' = Append(inputs, request)
    /\ queue' = Append(queue, Len(inputs'))
    /\ record' = [record EXCEPT ![Len(inputs')] = "CREATED"]
    /\ UNCHANGED <<talk, lane, pending, recent, history>>

\* What asks for no action is conversation here, whether or not the session
\* waits for an answer.
Say(reply) ==
    /\ Len(inputs) < MaxInputs
    /\ inputs' = Append(inputs, [kind |-> "REPLY", names |-> reply.names, says |-> reply.says])
    /\ talk' = Append(talk, Len(inputs'))
    /\ UNCHANGED <<queue, lane, pending, record, recent, history>>

\* More than ttl_s has gone by since asked_at.
GrowOld ==
    /\ UNCHANGED <<inputs, queue, talk, record, recent, result, puts, opened>>
    /\ \/ /\ pending # NoQuestion /\ ~ pending.aged
          /\ pending' = [pending EXCEPT !.aged = TRUE]
          /\ overdue' = overdue \cup {pending.by} /\ UNCHANGED lane
       \/ \E l \in Lanes :
          /\ lane[l].taken # NoQuestion /\ ~ lane[l].taken.aged
          /\ lane' = [lane EXCEPT ![l].taken.aged = TRUE]
          /\ overdue' = overdue \cup {lane[l].taken.by} /\ UNCHANGED pending

-----------------------------------------------------------------------------
(* A turn in a lane: submit.                                               *)

Moved(from, to) == IF Reaches(from, to) THEN to ELSE from

\* create_task keeps a record that is there.
Created(r) == IF record[r] = "ABSENT" THEN "CREATED" ELSE record[r]

\* On the first line, whatever the turn turns out to be.
Take(q) == pending' = NoQuestion

\* An expired question is dropped once it has been taken.
Begin(l, i) ==
    /\ lane' = [lane EXCEPT ![l] =
          [Free EXCEPT !.pc = "TAKEN", !.input = i, !.late = pending.by \in overdue,
                       !.taken = IF pending.aged THEN NoQuestion ELSE pending]]
    /\ Take(pending)
    /\ UNCHANGED <<inputs, record, recent, history>>

Work(w) ==
    /\ lane[w].pc = "IDLE" /\ queue # <<>>
    /\ queue' = Tail(queue) /\ UNCHANGED talk
    /\ Begin(w, Head(queue))

Talk ==
    /\ lane[Talker].pc = "IDLE" /\ talk # <<>>
    /\ talk' = Tail(talk) /\ UNCHANGED queue
    /\ Begin(Talker, Head(talk))

\* Mutant: a turn that ran nothing counts as one that went well.
ReconciledAsDone(s, how) ==
    IF s = "CREATED" /\ how = "REPLIED" THEN "COMPLETED"
    ELSE IF how \in {"FAIL", "RAISED"} THEN "FAILED" ELSE "COMPLETED"

\* What _background_run makes of the input's record when submit is done.
Reconciled(s, how) ==
    CASE how = "RAISED" -> IF s \in {"COMPLETED", "FAILED", "CANCELLED"} THEN s ELSE Moved(s, "FAILED")
      [] how # "RAISED" /\ s # "CREATED" -> s
      [] how = "REPLIED" /\ s = "CREATED" -> "RUNNING"
      [] how = "OK" /\ s = "CREATED" -> "COMPLETED"
      [] how = "FAIL" /\ s = "CREATED" -> "FAILED"

\* The turn is over; st is the registry as submit leaves it.
Ends(l, how, st) ==
    LET i == lane[l].input IN
    /\ result' = [result EXCEPT ![i] = how]
    /\ record' = IF l = Talker THEN st ELSE [st EXCEPT ![i] = Reconciled(st[i], how)]
    /\ lane' = [lane EXCEPT ![l] = Free]
    /\ UNCHANGED <<inputs, queue, talk, overdue>>

Turn(l, kind) == lane[l].pc = "TAKEN" /\ inputs[lane[l].input].kind = kind
Reply(l) == inputs[lane[l].input]

\* _run: the record it creates, if there is none of that name, is moved to
\* RUNNING if it can be.
Runs(l, r) ==
    /\ lane' = [lane EXCEPT ![l].pc = "RUN", ![l].record = r]
    /\ record' = [record EXCEPT ![r] = Moved(Created(r), "RUNNING")]
    /\ UNCHANGED <<inputs, queue, talk, recent, result, puts, overdue>>

RunRegistered(l) ==
    /\ Turn(l, "REGISTERED") /\ Runs(l, Registered) /\ UNCHANGED <<pending, opened>>

\* Fast routes and general actions run under the input's own record, as does a
\* request that names the file verified last.
RunGeneral(l) ==
    /\ Turn(l, "GENERAL") \/ (Turn(l, "NAMED") /\ recent)
    /\ Runs(l, lane[l].input) /\ UNCHANGED <<pending, opened>>

Resolves(l) == Turn(l, "NAMED") /\ ~ recent

\* resolve_request found no place.
NotFound(l) ==
    /\ Resolves(l) /\ Ends(l, "REPLIED", record)
    /\ UNCHANGED <<pending, recent, puts, opened>>

\* It found one: submit reads an attribute of the pending question, or gives
\* a UserTask a field it does not have.
Unique(l) ==
    /\ Resolves(l) /\ Ends(l, "RAISED", record)
    /\ UNCHANGED <<pending, recent, puts, opened>>

\* _ask: whatever another turn has asked in the meantime is overwritten.
Ask(l, n) ==
    /\ Resolves(l)
    /\ pending' = [by |-> lane[l].input, places |-> n, asks |-> 1, aged |-> FALSE]
    /\ puts' = [puts EXCEPT ![lane[l].input] = 1]
    /\ Ends(l, "REPLIED",
            [record EXCEPT ![NamedFile] = Moved(Created(NamedFile), "WAITING_FOR_USER")])
    /\ UNCHANGED <<recent, opened>>

\* "never mind": a background task of its own, which drops what it took.
NeverMind(l) ==
    /\ Turn(l, "NEVERMIND") /\ Ends(l, "REPLIED", record)
    /\ UNCHANGED <<pending, recent, puts, opened>>

Converse(l) ==
    /\ Turn(l, "REPLY") /\ lane[l].taken = NoQuestion
    /\ Ends(l, "REPLIED", record)
    /\ UNCHANGED <<pending, recent, puts, opened>>

Answers(l) == Turn(l, "REPLY") /\ lane[l].taken # NoQuestion

\* choose, with the second of the module's two definitions of _CANCEL_WORDS,
\* which has no "no", "none" and "neither".
Withdraws(reply) == reply.says = "DROP"
Picks(l) == ~ Withdraws(Reply(l)) /\ Reply(l).names \in 1..lane[l].taken.places

Withdraw(l) ==
    /\ Answers(l) /\ Withdraws(Reply(l))
    /\ Ends(l, "REPLIED", [record EXCEPT ![NamedFile] = Moved(@, "CANCELLED")])
    /\ UNCHANGED <<pending, recent, puts, opened>>

Pick(l) ==
    /\ Answers(l) /\ Picks(l)
    /\ Runs(l, NamedFile)
    /\ opened' = Append(opened, [question |-> lane[l].taken.by, input |-> lane[l].input,
                                 late |-> lane[l].late])
    /\ UNCHANGED pending

\* Mutant: the window starts again.
AgainAfresh(q) == [q EXCEPT !.asks = @ + 1, !.aged = FALSE]

Again(q) == [q EXCEPT !.asks = @ + 1]

\* Mutant: one more.
ExhaustedLater(q) == q.asks > MaxAsks

Exhausted(q) == q.asks >= MaxAsks

\* It names none of the places: the question is put again, in place of any that
\* was put meanwhile, or dropped.
AskAgain(l) ==
    /\ Answers(l) /\ ~ Withdraws(Reply(l)) /\ ~ Picks(l)
    /\ LET q == lane[l].taken IN
       IF Exhausted(q) THEN UNCHANGED <<pending, puts>>
       ELSE pending' = Again(q) /\ puts' = [puts EXCEPT ![q.by] = @ + 1]
    /\ Ends(l, "REPLIED", record)
    /\ UNCHANGED <<recent, opened>>

\* The run returns, or is over because it raised.
Finish(l, how) ==
    LET r == lane[l].record IN
    /\ lane[l].pc = "RUN"
    /\ Ends(l, how, [record EXCEPT ![r] = Moved(@, IF how = "OK" THEN "COMPLETED" ELSE "FAILED")])
    /\ recent' \in IF how # "OK" THEN {recent} ELSE IF r = NamedFile THEN {TRUE} ELSE {recent, FALSE}
    /\ UNCHANGED <<pending, puts, opened>>

Goes(l) ==
    \/ RunRegistered(l) \/ RunGeneral(l)
    \/ NotFound(l) \/ Unique(l) \/ \E n \in 2..MaxPlaces : Ask(l, n)
    \/ NeverMind(l) \/ Converse(l) \/ Withdraw(l) \/ Pick(l) \/ AskAgain(l)
    \/ \E how \in {"OK", "FAIL"} : Finish(l, how)

Next ==
    \/ \E r \in Requests : Dispatch(r)
    \/ \E r \in Replies : Say(r)
    \/ GrowOld
    \/ \E w \in Workers : Work(w)
    \/ Talk
    \/ \E l \in Lanes : Goes(l)

Spec == Init /\ [][Next]_vars

=============================================================================
