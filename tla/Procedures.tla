------------------------------- MODULE Procedures -------------------------------
(***************************************************************************)
(* Learned procedures: procedure_store.py, procedure_extractor.py,         *)
(* procedure_validation.py, procedure_retrieval.py, procedure_execution.py *)
(* and their callers in session.py and api.py.                             *)
(*                                                                         *)
(* A verified workflow leaves a CANDIDATE row; calls of validate_and_      *)
(* promote and assess_health move the row along its life cycle; a request  *)
(* that matches one ACTIVE row has its steps executed in place of a plan.  *)
(* The store is one SQLite file.  Every statement is a transaction of its  *)
(* own, so what set_status checked may have changed when it writes, and a  *)
(* process may die between any two.  A connection serves only the thread   *)
(* that opened it; a session keeps the one its first learning thread       *)
(* opened.                                                                 *)
(*                                                                         *)
(* Left out: parameters and conditions (a match binds and applies, or it   *)
(* does not), versions after the first and RETIRED, which no code asks     *)
(* for, and the events of a validation except the grant of a promotion.    *)
(***************************************************************************)
EXTENDS Naturals, Sequences, FiniteSets

CONSTANTS
    Procs,     \* the procedures workflows amount to
    Steps,     \* the kinds of the actions of each, which are its name too
    Sound,     \* those whose definition is reusable
    Threads,   \* the lanes of a session
    Judges     \* callers of the validator, with connections of their own

ASSUME ProcsAssumption ==
    /\ DOMAIN Steps = Procs /\ Sound \subseteq Procs
    /\ \A p \in Procs : Len(Steps[p]) \in Nat \ {0}

Nobody == "nobody"

ASSUME NobodyAssumption == Nobody \notin Threads \cup Procs

VARIABLES
    status,   \* of the row of each procedure, "NONE" if there is none
    waived,   \* rows with a step that asks for no verification
    harmed,   \* rows whose failure or unknown count reached the threshold
    noted,    \* rows with a PROMOTION_GRANTED event
    owner,    \* the thread whose connection the session keeps
    call,     \* of each judge: what it has still to write
    lane,     \* of each thread: the request it serves
    proven,   \* history: procedures whose workflow was verified throughout
    granted   \* history: procedures a validation passed

rows == <<status, waived, harmed, noted>>
vars == <<rows, owner, call, lane, proven, granted>>

Statuses == {"CANDIDATE", "VALIDATING", "ACTIVE", "DEGRADED", "INVALIDATED"}

\* _ALLOWED_TRANSITIONS.
Allowed ==
    {<<"CANDIDATE", "VALIDATING">>, <<"CANDIDATE", "INVALIDATED">>,
     <<"VALIDATING", "ACTIVE">>, <<"VALIDATING", "CANDIDATE">>, <<"VALIDATING", "INVALIDATED">>,
     <<"ACTIVE", "DEGRADED">>, <<"ACTIVE", "INVALIDATED">>,
     <<"DEGRADED", "ACTIVE">>, <<"DEGRADED", "INVALIDATED">>}

\* What is left of a judge's call: the statuses to set, each checked and then
\* written, or set only IF the row is still VALIDATING, and the grant to note.
Ops == {"CHECK", "WRITE", "IF", "NOTE"} \X (Statuses \cup {"GRANTED"})

\* acted: history, whether an action was executed for the request.
Free == [pc |-> "IDLE", proc |-> Nobody, next |-> 1, acted |-> FALSE]

TypeOK ==
    /\ status \in [Procs -> Statuses \cup {"NONE"}]
    /\ \A p \in Procs : status[p] = "NONE" => p \notin waived \cup harmed \cup noted
    /\ {waived, harmed, noted, proven, granted} \subseteq SUBSET Procs
    /\ owner \in Threads \cup {Nobody}
    /\ call \in [Judges -> [proc : Procs \cup {Nobody}, todo : Seq(Ops)]]
    /\ lane \in [Threads -> [pc : {"IDLE", "RUN", "CHECK", "PLAN"}, proc : Procs \cup {Nobody},
                             next : Nat, acted : BOOLEAN]]
    /\ \A t \in Threads : lane[t].pc = "RUN" =>
          lane[t].proc \in Procs /\ lane[t].next \in 1..Len(Steps[lane[t].proc])
    \* A definition is stored once: the workflow's name and version are unique.
    /\ \A p, q \in Procs : Steps[p] = Steps[q] /\ p # q => "NONE" \in {status[p], status[q]}

Init ==
    /\ status = [p \in Procs |-> "NONE"] /\ waived = {} /\ harmed = {} /\ noted = {}
    /\ owner = Nobody
    /\ call = [j \in Judges |-> [proc |-> Nobody, todo |-> <<>>]]
    /\ lane = [t \in Threads |-> Free]
    /\ proven = {} /\ granted = {}

-----------------------------------------------------------------------------
(* Learning.                                                               *)

\* A workflow that ended: its status, whether a step was denied by the policy
\* on the way, and the status and verdict of its steps; one that asks for no
\* verification is "WAIVED".
Endings ==
    [workflow : {"COMPLETED", "PARTIAL_FAILURE", "UNKNOWN", "CANCELLED"},
     denied : BOOLEAN,
     steps : (SUBSET {<<"COMPLETED", "PASS">>, <<"COMPLETED", "WAIVED">>,
                      <<"COMPLETED", "UNKNOWN">>, <<"FAILED", "FAIL">>}) \ {{}}]

Verified(end) == end.steps = {<<"COMPLETED", "PASS">>}
Waives(end) == <<"COMPLETED", "WAIVED">> \in end.steps

\* Mutant: the workflow's own status is enough.
EligibleByStatus(end) == end.workflow = "COMPLETED" /\ ~ end.denied

\* is_learning_eligible.
Eligible(end) ==
    /\ end.workflow = "COMPLETED" /\ ~ end.denied
    /\ end.steps \subseteq {<<"COMPLETED", "PASS">>, <<"COMPLETED", "WAIVED">>}

\* store_procedure_candidate keeps a row with the identifier, and the table one
\* with the name and version, whatever became of it.
Absent(p) == \A q \in Procs : Steps[q] = Steps[p] => status[q] = "NONE"

\* The session's connection, opened by the first thread that learns.
Opens(t) == owner \in {Nobody, t}

\* _learn_verified_workflow; an error of the store is swallowed.
Learn(t, p, end) ==
    /\ lane[t].pc = "IDLE" /\ Eligible(end)
    /\ owner' = IF owner = Nobody THEN t ELSE owner
    /\ IF Opens(t) /\ Absent(p)
       THEN /\ status' = [status EXCEPT ![p] = "CANDIDATE"]
            /\ waived' = IF Waives(end) THEN waived \cup {p} ELSE waived
            /\ proven' = IF Verified(end) THEN proven \cup {p} ELSE proven
       ELSE UNCHANGED <<status, waived, proven>>
    /\ UNCHANGED <<harmed, noted, call, lane, granted>>

\* The session is closed, or its process ends, and is started again.
Restart ==
    /\ owner' = Nobody /\ lane' = [t \in Threads |-> Free]
    /\ UNCHANGED <<rows, call, proven, granted>>

-----------------------------------------------------------------------------
(* Validation and health.                                                  *)

Set(s) == <<"CHECK", s>>

\* The definition, each of whose steps must ask for a verification, and the
\* evidence: enough for the policy, too little, or against the definition.
Verdict(p, evidence) ==
    IF p \notin Sound \/ p \in waived \/ evidence = "AGAINST" THEN "INVALIDATE"
    ELSE IF evidence = "THIN" THEN "KEEP" ELSE "PROMOTE"

\* What validate_and_promote writes, once VALIDATING.
Writes(verdict) ==
    CASE verdict = "PROMOTE" -> <<Set("ACTIVE"), <<"NOTE", "GRANTED">>>>
      [] verdict = "KEEP" -> <<<<"IF", "CANDIDATE">>>>
      [] verdict = "INVALIDATE" -> <<<<"IF", "INVALIDATED">>>>

Startable == {"CANDIDATE", "VALIDATING"}

Validate(j, p, evidence) ==
    /\ call[j].todo = <<>> /\ status[p] \in Startable
    /\ call' = [call EXCEPT ![j] =
                  [proc |-> p,
                   todo |-> (IF status[p] = "CANDIDATE" THEN <<Set("VALIDATING")>> ELSE <<>>)
                            \o Writes(Verdict(p, evidence))]]
    /\ granted' = IF Verdict(p, evidence) = "PROMOTE" THEN granted \cup {p} ELSE granted
    /\ UNCHANGED <<rows, owner, lane, proven>>

\* assess_health under its default policy.
Assess(j, p, evidence) ==
    /\ call[j].todo = <<>>
    /\ \E to \in {"INVALIDATED", "DEGRADED", "ACTIVE"} :
          /\ \/ to = "INVALIDATED" /\ status[p] \in {"ACTIVE", "DEGRADED"} /\ evidence = "INVALID"
             \/ to = "DEGRADED" /\ status[p] = "ACTIVE" /\ evidence # "INVALID" /\ p \in harmed
             \/ to = "ACTIVE" /\ status[p] = "DEGRADED" /\ evidence = "REVALIDATED"
          /\ call' = [call EXCEPT ![j] = [proc |-> p, todo |-> <<Set(to)>>]]
    /\ UNCHANGED <<rows, owner, lane, proven, granted>>

\* record_failure and record_unknown.
Records(p) ==
    /\ status[p] # "NONE" /\ harmed' = harmed \cup {p}
    /\ UNCHANGED <<status, waived, noted, owner, call, lane, proven, granted>>

Rest(j) == Tail(call[j].todo)
Does(j, op, to) == call[j].todo # <<>> /\ Head(call[j].todo) = <<op, to>>
Goes(j, todo) == call' = [call EXCEPT ![j].todo = todo]

\* set_status: its reading, which may raise and end the call, and its writing.
CheckStatus(j, to) ==
    /\ Does(j, "CHECK", to)
    /\ Goes(j, IF <<status[call[j].proc], to>> \in Allowed
               THEN <<<<"WRITE", to>>>> \o Rest(j) ELSE <<>>)
    /\ UNCHANGED <<rows, owner, lane, proven, granted>>

WriteStatus(j, to) ==
    /\ Does(j, "WRITE", to) /\ Goes(j, Rest(j))
    /\ status' = [status EXCEPT ![call[j].proc] = to]
    /\ UNCHANGED <<waived, harmed, noted, owner, lane, proven, granted>>

\* A failed validation reads the row once more.
SetIfValidating(j, to) ==
    /\ Does(j, "IF", to)
    /\ Goes(j, IF status[call[j].proc] = "VALIDATING" THEN <<Set(to)>> \o Rest(j) ELSE Rest(j))
    /\ UNCHANGED <<rows, owner, lane, proven, granted>>

NoteGrant(j) ==
    /\ Does(j, "NOTE", "GRANTED") /\ Goes(j, Rest(j))
    /\ noted' = noted \cup {call[j].proc}
    /\ UNCHANGED <<status, waived, harmed, owner, lane, proven, granted>>

\* The judge's process ends before its call does.
Crash(j) ==
    /\ call[j].todo # <<>> /\ Goes(j, <<>>)
    /\ UNCHANGED <<rows, owner, lane, proven, granted>>

-----------------------------------------------------------------------------
(* Execution.                                                              *)

Serves(t, to) ==
    /\ lane' = [lane EXCEPT ![t] = to]
    /\ UNCHANGED <<rows, owner, call, proven, granted>>

ToPlanner(acted) == [Free EXCEPT !.pc = "PLAN", !.acted = acted]

\* find_executable_procedures: a row any of whose steps is of the kind asked for.
Matches(kind) ==
    {p \in Procs : status[p] = "ACTIVE" /\ \E i \in DOMAIN Steps[p] : Steps[p][i] = kind}

\* _try_execute_procedure, until execute_procedure: a single match that binds
\* and applies is taken as it was read, anything else is left to the planner.
Ask(t, kind) ==
    /\ lane[t].pc = "IDLE"
    /\ \/ \E p \in Matches(kind) :
             /\ Opens(t) /\ Matches(kind) = {p}
             /\ Serves(t, [Free EXCEPT !.pc = "RUN", !.proc = p])
       \/ Serves(t, ToPlanner(FALSE))

\* The policy, or the registry of skills, refuses the next action: nothing
\* was executed, as the result has it, whatever the actions before it did.
Refuse(t) == lane[t].pc = "RUN" /\ Serves(t, ToPlanner(lane[t].acted))

\* The executor reports a failure, or raises: what it did is not known.
Break(t) == lane[t].pc = "RUN" /\ Serves(t, Free)

Step(t) ==
    /\ lane[t].pc = "RUN"
    /\ Serves(t, IF lane[t].next = Len(Steps[lane[t].proc])
                 THEN [lane[t] EXCEPT !.pc = "CHECK", !.acted = TRUE]
                 ELSE [lane[t] EXCEPT !.next = @ + 1, !.acted = TRUE])

\* The verifier of the last action; any verdict is an answer.
Check(t) == lane[t].pc = "CHECK" /\ Serves(t, Free)

\* The run an ordinary request has.
Plan(t) == lane[t].pc = "PLAN" /\ Serves(t, Free)

Kinds == UNION {{Steps[p][i] : i \in DOMAIN Steps[p]} : p \in Procs}

Next ==
    \/ \E t \in Threads, p \in Procs, end \in Endings : Learn(t, p, end)
    \/ Restart
    \/ \E j \in Judges, p \in Procs :
          \/ \E e \in {"ENOUGH", "THIN", "AGAINST"} : Validate(j, p, e)
          \/ \E e \in {"NONE", "INVALID", "REVALIDATED"} : Assess(j, p, e)
    \/ \E p \in Procs : Records(p)
    \/ \E j \in Judges, s \in Statuses : CheckStatus(j, s) \/ WriteStatus(j, s) \/ SetIfValidating(j, s)
    \/ \E j \in Judges : NoteGrant(j) \/ Crash(j)
    \/ \E t \in Threads, k \in Kinds : Ask(t, k)
    \/ \E t \in Threads : Refuse(t) \/ Break(t) \/ Step(t) \/ Check(t) \/ Plan(t)

Spec == Init /\ [][Next]_vars

-----------------------------------------------------------------------------
(* Properties.                                                             *)

\* What may be executed was learned from a workflow verified throughout and
\* passed a validation of its own, whatever calls raced for the row, whichever
\* died half way, and however often its health was assessed since.
ActiveIsEarned ==
    \A p \in Procs :
        status[p] \in {"ACTIVE", "DEGRADED"} \/ p \in noted => p \in proven \cap granted

\* "An execution attempt that actually starts is terminal for this request so
\* generic planning cannot accidentally replay a consequential side effect"
\* (api.py:1952): a request is not planned once an action was executed for it.
StartedIsTerminal == \A t \in Threads : lane[t].pc = "PLAN" => ~ lane[t].acted

\* The validator "performs only the existing ProcedureStore lifecycle
\* transitions" (procedure_validation.py:4): no row moves outside their table.
KeepsToTransitions ==
    [][\A p \in Procs : status[p] \notin {"NONE", status'[p]} =>
                            <<status[p], status'[p]>> \in Allowed]_vars

=============================================================================
