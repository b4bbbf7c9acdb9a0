# Verification of DEIMOS

DEIMOS (`src/agent_control`) is a closed-loop computer agent: a person asks for
something in text or speech, a planner proposes actions, policy decides on each
of them, an executor acts on windows, files and a browser, and independent
verifiers look at the result. Long requests become workflows of several steps;
everything that must survive a restart is kept in SQLite tables.

This directory holds TLA+ models of the parts of the program that carry state
across threads, failures and restarts, the TLC configurations that check them on
small instances, and proofs, for every size of instance, of the safety
properties those configurations check.
`PROJECT.json` lists components, runs, the mutants each property is tested
with, the source lines of every definition, the findings, hazards and theorems.

    tlc -workers 2 -config RuntimeManagerRegistry.cfg MCRuntimeManager.tla
    tlapm RuntimeManagerProofs.tla

Paths below are relative to `src/agent_control` unless they say otherwise.

## 1. The system

| component | state | operations | interacts with | hard behaviours | module |
|---|---|---|---|---|---|
| Task registry (`runtime.py`, `runtime_persistence.py`) | tasks, focus, resources, approvals, in memory and in tables | create, transition, update, cancel, focus, attach, detach, request and resolve approval, clear history, collection pass, start-up repair | session, graph, runner, runtime control; a daemon thread collects | threads of callers and the collector, a transaction that raises in the middle of an operation, crashes, start-up repairs | `RuntimeManager` |
| Scheduler and locks (`workflow/scheduler.py`) | step statuses, locks, published data | run, scan, submit, join, defer, cancel, recover | thread pool, executor and verifier callbacks | order of answers, exceptions, another scheduler on the same locks, cancellation, a second run | `Scheduler` |
| Workflow graph (`workflow/*.py`) | the serialized workflow, channels, a checkpoint at each interrupt | thirteen nodes and their routes | runner through the session, registry, person | interrupted nodes run again from their first line, verdicts and consents travel in channels while the current step changes, concurrent branches | `WorkflowGraph` |
| Session, approvals (`session.py`) | pending approval, in the session and in the registry; lanes | ask, answer, pick, resume, cancel, restart | registry, executors, messaging | lanes and the console write the pending approval without a common lock; crashes; expiry | `ApprovalSession` |
| Session, turns (`session.py`) | queues, one shared question, a record per request | dispatch, answer, ask again, run, reconcile | executors, registry | any lane's next turn takes the question; two records for one request | `SessionTurns` |
| Runner, recovery, status (`runner.py`, `recovery.py`, `general_task.py`, `api.py`) | loop state, budget, ledger of effects | plan, check freshness, permit, execute, verify, recover, report | planner, tools, skills, verifiers | outcomes nobody can see, effects undone by others, refusals beside successes | `RunnerLoop` |
| Project tasks (`tasks/*.py`, `os_tools.py`, `policy.py`) | a folder on disk | make folders, files, environment, packages; open the editor | policy, runner, a person in the same folder | effects cut short, kills, a second attempt on half a project | `SetupProject` |
| WhatsApp intelligence (`whatsapp_intelligence.py`) | receipts, failures, retries, frontier | observe, screen, process, record, reconcile | browser, session | two observers on one store, crashes between transactions | `MessageFeed` |
| Sending a message (`skills/browser/backend.py`, `whatsapp_control.py`) | one page, generations, a control lease | open, search, click, confirm, type, send, verify | the observer on the same page | a page that lags, stale references, drafts left behind | `WhatsAppSend` |
| Browser skill (`skills/browser`) | session, references, last observation | resolve, guard, act, verify; the song workflow | external browser | references of an older page, dying sessions | `BrowserActions` |
| Procedural memory (`procedure_*.py`) | rows of procedures, events | learn, validate, assess, match, execute | session, planner | judges race for a row, a process dies between two statements | `Procedures` |

The components without a row here, and why they have no module, are in section 8.

The session stands in the middle. It gives a request to `run_agent_task`, which
is the loop of `RunnerLoop`; starts a workflow, whose graph calls the same loop
for every step (`WorkflowGraph` has the ways such a call comes back as a choice,
`Results`); asks for consent (`ApprovalSession`); and executes a learned
procedure in place of a plan (`Procedures`). All of them report to the registry,
by transitions that may be refused. The modules share the table of those
transitions, `TaskStates`; each models the calls of the registry it makes, and
`RuntimeManager` shows that the registry keeps what `TaskLifecycle` promises of
any sequence of such calls.

## 2. Modules

| module | models | extends |
|---|---|---|
| `TaskStates` | the states of a task and the table of its transitions | |
| `TaskLifecycle` | abstract: what the registry promises of each task | `TaskStates` |
| `RuntimeManager` | the registry with its tables, clock, crashes and start-up | `TaskStates`, instance of `TaskLifecycle` |
| `DagExecution` | abstract: what a dependency-aware scheduler promises | |
| `Scheduler` | `DependencyScheduler.run`, its pool and its locks | instance of `DagExecution` |
| `WorkflowGraph` | the graph, the run of one step, the task and approval, the person | `TaskStates` |
| `RunnerLoop` | one run of a request, its budget, its status | |
| `ApprovalSession` | the two copies of a pending approval, lanes, restarts | `TaskStates` |
| `TurnPromises`, `SendPromises`, `FolderPromises` | the properties of `SessionTurns`, `WhatsAppSend` and `SetupProject`, and the variables these are about | |
| `SessionTurns` | turns in lanes, the question they share, their records | `TaskStates`, `TurnPromises` |
| `MessageFeed` | the observer threads over their store | |
| `WhatsAppSend` | a send and the observer on one page | `SendPromises` |
| `BrowserActions` | one browser action from the skill to its verification | |
| `Procedures` | the life and the execution of learned procedures | |
| `SetupProject` | the two registered project tasks over the tools | `FolderPromises` |
| `MC...` | requests, pages, workflows and other values for TLC | |
| `RuntimeManagerProofs`, `SchedulerProofs`, `WorkflowGraphProofs`, `RunnerLoopProofs`, `BrowserActionsProofs` | theorems about the module of that name | that module, `TLAPS` |
| `SessionProofs` | theorems about `ApprovalSession` and, as `Turns`, `SessionTurns` | `ApprovalSession`, `TurnPromises`, instance of `SessionTurns` |
| `WhatsAppProofs` | theorems about `MessageFeed` and, as `Page`, `WhatsAppSend` | `MessageFeed`, `SendPromises`, instance of `WhatsAppSend` |
| `TaskProofs` | theorems about `Procedures` and, as `Setup`, `SetupProject` | `Procedures`, `FolderPromises`, instance of `SetupProject` |

Each module's opening comment says what it leaves out. Operators marked
"Mutant" or "Fault" in a comment are plausible bugs that the properties are
tested with; no specification uses them.

### RuntimeManager

`tasks`, `resources`, `approvals` and `focus` are the attributes of the manager,
`dbTasks`, `dbApprovals` and `dbResources` the tables. An operation of the
manager holds its lock from beginning to end, so it is one action; the
transaction inside it either commits or, in a `Fail...` action, raises, and the
action then leaves exactly the fields the code had already changed. The
collection pass commits per task: `FailCollect` stops between two of them.
Start-up is a sequence of actions (`Load`, `LoadCollect`, `RehydrateApprovalStates`,
`RecoverAfterRestart`) with a `Crash` possible before each. `Tick` ages rows and
cut-offs instead of keeping a clock. Rows keep what the rules read: state,
approval state, age and link; goals, metadata and the journal are left out.

### Scheduler

`pc` is the place of the calling thread in `run` (a round scans, submits a
batch, joins its futures); `thread[n]` is the pool thread of a step;
`holder` the lock table, on which another scheduler also takes and gives back
locks (`OutsiderTakes`, `OutsiderReleases`). `RequestCancel` comes at any time
and is read where the code reads it. The answer of an executor is any status in
`Reported`, with any verdict, or an exception. `Init` may be a restored
workflow. `run` itself is called by tests only; the nodes of the graph use its
`ready_nodes`, `aggregate` and locks.

### WorkflowGraph

One action per node. The thread that invoked the graph runs node after node;
`approval_interrupt` and `workflow_input` are the places where it has stopped
on a person, and `Approve` and `WorkflowInput` are the second pass of the
interrupted node, from its first line. Every node begins with
`Workflow.from_json`, which rewrites two statuses (`Loaded`). A run of one step
comes back in any of the ways in `Results`; a blocked run makes every later step
pending and the last one current (`Returned`, `CurrentReturned`). `AfterRun` is
what the session then does to the task. `execute_ready_batch` is the policy
pass, one action per branch in any order, and its end; a branch works on a copy
of the workflow that may or may not show the other branches completed.

Left out: `load_workflow`, `decompose` and `observe`, which change nothing kept
here; `cancel_requested`, set by tests only; the resumption with a no, which the
session never performs (`Reject` is what it does); the fallback of
`_resume_workflow_graph` when a checkpoint of an older schema raises `KeyError`;
a process that stops inside a node, whose workflow nobody resumes; the default
limit of LangGraph on the supersteps of one invocation.

### RunnerLoop

`pc` is the place in `_drive` and `_run_action`: planning, the next action of the
batch, executing, verifying, observed again, the end of the batch, the final
verification. `holds` is the world, `attempted` the ledger of the general task,
`used` the budget. `Execute` may report a failure and have its effect all the
same, a verification may fail to see what is there, and `Undo` takes an effect
back at any time. The recovery of an action is a choice of `RecoveryManager.spend`
on its failure class and safety, and `Status` is `api._status`. Actions differ in
how they are verified (tracked by the ledger, by their skill, or not at all), in
what policy says of them and in how safely they repeat.

### ApprovalSession and SessionTurns

In `ApprovalSession` a lane goes from `Submit` over `Suspend`, `Ask` (the session's
own `pending`) and `Register` (the registry's) to `EndRun`. `Decline` is the request
that comes back without a result, refused or turned into a question: its record
moves CREATED to RUNNING and nobody runs it (`session.py:2521-2534`). `BreakRun` is an
exception in the lane, which fails the task. The console takes an answer, clears
`pending` and then grants or rejects, in three steps, because the code does so
under separate acquisitions of its lock or under none. An approved action waits in
`queued` until a worker begins it, under the task and the background record its
handle names, which need not be the same request's; it ends by `Perform` or, with an
exception, by `Break`, which leaves the registry alone (`session.py:2306-2313`).

`now` is a clock, and a handle carries the date it was made with: the lane's own by
`Ask`; that of the payload in the registry when it is rehydrated, picked or resumed
(`Recorded`). `Register` puts into the payload whatever handle is pending by then, or
nothing, and `Expired` compares the handle's date and `Ttl`. `Restart` empties
everything but the tables and repairs states as the registry does.

In `SessionTurns` an input goes to the workers, to the conversation lane or is
answered at once. The first statement of a turn takes the question, whoever it
was for; that statement calls nothing and loops over nothing, so the interpreter
does not switch threads inside it, and it is one step. A request runs under its
own record or under that of its workflow, and the record is reconciled at the end.

### MessageFeed and WhatsAppSend

`MessageFeed` has one action per transaction of the store and per decision of
the loop; `Stop` gives up on a thread that does not end and `Enable` may start
another beside it. Time is relative: ages of messages, time to the next retry,
and how long ago a cycle read the clock.

`WhatsAppSend` has one action per command of the adapter. `Loads`, `Renders` and
`Relists` are the page moving on. `Gate`, `Look`, `Open`, `Opened` and `Read` are
the observer, which asks the lease once and then acts. Waits with a deadline are
`Patience` polls; the waits around them have a deadline of their own. A text is a
sequence of characters, among them white space and letters in two cases, and the
composer is compared as `_whatsapp_normalize` leaves it (`Normalized`). A composer may
hold something from before (`Leftovers`), and of the keys typed only the last
one's outcome is looked at (`Type`), so that others may be lost.

### BrowserActions

`adapt_action` is `EnsureReady`, `FindTarget` and `Guard`; the executor is
`ActOnElement`, `ActOnPage` or `Read`; the song workflow has its own five steps;
`Verify` is the verifier. `Shift` changes the page and `SessionDies` the session
between any two of them. A command that reports an error may have acted. `hits`
records for every click or fill what was chosen and what was hit.

### Procedures and SetupProject

In `Procedures` a judge's call of `validate_and_promote` or `assess_health` is a
list of statements still to execute (`todo`), with other judges, lanes and a
crash between any two. Steps that ask for no verification are not asked for a PASS
when a workflow is learned (`waived`), and no validation passes their row. A lane
asks, matches, executes action after action (`acted` records that one was) and, if
the procedure was refused, plans.

In `SetupProject` `Propose` is the planner (the next action of the plan, another
of the actions the goal names, or another tool on the same folder), `Execute` one
tool with its guards and effect, `Check` its verification, `VerifyFinal` the end.
`Kill`, `AddsFile`, `MakesProject` and `UsesEditor` happen at any time. `write_file` and
`fetch_file` carry `overwrite` as the planner gives it, which policy does not look
at; they look in `Execute` and write in `PutFile`, and in between a person may put a
file there (`late`). The other tools act in the step in which they look: what they
look at only a run changes, and `mkdir` takes a folder it finds. Any effect may be
cut short.

## 3. Runs

| run | instance | states | what it shows |
|---|---|---|---|
| `registry` | 1 task, 1 resource, a named and an anonymous request, all transitions; timeouts 0 and 1 | 72 000 | approvals are granted once and survive restarts; no orphaned execution; nothing of an earlier process looks attached; ends are final; `TaskLifecycle` is implemented; idle waits expire and history goes |
| `scheduler` | chain, fork and join of 3 steps, one lock, 2 threads, 3 rounds, 1 recovery, another scheduler; answers COMPLETED, FAILED, UNKNOWN or an exception | 464 000 | guarded execution, clean return, no replay, failures reach dependents, `DagExecution` is implemented, cancellation takes effect, runs end |
| `workflow_graph` | 4 steps in 3 shapes, one or two of them gated by policy, 1 retry, 2 recoveries | 443 000 | completion is proven, consent is used once, prerequisites were verified, every invocation settles |
| `runner_loop` | 12 requests, 2 planner steps of 2 actions, 3 attempts, 1 retry, 1 second look, 1 replan | 169 000 | repeats are budgeted, a refusal is no success, completion holds, and which actions of unseen outcome recovery repeats |
| `message_feed` | 2 threads, 2 messages, window 1, limits 3 and 2 | 565 000 | events exactly once; the frontier was incorporated |
| `approval_session` | 2 requests, 3 answers, 1 restart, 2 ticks, time to live 1 | 1 784 000 | running is served but for three cases, a no is final, old questions are not answered |
| `whatsapp_send` | 2 chats, one of them observed, 2 keys, a leftover in either composer, 2 polls, 1 send on either path | 525 000 | the confirmed chat gets the whole message, as normalized; a send returns |
| `procedures` | 2 procedures of 2 actions, one reusable, 2 lanes, 2 judges | 91 000 | active is earned |
| `session_turns` | 4 inputs, 2 workers and the conversation lane, 2 places, 2 askings | 812 000 | answers are bound, questions are put twice at most, records are honest |
| `setup_project` | 2 requests, 6 actions, 1 package, 1 repair | 4 603 000 | success is complete; a person's files survive, but for two cases |
| `browser_actions` | 7 pages of 2 elements, 10 actions | 37 000 | the chosen element is hit, no Short is clicked, an action acts once |

`setup_plan` checks a property the repository states and the code does not keep; it
and eight more configurations of that kind are in section 6.

Every property of a passing run has a mutant: a definition of the model with a
plausible bug of the code put in, under which TLC finds the property violated in
that same run.

### Why the bounds are enough

* Registry: a named and an anonymous request let a late answer, a repeated
  asking and a restart meet on one task. Tasks influence each other only through
  the focus and the resources. Ages matter only against a cut-off, so a maximal
  age of one tells them apart.
* Scheduler: two steps can compete for a lock or a thread while a third depends
  on one of them, and a chain of three has an indirect dependent. `SomeGraphs`
  keeps some of the graphs; the graph never changes, so every behaviour of those
  is explored. A chain needs its three rounds, so runs that are out of rounds
  are seen in those that a lock held up.
* Graph: a step that is completed, reset and reached again needs one before it
  that fails and one after it, hence four steps.
* Runner: one unit of each budget is spent and then found empty; two actions in a
  batch let a failure of one meet a success of the other, in either order.
* Feed: two messages are enough for one to overtake the other; two threads share
  one message, two messages meet one thread (`OneMessageForTwo`).
* Approvals: two requests, each of which may be what disturbs the other; a
  question, an answer, a second answer and a restart fit into the bound. Two ticks
  with a time to live of one: a handle can be fresh, at its limit and beyond it.
* Send: two keys tell a whole text from a half and from a doubled one; the
  other chat is the one the observer opens. The leftover is white space and the
  beginning of the message in another case, in either composer, so that the other is
  empty: with the first key lost, what is typed completes it to a text that the
  comparison takes for the message, and with no key lost to one that it must not. A
  composer takes one character more than the message has.
* Turns: a question, two turns in other lanes and an answer are four inputs.
* Browser: pages come in both orders of their elements, so that a reference
  survives and means something else.
* Project: six actions are the plan with a package less one, so a run can also
  end before it is complete; the second request meets what the first left.

### Fairness

* `RuntimeManager`: weak fairness of `Collect`, the pass of the daemon thread
  that loops for as long as the process lives and swallows every exception.
  Callers, crashes and the clock are not fair.
* `Scheduler`: weak fairness of the calling thread and of each pool thread; an
  executor is assumed to come back, which `as_completed` waits for without a
  timeout. The other scheduler is not fair.
* `WorkflowGraph`: weak fairness of `Graph`, since the invoking thread runs nodes
  in a loop and nothing else disables them. The person is not fair, so
  `EveryRunSettles` includes the places where the graph waits for one.
* `WhatsAppSend`: weak fairness of `Works`, the thread of the send: each of its
  commands has a timeout in the adapter. Page and observer are not fair.

The other modules have safety properties only and state no fairness. Deadlock is
not checked where the modelled part does stop: when the bounded answers, inputs
or requests are used up, or a workflow or run has ended.

## 4. What the properties say

Registry: `GrantsAreSpent`, `NoOrphanedExecution`, `ApprovalSurvivesRestart`,
`AttachedIsLive`, `EndIsFinal`, `TablesKeepPromise`, `CleanUpHappens`. Scheduler:
`ExecutionIsGuarded`, `NothingIsLeftBehind`, `NothingIsReplayed`,
`FailureReachesDependents`, `RunsAsDag`, `CancelTakesEffect`, `RunEnds`. Each
property is preceded by a comment that states it; those of the newer modules:

* `RepeatsAreBudgeted`: all repeats of a run together stay within its retries.
  It needs `spend` to count every repeat, also the one after a second look.
* `RepeatsOfUnseen`: what recovery repeats although it had succeeded with an outcome
  nobody could see: what is safe to repeat, and what was left to a skill unless a
  person must be asked. That the latter is repeated is against a comment of the
  code (section 6).
* `DenialIsNotSuccess`, `CompletionHolds`: what is reported of a run with a
  refusal, and of one whose effects were undone meanwhile.
* `ExactlyOnce`: claim and derived events are one transaction, and the claim
  looks at the receipt again; the look before processing may be stale.
* `FrontierIsIncorporated`: the frontier is computed from receipts, not from what
  was observed last.
* `RunningIsServed`: a RUNNING task is run by somebody, but for a request that had no
  run, an action that raised, and an action dropped because the record it was
  queued under is cancelled. `NoIsFinal`, `ExpiredIsNotTaken`: the two copies of a
  pending approval may disagree in between, and a consent is none the less never
  taken for a refused task, nor later than the time to live after the question was
  put, by whichever of the ways the session came by its handle. The model keeps the
  date of the question (`born`) apart from the date in the handle, which is what the
  code compares and may be another question's.
* `ConfirmedIsWhole`: about the chat in which the composer was confirmed, which
  is as much as the code looks at (see "the send may hit another chat" below), and
  up to what the comparison forgets, case and white space.
* `ActiveIsEarned`: what may be executed in place of a plan.
* `AnswersAreBound`, `PutAtMostTwice`, `OwnRecordIsHonest`: the shared question
  and the two records.
* `SuccessIsComplete`, `TheirFilesSurvive`: the project folder. A file of a person's is
  lost only to an overwrite the planner asked for, or if it appeared after the tool
  had looked; and never when the request was to open a project.
* `ChosenIsHit`, `NoShortIsClicked`, `ActsAtMostOnce`: `ChosenIsHit` is about
  targets chosen by a query or among results; the planner's own references are
  excluded, see below.

## 5. What is proved

Every safety property of a passing run, and both refinements, are theorems. They
hold for every value of the constants, from the assumptions named in the modules
(positive limits, distinct null values, a dependency relation that only points
backwards) and nothing else; where a theorem has a hypothesis of its own, it is
given below. The argument is always the same: an inductive invariant stronger
than the property, one lemma per action or group of actions, and a last step
that puts them together.

Three files prove about two modules each. The second is an instance under a
prefix (`Page`, `Setup`, `Turns`), because its names would clash with those of the
first; its variables are declared beside the first's, and its specification
constrains only its own. The properties of the second are in a module of promises
that it and the proofs both extend, so that a theorem such as
`Page!Spec => []ConfirmedIsWhole` is about the very definition that the run checks.

### Registry: `RuntimeManagerProofs`

`Typing` is by one lemma per group of actions, on lemmas about the rows each
helper builds. `Consistency` (memory is the table, visible requests are durable,
nothing dangles) is inductive only as a whole, `Consistent`, because the
collector deletes by the table what it selected in memory, and the approvals of a
deleted task are backed only if the table agreed. `FinalEnd` and
`RemovalIsHistory` follow from `EveryStepTurns`: in every step each row of the
table rests, is created, moves along the table of transitions, is repaired at
start-up, or is deleted after its end. `OneGrantPerAsking` is inductive on top of
both: a request that is still pending has been asked once more than it was
granted, and what a failed resolution leaves in the table is exactly what memory
had.

`NothingIsOrphaned` is inductive given `TypeOK`: a task that is shown executing
was moved by this process (`live`), or its repair could not be committed
(`unrepaired`). `RequestsSurvive` needs `RequestsAreAnswerable`, which is the
property from the repair of the approvals on, not only once the manager is up:
the recovery that follows moves such a task to RECOVERY_REQUIRED or leaves it.
`AttachmentsAreOwn` is inductive as it stands. `TablesImplement` is the refinement
of `TaskLifecycle`: `KeepsPromise` says what a step may do to the row of a task and
its pending request, every action is shown to keep it for the tasks it touches,
and a step that keeps it for all of them is one of `TaskLifecycle`'s or a stutter.

### Scheduler: `SchedulerProofs`

`Soundness` is the inductive invariant `Sound`: a batch contains ready steps only,
futures hold their locks and pairwise do not clash, locks have holders, phases are
clean of what earlier phases leave, and futures are few. `Guarding`, `CleanReturn`
and the refinement `Implementation` of `DagExecution` follow from it; `NoReplay`
adds an account of runs against allowances (`Accounted`), and `VerifiedData` that
the published values are backed by completed producers (`DataIsBacked`).

`EveryReturnSpreads` is about the last step of `run`: if rounds are left, it
blocks every open step behind a failure, also an indirect one. `Doomed` is a
recursive function, which TLA+ defines as some solution of its equation: the proof
shows that the equation has one, the least set that holds what has failed and is
closed under it (`SpreadExists`), and that every solution spreads failure.
`FailureSpreads` extends this over the time the workflow then lies idle. It has the
hypothesis `RecoverablesWereReady` on the initial state: what is restored as FAILED,
UNKNOWN or RECOVERY_REQUIRED has completed prerequisites, as it has if the step was
once started. Without it the property is false, since `recover_failed_node` puts such
a step back among the open ones whatever is before it. Workflows restored as PENDING
satisfy it, and the run has no others.

### Workflow graph: `WorkflowGraphProofs`

`IInv` has three groups, each with a lemma per node. *Types*: `Typed` and
`AskedLacks`. *Consent*: `GrantIsFresh` says that an unspent consent lives from the
yes to the end of the verification and is one more than the runs the step has had,
which makes `ConsentIsSpentOnce` inductive. *Proof*: `CurrentMayRun`,
`MarkedIsProven`, `VerdictIsOfCurrent`, `BatchIsFree` and `CompletionIsProven`.

That every completed step was proven is not inductive, and not even true: a run
that comes back blocked makes the last step current, and the verdict is written
there (section 7). What is true is that the step which was executed then stays
VERIFYING for good, `LeftBehind`; no node takes a VERIFYING step up again, so the
workflow does not become whole. `MarkedIsProven` therefore excepts the last step
while another is left behind, and `CompletionIsProven` follows. `Prerequisites` is
the action property from `CurrentMayRun` and `BatchIsFree`.

### Runner loop: `RunnerLoopProofs`

`BudgetHolds` is from `RepeatsArePaid`: repeats do not exceed the retries spent, and
an action about to run once more has been paid in advance. `UnseenRepeatsAsItMay` is
from `OnlySafeComesBack`. `DenialIsFinal` is from `DenialAborts` and `AbortEnds`: a
refusal is about to be verified, or it has aborted the run, or the run broke.
`CompletionIsTrue` is from `AttemptsAreRemembered`: as long as nothing was refused,
the last attempt of every effect is in the ledger, but for the one being verified.
Its assumption `CasesAreRequests` includes that a direct request consists of one
action, which is how `api.py` builds them.

### Session: `SessionProofs`

*Approvals.* `Sound` is inductive as a whole. `RunningServed` needs that whoever is
queued, running, answered or refused has asked (`AnsweredHasAsked`), and that lanes
belong to tasks. `RefusalIsFinal` needs more than that a refused task has ended:
between the clearing of the session's copy and the refusal nothing may have set it
again (`RefusedIsOver`). `Expiry` is about the date of the question, while the code
looks at the date in a handle: `Dated` says that no handle, in the session or in the
registry, is younger than the question of its task. This is so even when the date is
another task's, since `Register` reads the pending handle before the question of its
own task is put.

*Turns.* `Turning` says where an input can be (`OneTurnEach`), that a question is in
one place only (`OnePlaceEach`), that a question knows how often it was put and
whether it is overdue, and who took it took it in time (`QuestionsAreKnown`), that
what was run on an answer is not asked about any more (`OpenedIsOver`), and that
the record of an unfinished turn is at its beginning (`RecordsFollow`). The three
properties are inductive with these: `AnswersBound`, `PutsBounded`,
`RecordsHonest`. Their hypotheses `TurnsAreBounded` and `RepliesAreSaid` are parts of
`TurnsAssumption`, repeated because assumptions of an instance cannot be cited.

### WhatsApp: `WhatsAppProofs`

*Feed.* `Once` and `Frontier` are from `Receipted`, which every step keeps for every
message: a receipt as eligible is given once, in one step with the events of the
message, and is never taken back. `Typing` says of a thread that screens, processes
or records that it has what to do it with (`Occupied`); it leaves out the range of
`wait`, a power of two, of which the provers know nothing.

*Sending.* `Confirmed` is from `ConfirmedIsKept`: from the confirmation to the
submission the composer that was confirmed keeps what it held, whose normal form is
that of the message, whichever chat the observer opens meanwhile, because nothing but the send types, and it types only
before. The clicks of the observer are covered by one lemma about opening a chat.

### Tasks: `TaskProofs`

*Procedures.* `Earning` cannot be had from the rows alone, since a judge reads a row
and writes it later. `CallsAreOwed` says it of what a judge still has to execute: it
goes on to a status that may be executed, or to the note of a grant, only for a
procedure that passed. With `RowsAreProven`, `GrantedIsWhole` (what passed has a row and
no waived step) and `ActiveIsGranted` it is inductive, with other judges and crashes
between any two statements.

*Projects.* `SetupIsComplete` is from `SuccessIsWhole`: the final verification can
pass only if each of its readings can (`PassedIsComplete`), and what a person adds
after the end takes nothing away (`PersonAddsOnly`). `TheirsAreLeft` is from `Looked`:
while a tool is about to write without `overwrite`, a file of a person's in its place
has come after the look, and only a run that was asked for a project writes.

### Browser: `BrowserActionsProofs`

`Fitting` says what kind of action is where. `Aim` and `ShortsAreLeft` are from
`Aimed`: a target that is current is its element in the store, the store is what was
last observed, and by the time of the click the target has been looked at in that
observation. `ActsOnce` is from `Thrifty`, the number of effects an action can have
had at each place, counting the one recovery of a song. `HeldNeverActs` proves the
divergence of section 7: a target resolved before the action's own observation is
always refused.

### Only model-checked

* Liveness: `CleanUpHappens`, `CancelTakesEffect`, `RunEnds`, `EveryRunSettles`,
  `SendReturns`. Fairness and ENABLED are out of the prover's reach.
* The nine properties of section 6, which are false and which TLC refutes.
* The full type invariants of `SessionTurns`, `WhatsAppSend`, `SetupProject` and
  `MessageFeed`; the proofs have the part of them they need.

`Consistency`, `RemovalIsHistory`, `VerifiedData`, `EveryReturnSpreads` and
`HeldNeverActs` state what no run checks: for these the proof stands in place of
one. The library's induction theorems take an operator as a parameter, which the
provers cannot instantiate; where a proof needs induction over the natural numbers
it takes the least counterexample (`LeastExists`, from `WFMin`).

## 6. Findings

Each is a sentence of the repository that the code does not keep, with the
configuration in which TLC finds the behaviour. The first is a run of `PROJECT.json`;
the others stand beside the runs, on the same instances. Where something weaker
holds, a run checks that: `RepeatsOfUnseen`, `RunningIsServed`, `ExpiredIsNotTaken`,
`ConfirmedIsWhole`, `ActiveIsEarned` and `TheirFilesSurvive` are what is left of them.

| configuration | property | what happens | stated at |
|---|---|---|---|
| `SetupProjectPlan.cfg` | `FaultlessRunSucceeds` | the plans of both registered tasks end with `launch_app` carrying `open_path`, which `Policy.check` refuses (`policy.py:527-533`): a run that follows its plan ends POLICY_BLOCKED | `tasks/setup_project.py:348` |
| `RunnerLoopUnseen.cfg` | `InconclusiveIsNotRepeated` | a send by a skill that succeeded with verdict UNKNOWN becomes VERIFICATION_FAILED (`runner.py:915-939`) and is sent again (`recovery.py:191`) | `runner.py:365` |
| `ApprovalSessionRaises.cfg` | `ExceptionIsFailure` | an approved action that raises leaves its task RUNNING (`session.py:2306-2313`) | `session.py:2551` |
| `ApprovalSessionRecords.cfg` | `RunsUnderItsRecord` | a lane registers with the handle another lane has put there meanwhile (`session.py:3245-3265`); the action later runs, and is dropped or cancelled, under that record | `session.py:2272` |
| `ApprovalSessionCancelled.cfg` | `CancelledIsNotSelected` | cancelling drops the approval of the registry and not the session's (`session.py:3837`); a bare yes is taken, the registry's refusal swallowed (2254), the action executed | `runtime.py:441` |
| `WhatsAppSendExact.cfg` | `ConfirmedIsExact` | the composer is compared with case and white space folded (`skills/browser/backend.py:2736`, 2760), so a leftover in another case is sent | `skills/browser/backend.py:2875` |
| `ProceduresStarted.cfg` | `StartedIsTerminal` | policy refuses the second action of a procedure, the answer is NOT_EXECUTED, and the request is planned from its start (`procedure_execution.py:221-245`) | `api.py:1952` |
| `ProceduresTransitions.cfg` | `KeepsToTransitions` | a status is checked in one transaction and written in another (`procedure_store.py:446-453`), so ACTIVE may go back to VALIDATING or be written over INVALIDATED | `procedure_validation.py:4` |
| `SetupProjectOverwrites.cfg` | `OnlyAskedOverwrites` | `fetch_file` looks before the download and replaces after it, `write_file` between 289 and 327 (`os_tools.py:368-492`): a file put there meanwhile is lost | `os_tools.py:276` |

## 7. Known divergences

Met while modelling; the models have these behaviours, or the note says how they
avoid them. No configuration is spent on them.

* **A cancelled task keeps its approval** also in the registry when it is cancelled
  by the generic transition (`runtime.py:432`, used at `session.py:2217`, 2223, 3008,
  3209), which does not remove it.
* **A request nobody runs stays RUNNING.** A background request that was refused or
  became a question has no result, and its record moves CREATED to RUNNING all the
  same (`session.py:2521-2534`); so does one whose action is dropped because a
  cancelled record lent its name. `RunningIsServed` names both.
* **A lost owner.** `resolve_approval` pops the request before the transaction
  that may raise (`runtime.py:531`); until the next restart the task waits without
  an owner, which `session_adapter.py:194` treats as impossible.
* **A verdict on another step.** Marking the later steps BLOCKED makes the last
  one current (`runner.py:1960`), and `verify` writes the verdict there, although
  only a verified PASS is to complete a step (`workflow/README.md:18`).
* **A failed child ends its workflow's task** (`session.py:3222`) before the graph has
  judged it; the comment at `session.py:1542-1544` says it must not.
* **An unpublished completion.** A batch that completes the workflow ends without
  an event (`workflow/graph.py:90`; `session.py:1539-1541`), and the task stays RUNNING.
* **Steps nobody runs.** A retry sets READY, and `next_step` takes PENDING only
  (`workflow/nodes.py:539`); a branch waiting for a resource is not run later
  (282); a question in a batch cannot be answered (246); only the last consent of
  a batch is asked for (250).
* **An uncertain effect is executed again** also after a failed (not an unknown)
  verification: `recovery.py:191`, against the comment at `runner.py:359-363`.
* **A deferred verification passes.** FAIL or UNKNOWN of a browser action without
  an expected state is left to a later verification (`runner.py:584-630`).
* **An unsent draft counts as delivered.** The text `verify_whatsapp_message`
  searches includes the composer's, and any element named as the contact makes
  the chat the right one (`skills/browser/backend.py:2321-2379`, 2990-3000),
  against the docstring at 2956-2961.
* **The send may hit another chat.** Between the last look at the header and the
  keys the observer may open another chat: `ConfirmedIsWhole` therefore speaks
  of the confirmed chat. An approved direct send never sets the lease, because its
  resource is called "browser" (`session.py:2203-2211`), and the observer asks for
  it once, before it acts (`whatsapp_intelligence.py:1984`).
* **Targets of the fast path are always refused.** `fast_interaction.py:413-425`
  resolves an element against the runner's observation, and `adapt_action`
  observes anew before it compares generations (`skills/browser/skill.py:126-159`);
  the comment at 130-133 says such targets may be carried this far. In the model
  every "held" target ends refused.
* **References of the planner are not checked** against a generation
  (`skills/browser/backend.py:4136`), though the store was replaced meanwhile:
  another element may be hit. Also `adapt_action` passes on a resolved target as a
  bare reference.
* **"no" does not decline a question.** `_CANCEL_WORDS` is defined twice
  (`session.py:375`, 644), and the second lacks it. And a question with a single
  answer raises (`session.py:2932-2938`).
* **Projects.** `verify_opened` accepts any visible window with the folder's name; an
  interrupted environment makes every retry fail (`os_tools.py:1103`); a file cut
  short passes the final check; packages are verified by importing the name of
  their distribution (`observe.py:355-401`); a half-made folder is refused next time
  (`api.py:1331`).

## 8. Not modelled

* Planner clients, the decomposer, wording of replies, translation, routing of
  text: functions of text around an external model, without state.
* Skill registry, gate and audit: run once at start-up, sequentially; their rules
  are about text and syntax trees.
* Memory stores: single-row reads and writes nothing else decides on.
* Runtime control: text turned into calls of the registry, which are modelled.
* Speech, trace, command line, most operating-system tools and verifiers: input
  and output.
* `backend.py`, `runtime_state.py`, `langgraph_spike.py` and the shadowed file
  `workflow.py` are used by nothing in the program.
* Inside modelled components: what `PROJECT.json` names in the notes. Two
  workflows at once are not composed; their nodes share nothing but the registry,
  because every batch makes its own lock manager (`workflow/nodes.py:274`).

## 9. Next proofs

1. The four type invariants that are proved in part.
2. What would join two components: that the calls `WorkflowGraph`,
   `ApprovalSession` and `SessionTurns` make of the registry are calls
   `TaskLifecycle` allows.
