------------------------------ MODULE MessageFeed ------------------------------
(***************************************************************************)
(* agent_control/whatsapp_intelligence.py and its callers in session.py:   *)
(* the observer that reads chats in the background and derives events from *)
(* their messages.  Threads of it share one SQLite store: receipts of      *)
(* messages, failures and their retries, the frontier.  A transaction is   *)
(* atomic for the other threads and for a crash; between transactions      *)
(* anything may happen.                                                    *)
(*                                                                         *)
(* Messages are numbered in the order of (timestamp, id).  Time is relative*)
(* to the present: the age of a message, the time left until a retry, and  *)
(* how long ago a thread took the "now" of its cycle.  enable() sets its   *)
(* cutoff one window before the time of enabling, which the rolling cutoff *)
(* of a later cycle never precedes, so age alone decides.                  *)
(*                                                                         *)
(* Left out: what is extracted from a message (the processor succeeds or   *)
(* raises), what is presented of it after the commit, and the repair of    *)
(* stored event times.  Who owns the browser is left out: can_observe is   *)
(* any answer.                                                             *)
(***************************************************************************)
EXTENDS Integers, FiniteSets

CONSTANTS
    Threads,         \* the observer threads that can be alive at once
    NumMessages,     \* bound: messages ever sent
    Window,          \* WHATSAPP_EVENT_LOOKBACK_DAYS
    RetryLimit,      \* _FAILED_RETRY_LIMIT
    RetryMax,        \* _FAILED_RETRY_MAX_S
    MaxLag,          \* bound: ticks of the clock while a cycle lasts
    MaxFailures      \* bound: failures recorded of a message

Messages == 1..NumMessages

ASSUME FeedAssumption ==
    /\ NumMessages \in Nat \ {0} /\ Window \in Nat /\ RetryLimit \in Nat \ {0}
    /\ RetryMax \in Nat \ {0} /\ MaxLag \in Nat
    /\ MaxFailures \in Nat /\ MaxFailures >= RetryLimit + Cardinality(Threads)
    /\ IsFiniteSet(Threads)

None == 0          \* no message; messages start at 1
Nobody == "nobody"

ASSUME NobodyIsNoThread == Nobody \notin Threads

VARIABLES
    enabled,    \* intelligence_state.enabled
    receipt,    \* processed_messages: "none", "eligible" or "ignored"
    failures,   \* message_failures.failure_count, 0 without a row
    wait,       \* message_failures.retry_after, from now
    frontier,   \* last_processed_message_*, or None
    derived,    \* how often the events of a message were committed
    age,        \* of a message, -1 while it is not sent
    current,    \* _observer_thread
    stop,       \* the event that _observer_stop now refers to is set
    joining,    \* the console thread waits in stop_observing
    thread      \* of every observer thread, its position and locals

store == <<enabled, receipt, failures, wait, frontier, derived>>
control == <<current, stop, joining>>
vars == <<store, age, control, thread>>

\* The oldest age that must be told apart.
Old == Window + MaxLag + 1

\* pc: at the GATE of the loop, at the HOME rows, BEGINning
\* process_observation, SCREENing what is seen, PROCESSing what is fresh,
\* RECORDing a failure, RECONCILing the frontier.
ThreadState ==
    [pc : {"DEAD", "GATE", "HOME", "BEGIN", "SCREEN", "PROCESS", "RECORD", "RECONCILE"},
     opened : BOOLEAN,          \* a home row was opened in this iteration
     seen : SUBSET Messages,    \* extract_messages of the observation
     left : SUBSET Messages,    \* of them, those not screened yet
     fresh : SUBSET Messages,   \* new_messages not processed yet
     worked : BOOLEAN,          \* new_messages or failed or retry_deferred
     message : Messages \cup {None},  \* the one that failed
     lag : 0..MaxLag]           \* ticks since the cycle's now

At(pc) == [pc |-> pc, opened |-> FALSE, seen |-> {}, left |-> {}, fresh |-> {},
           worked |-> FALSE, message |-> None, lag |-> 0]

TypeOK ==
    /\ enabled \in BOOLEAN
    /\ receipt \in [Messages -> {"none", "eligible", "ignored"}]
    /\ failures \in [Messages -> 0..MaxFailures]
    /\ wait \in [Messages -> (-MaxLag)..RetryMax]
    /\ frontier \in Messages \cup {None}
    /\ derived \in [Messages -> Nat]
    /\ age \in [Messages -> -1..Old]
    /\ current \in Threads \cup {Nobody}
    /\ stop \in BOOLEAN /\ joining \in BOOLEAN
    /\ thread \in [Threads -> ThreadState]

Init ==
    /\ enabled = FALSE
    /\ receipt = [m \in Messages |-> "none"]
    /\ failures = [m \in Messages |-> 0] /\ wait = [m \in Messages |-> 0]
    /\ frontier = None
    /\ derived = [m \in Messages |-> 0]
    /\ age = [m \in Messages |-> -1]
    /\ current = Nobody /\ stop = FALSE /\ joining = FALSE
    /\ thread = [w \in Threads |-> At("DEAD")]

-----------------------------------------------------------------------------
(* The world: messages are sent and time passes.                           *)

Smaller(i, j) == IF i < j THEN i ELSE j
Larger(i, j) == IF i < j THEN j ELSE i

Oldest(set) == CHOOSE m \in set : \A n \in set : m <= n
Newest(set) == CHOOSE m \in set : \A n \in set : n <= m

Sent == {m \in Messages : age[m] >= 0}

Send(m) ==
    /\ m \notin Sent /\ \A n \in 1..(m - 1) : n \in Sent
    /\ age' = [age EXCEPT ![m] = 0]
    /\ UNCHANGED <<store, control, thread>>

InCycle(w) == thread[w].pc \in {"SCREEN", "PROCESS", "RECORD", "RECONCILE"}

\* Only between the first failure and quarantine is retry_after read.
Backoff(m) == failures[m] \in 1..(RetryLimit - 1)

Tick ==
    /\ \A w \in Threads : InCycle(w) => thread[w].lag < MaxLag
    /\ age' = [m \in Messages |-> IF m \in Sent THEN Smaller(age[m] + 1, Old) ELSE -1]
    /\ wait' = [m \in Messages |->
                    IF Backoff(m) THEN Larger(wait[m] - 1, -MaxLag) ELSE 0]
    /\ thread' = [w \in Threads |->
                    IF InCycle(w) THEN [thread[w] EXCEPT !.lag = @ + 1] ELSE thread[w]]
    /\ UNCHANGED <<enabled, receipt, failures, frontier, derived, control>>

-----------------------------------------------------------------------------
(* The console thread starts and stops the observer.                       *)

Alive(w) == thread[w].pc # "DEAD"

\* A live thread is kept.  Otherwise a new event replaces the old one, which
\* a thread that outlived its join still reads through the same attribute.
StartObserving ==
    IF current # Nobody /\ Alive(current)
    THEN UNCHANGED <<current, stop, thread>>
    ELSE \E w \in Threads :
            /\ ~ Alive(w)
            /\ current' = w /\ stop' = FALSE
            /\ thread' = [thread EXCEPT ![w] = At("GATE")]

\* _enable_whatsapp_intelligence.
Enable ==
    /\ ~ joining
    /\ enabled' = TRUE
    /\ StartObserving
    /\ UNCHANGED <<receipt, failures, wait, frontier, derived, age, joining>>

\* _resume_whatsapp_intelligence_if_enabled, when a chat is authorised or the
\* browser is taken over.
Resume ==
    /\ ~ joining /\ enabled
    /\ StartObserving
    /\ UNCHANGED <<store, age, joining>>

\* stop_observing, up to its join: intelligence is disabled, or the session is
\* closed, or the browser handed to a human.
Stop ==
    /\ ~ joining /\ joining' = TRUE
    /\ stop' = TRUE
    /\ enabled' \in {enabled, FALSE}
    /\ UNCHANGED <<receipt, failures, wait, frontier, derived, age, current, thread>>

\* The join returns, also when its two seconds are over and the thread lives.
StopReturns ==
    /\ joining /\ joining' = FALSE
    /\ current' = Nobody
    /\ UNCHANGED <<store, age, stop, thread>>

\* The process dies and a new session begins on the same store.
Restart ==
    /\ joining' = FALSE /\ stop' = FALSE
    /\ \E w \in Threads :
        /\ current' = IF enabled THEN w ELSE Nobody
        /\ thread' = [x \in Threads |-> At(IF enabled /\ x = w THEN "GATE" ELSE "DEAD")]
    /\ UNCHANGED <<store, age>>

-----------------------------------------------------------------------------
(* The loop of an observer thread.                                         *)

Becomes(w, state) == thread' = [thread EXCEPT ![w] = state]

\* Some of the messages of the chat that is open.
Observation(set) == set \in SUBSET Sent /\ set # {}

\* The gate, and a look at the browser: messages, only rows, or an error.
Gate(w) ==
    /\ thread[w].pc = "GATE"
    /\ IF stop THEN Becomes(w, At("DEAD"))
       ELSE /\ enabled
            /\ \/ \E seen \in SUBSET Messages :
                     Observation(seen) /\ Becomes(w, [At("BEGIN") EXCEPT !.seen = seen])
               \/ Becomes(w, At("HOME"))
    /\ UNCHANGED <<store, age, control>>

\* _observe_authorized_targets: nothing to open, or a click on a row, after
\* which what is seen is processed too.
OpenRow(w) ==
    /\ thread[w].pc = "HOME"
    /\ \/ Becomes(w, At("GATE"))
       \/ \E seen \in SUBSET Messages :
            /\ Observation(seen)
            /\ Becomes(w, [At("BEGIN") EXCEPT !.seen = seen, !.opened = TRUE])
    /\ UNCHANGED <<store, age, control>>

\* Where process_observation goes on with these locals, or returns from.
Continue(t) ==
    IF t.left # {} THEN [t EXCEPT !.pc = "SCREEN", !.message = None]
    ELSE IF t.fresh # {} THEN [t EXCEPT !.pc = "PROCESS", !.message = None]
    ELSE IF t.worked THEN [t EXCEPT !.pc = "RECONCILE", !.message = None]
    ELSE At(IF t.opened THEN "GATE" ELSE "HOME")

Fails(t, m) == [t EXCEPT !.pc = "RECORD", !.message = m, !.worked = TRUE]

\* The gate is looked at again, and the observation is noted in the store.
Begin(w) ==
    /\ thread[w].pc = "BEGIN"
    /\ \/ enabled /\ Becomes(w, Continue([thread[w] EXCEPT !.left = thread[w].seen]))
       \/ Becomes(w, Continue(thread[w]))
    /\ UNCHANGED <<store, age, control>>

\* Not older, at the cycle's now, than the window.
Eligible(w, m) == age[m] - thread[w].lag <= Window

\* _failure_retry_state, at the cycle's now.
RetryAllowed(w, m) ==
    \/ failures[m] = 0
    \/ failures[m] < RetryLimit /\ wait[m] + thread[w].lag <= 0

Processed(m) == receipt[m] # "none"

\* A message is skipped, set aside for its age (or that fails), put off, or
\* taken as new.
Screen(w) ==
    /\ thread[w].pc = "SCREEN"
    /\ LET m == Oldest(thread[w].left)
           rest == [thread[w] EXCEPT !.left = @ \ {m}]
       IN
       \/ /\ Processed(m)
          /\ Becomes(w, Continue(rest)) /\ UNCHANGED receipt
       \/ /\ ~ Processed(m) /\ ~ Eligible(w, m)
          /\ \/ receipt' = [receipt EXCEPT ![m] = "ignored"] /\ Becomes(w, Continue(rest))
             \/ Becomes(w, Fails(rest, m)) /\ UNCHANGED receipt
       \/ /\ ~ Processed(m) /\ Eligible(w, m)
          /\ Becomes(w, Continue([rest EXCEPT !.worked = TRUE,
                !.fresh = IF RetryAllowed(w, m) THEN @ \cup {m} ELSE @]))
          /\ UNCHANGED receipt
    /\ UNCHANGED <<enabled, failures, wait, frontier, derived, age, control>>

\* A read of the store that fails ends the iteration.
Raises(w) ==
    /\ thread[w].pc = "SCREEN" /\ Becomes(w, At("GATE"))
    /\ UNCHANGED <<store, age, control>>

\* Mutant: the claim trusts what the screening found.
UnclaimedSinceScreening(m) == TRUE

\* _claim_message_in_transaction, for an eligible message: a receipt that
\* only set it aside is upgraded.
Unclaimed(m) == receipt[m] # "eligible"

\* process_message_atomically: the claim, the derived events, the summary and
\* the end of earlier failures in one transaction; or all of it rolled back.
Process(w) ==
    /\ thread[w].pc = "PROCESS"
    /\ LET m == Oldest(thread[w].fresh)
           rest == [thread[w] EXCEPT !.fresh = @ \ {m}]
       IN
       \/ /\ Unclaimed(m)
          /\ receipt' = [receipt EXCEPT ![m] = "eligible"]
          /\ derived' = [derived EXCEPT ![m] = @ + 1]
          /\ failures' = [failures EXCEPT ![m] = 0]
          /\ wait' = [wait EXCEPT ![m] = 0]
          /\ Becomes(w, Continue(rest))
       \/ /\ ~ Unclaimed(m) /\ Becomes(w, Continue(rest))
          /\ UNCHANGED <<receipt, derived, failures, wait>>
       \/ /\ Becomes(w, Fails(rest, m))
          /\ UNCHANGED <<receipt, derived, failures, wait>>
    /\ UNCHANGED <<enabled, frontier, age, control>>

\* _FAILED_RETRY_BASE_S doubled by every failure, capped.
Delay(count) == Smaller(RetryMax, 2 ^ (count - 1))

\* record_message_failure, which may fail itself.
Record(w) ==
    /\ thread[w].pc = "RECORD"
    /\ \/ /\ failures[thread[w].message] < MaxFailures
          /\ failures' = [failures EXCEPT ![thread[w].message] = @ + 1]
          /\ LET count == failures[thread[w].message] + 1 IN
             wait' = [wait EXCEPT ![thread[w].message] =
                        IF count < RetryLimit THEN Delay(count) - thread[w].lag ELSE 0]
       \/ UNCHANGED <<failures, wait>>
    /\ Becomes(w, Continue(thread[w]))
    /\ UNCHANGED <<enabled, receipt, frontier, derived, age, control>>

\* advance_checkpoint: the newest eligible message seen, or the stored one.
Boundary(set) == Larger(frontier, Newest(set))

\* Mutant: what failed or was put off does not block the frontier.
IncorporatedWhenSeen(set) == set # {}

Incorporated(set) == set # {} /\ \A m \in set : receipt[m] = "eligible"

\* Nothing eligible seen, one not incorporated, or an error: no advance.
Reconcile(w) ==
    /\ thread[w].pc = "RECONCILE"
    /\ LET observed == {m \in thread[w].seen : Eligible(w, m)} IN
       \/ Incorporated(observed) /\ frontier' = Boundary(observed)
       \/ UNCHANGED frontier
    /\ Becomes(w, Continue([thread[w] EXCEPT !.worked = FALSE]))
    /\ UNCHANGED <<enabled, receipt, failures, wait, derived, age, control>>

Observes(w) ==
    \/ Gate(w) \/ OpenRow(w) \/ Begin(w) \/ Screen(w) \/ Raises(w)
    \/ Process(w) \/ Record(w) \/ Reconcile(w)

Next ==
    \/ \E m \in Messages : Send(m)
    \/ Tick
    \/ Enable \/ Resume \/ Stop \/ StopReturns \/ Restart
    \/ \E w \in Threads : Observes(w)

Spec == Init /\ [][Next]_vars

-----------------------------------------------------------------------------
(* Properties.                                                             *)

\* The events of a message are committed once if it has a receipt as eligible,
\* and never otherwise: through crashes, retries, and a second thread that
\* screened the message before the first one claimed it.
ExactlyOnce ==
    \A m \in Messages : derived[m] = IF receipt[m] = "eligible" THEN 1 ELSE 0

\* The frontier is a message that was incorporated, though chats are observed
\* in any order, by two threads, and failed messages are put off.
FrontierIsIncorporated == frontier # None => receipt[frontier] = "eligible"

=============================================================================
