----------------------------- MODULE TaskLifecycle -----------------------------
(***************************************************************************)
(* What the durable registry promises about each task, whatever threads,   *)
(* failed transactions and restarts do: a task moves along the table, ends *)
(* once, is deleted only after it has ended and answered for, and a        *)
(* pending approval disappears only together with the verdict on it.       *)
(* A single step may move several tasks (a collection pass does).          *)
(***************************************************************************)
EXTENDS TaskStates

CONSTANT Task

VARIABLES
    life,     \* the state of each task, or "ABSENT"
    pending   \* the tasks with an approval waiting to be answered

lvars == <<life, pending>>

Init ==
    /\ life = [t \in Task |-> "ABSENT"]
    /\ pending = {}

Keeps(t) == t \in pending' <=> t \in pending

Create(t) == life[t] = "ABSENT" /\ life'[t] = "CREATED" /\ Keeps(t)

\* Progress along the table leaves a pending approval alone.
Advance(t) ==
    /\ life[t] # "ABSENT"
    /\ life'[t] \in Allowed[life[t]]
    /\ Keeps(t)

Ask(t) ==
    /\ life[t] # "ABSENT"
    /\ Reaches(life[t], "WAITING_FOR_APPROVAL")
    /\ life'[t] = "WAITING_FOR_APPROVAL"
    /\ t \in pending'

\* A verdict: granted, denied or cancelled, or expired unanswered.
Settle(t) ==
    /\ life[t] # "ABSENT"
    /\ life'[t] \in {"RUNNING", "CANCELLED", "EXPIRED"}
    /\ Reaches(life[t], life'[t])
    /\ t \notin pending'

\* After a restart a task that still owes an answer is put back to waiting.
Refile(t) ==
    /\ t \in pending
    /\ life[t] \notin TERMINAL \cup {"ABSENT", "RECOVERY_REQUIRED"}
    /\ life'[t] = "WAITING_FOR_APPROVAL"
    /\ t \in pending'

Remove(t) ==
    /\ life[t] \in TERMINAL
    /\ life'[t] = "ABSENT"
    /\ t \notin pending
    /\ t \notin pending'

Rest(t) == life'[t] = life[t] /\ Keeps(t)

Next ==
    \A t \in Task :
        \/ Rest(t) \/ Create(t) \/ Advance(t) \/ Ask(t)
        \/ Settle(t) \/ Refile(t) \/ Remove(t)

\* Stated over the tasks it constrains; life stays a function on Task.
Spec == Init /\ [][Next]_lvars

=============================================================================
