------------------------------ MODULE TaskStates ------------------------------
(***************************************************************************)
(* The lifecycle vocabulary of agent_control/runtime.py: the states of a   *)
(* task, the table of legal transitions, and the classes the manager's     *)
(* rules are written with.                                                 *)
(***************************************************************************)

STATES == {"CREATED", "PLANNING", "WAITING_FOR_APPROVAL", "WAITING_FOR_USER",
           "WAITING_FOR_HUMAN", "RUNNING", "VERIFYING", "COMPLETED", "FAILED",
           "CANCELLED", "BLOCKED", "RECOVERY_REQUIRED", "RECOVERING", "EXPIRED"}

TERMINAL == {"COMPLETED", "FAILED", "CANCELLED", "EXPIRED"}

WAITING == {"WAITING_FOR_APPROVAL", "WAITING_FOR_USER", "WAITING_FOR_HUMAN"}

RecoverableOnRestart == {"PLANNING", "RUNNING", "VERIFYING"}

Allowed == [s \in STATES |->
    CASE s = "CREATED" ->
           WAITING \cup {"PLANNING", "RUNNING", "BLOCKED", "CANCELLED", "FAILED"}
      [] s = "PLANNING" ->
           WAITING \cup {"RUNNING", "BLOCKED", "FAILED", "CANCELLED",
                         "RECOVERY_REQUIRED"}
      [] s = "WAITING_FOR_USER" ->
           {"RUNNING", "WAITING_FOR_APPROVAL", "CANCELLED", "FAILED", "EXPIRED"}
      [] s \in {"WAITING_FOR_APPROVAL", "WAITING_FOR_HUMAN"} ->
           {"RUNNING", "CANCELLED", "FAILED", "EXPIRED"}
      [] s = "RUNNING" ->
           WAITING \cup {"PLANNING", "VERIFYING", "COMPLETED", "FAILED",
                         "CANCELLED", "RECOVERY_REQUIRED", "BLOCKED"}
      [] s = "VERIFYING" ->
           {"COMPLETED", "FAILED", "WAITING_FOR_USER", "WAITING_FOR_HUMAN",
            "RECOVERY_REQUIRED", "CANCELLED", "RUNNING"}
      [] s = "BLOCKED" ->
           {"RUNNING", "WAITING_FOR_USER", "WAITING_FOR_HUMAN", "CANCELLED",
            "FAILED", "RECOVERY_REQUIRED"}
      [] s = "RECOVERY_REQUIRED" ->
           {"RUNNING", "WAITING_FOR_USER", "WAITING_FOR_HUMAN", "CANCELLED",
            "FAILED", "RECOVERING"}
      [] s = "RECOVERING" ->
           {"RUNNING", "WAITING_FOR_USER", "WAITING_FOR_HUMAN", "COMPLETED",
            "FAILED", "CANCELLED"}
      [] OTHER -> {}]

\* A task with a row, at its current state, may be given state s.
Reaches(from, s) == s = from \/ s \in Allowed[from]

=============================================================================
