---------------------------- MODULE FolderPromises ----------------------------
(***************************************************************************)
(* What the registered tasks promise about a project folder, and the part  *)
(* of the state that this is about: the folder, the request and the end of *)
(* its run.  SetupProject has the rest of the state, and the steps.        *)
(***************************************************************************)

VARIABLES
    disk,       \* the project, as far as the tasks read it
    installed,  \* packages in the environment
    req,        \* the request: its kind and the packages it names
    pc,         \* IDLE, PLANNING, ACTING, PUTTING, CHECKING, FINAL or ENDED
    tool,       \* the action being run
    late,       \* history: files a person put there since the tool looked
    abort,      \* the class that ended the run early
    final       \* the verdict of the final verification

\* The test file stands for the starter files that are always written.
Files == {"test", "requirements"}

Wanted == IF req.packages = {} THEN Files \ {"requirements"} ELSE Files

\* api._status: a refusal comes before the verdict.
Status ==
    IF abort = "PERMISSION_DENIED" THEN "POLICY_BLOCKED"
    ELSE IF final = "PASS" THEN "SUCCESS" ELSE "NOT_ESTABLISHED"

\* A project that is reported as set up is all there, whichever of its actions
\* had failed, were retried, were replanned around or never proposed: the
\* folders, every file with something in it, an environment of its own and in
\* it the packages that were named (verify_final, setup_project.py:559).
SuccessIsComplete ==
    pc = "ENDED" /\ Status = "SUCCESS" /\ req.kind = "setup" =>
        /\ disk.project = "dir" /\ disk.tests = "dir"
        /\ \A f \in Wanted : disk[f] \in {"cut", "whole", "theirs"}
        /\ disk.venv \in {"bare", "whole"}
        /\ req.packages \subseteq installed

\* A file of theirs is replaced in this step.
Loses(f) == disk[f] = "theirs" /\ disk'[f] # "theirs"

Putting == {"write_file", "fetch_file"}

Overwrites(f) == tool.kind \in Putting /\ tool.on = f /\ tool.over

\* What a person has put into the folder stays as it is, also what was put
\* there after the request was resolved, or between two attempts at a file,
\* unless the run was asked for a project and the planner to overwrite the
\* file; or the file appeared after the tool looked and before it wrote, which
\* for a fetched one is the time of the download (os_tools.py:289, 368).
TheirFilesSurvive ==
    [][\A f \in Files : Loses(f) => req.kind = "setup" /\ (Overwrites(f) \/ f \in late)]_disk

\* "Existing files are not overwritten unless overwrite=True is explicitly
\* supplied by the caller" (os_tools.py:276).
OnlyAskedOverwrites == [][\A f \in Files : Loses(f) => Overwrites(f)]_disk

=============================================================================
