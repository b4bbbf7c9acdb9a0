------------------------------- MODULE SetupProject -------------------------------
(***************************************************************************)
(* The two registered tasks about a project folder, over the tools of      *)
(* os_tools.py, the gate of policy.py and the readings of verifiers.py:    *)
(* tasks/setup_project.py makes a Python project in the projects root and  *)
(* tasks/open_project.py opens one that is there, both in VS Code.         *)
(*                                                                         *)
(* One request is run at a time (run_agent_task, from the command line);   *)
(* the process may be killed at any point of it, after which what it did   *)
(* to the disk is still there.  A person adds files to the folder, opens   *)
(* the editor and closes it meanwhile, and takes nothing away.             *)
(*                                                                         *)
(* write_file and fetch_file look whether the file is there in one step    *)
(* and put it there in a later one.  The other tools act at once: what     *)
(* they look at nobody else changes, and mkdir takes a folder it finds.    *)
(* Any effect may be cut short.  The planner proposes what the goal names, *)
(* in any order, or another tool that is about the same folder, with or    *)
(* without overwrite=True.  The budget of recovery, which RunnerLoop       *)
(* models, may refuse a retry whenever it is asked.                        *)
(***************************************************************************)
EXTENDS FolderPromises, Naturals, Sequences, FiniteSets

CONSTANTS
    Packages,      \* bound: what may be asked for, listed and installed
    MaxRequests,   \* bound: requests
    MaxActions,    \* RunConfig.max_steps, with an action in every step
    MaxRepairs     \* bound: failures a run recovers from

ASSUME BoundsAreNat == MaxRequests \in Nat /\ MaxActions \in Nat /\ MaxRepairs \in Nat

Verdict == {"PASS", "FAIL", "UNKNOWN"}

\* "cut": written in part; "theirs": not by a run.
Content == {"absent", "empty", "cut", "whole", "theirs"}

\* "broken": something is there, no interpreter; "bare": an interpreter that
\* has no pip.
Venv == {"absent", "broken", "bare", "whole"}

Tool ==
    [kind : {"create_dir"}, on : {"project", "tests"}]
    \cup [kind : Putting, on : Files, over : BOOLEAN]
    \cup [kind : {"create_venv", "install_requirements"}, on : {"venv"}]
    \cup [kind : {"launch_app"}, on : {"nothing", "project"}]
    \cup [kind : {"open_file", "list_directory", "search_files"}, on : {"project"}]
    \cup [kind : {"read_text_file"}, on : {"requirements"}]

NoTool == [kind |-> "list_directory", on |-> "project"]

FailureClass == {"none", "PRECONDITION_FAILED", "ACTION_FAILED", "TRANSIENT",
                 "PERMISSION_DENIED", "ENVIRONMENT", "VERIFICATION_FAILED", "INCONCLUSIVE"}

VARIABLES
    listed,     \* packages the requirements file names
    desk,       \* what VS Code shows, and whether another window is titled so
    result,     \* what its execution reported, as a failure class
    used,       \* requests, actions and repairs so far
    hindered    \* history: something failed by itself, or the plan was left
\* The other variables are those of FolderPromises.

world == <<disk, listed, installed, desk>>
run == <<req, pc, tool, late, result, abort, final, used, hindered>>
vars == <<world, run>>

TypeOK ==
    /\ disk \in [project : {"absent", "dir", "file"}, tests : {"absent", "dir"},
                 test : Content, requirements : Content, venv : Venv]
    /\ listed \subseteq Packages /\ installed \subseteq Packages
    /\ desk \in [editor : {"off", "other", "project"}, titled : BOOLEAN]
    /\ req \in [kind : {"setup", "open"}, packages : SUBSET Packages]
    /\ pc \in {"IDLE", "PLANNING", "ACTING", "PUTTING", "CHECKING", "FINAL", "ENDED"}
    /\ tool \in Tool /\ (pc = "PUTTING" => tool.kind \in Putting)
    /\ late \subseteq Files
    /\ result \in FailureClass /\ abort \in FailureClass
    /\ final \in Verdict
    /\ used \in [requests : 0..MaxRequests, actions : 0..MaxActions,
                 repairs : 0..MaxRepairs]
    /\ hindered \in BOOLEAN
    \* What is in the folder needs the folder, and pip an environment.
    /\ disk.project # "dir" => disk.tests = "absent" /\ disk.venv = "absent"
                               /\ disk.requirements = "absent"
    /\ disk.tests # "dir" => disk.test = "absent"
    /\ installed # {} => disk.venv = "whole"

Init ==
    /\ disk = [project |-> "absent", tests |-> "absent", test |-> "absent",
               requirements |-> "absent", venv |-> "absent"]
    /\ listed = {} /\ installed = {}
    /\ desk = [editor |-> "off", titled |-> FALSE]
    /\ req = [kind |-> "setup", packages |-> {}]
    /\ pc = "IDLE" /\ tool = NoTool /\ late = {} /\ result = "none" /\ abort = "none"
    /\ final = "UNKNOWN"
    /\ used = [requests |-> 0, actions |-> 0, repairs |-> 0]
    /\ hindered = FALSE

\* A place with the folders it is in, as mkdir(parents=True) makes them.
WithFolders(d, place) ==
    [d EXCEPT !.project = "dir",
              !.tests = IF place \in {"tests", "test"} THEN "dir" ELSE @]

-----------------------------------------------------------------------------
(* The person.                                                             *)

\* What they do during a run is not its plan.
Meddles ==
    /\ hindered' = (hindered \/ pc \notin {"IDLE", "ENDED"})
    /\ UNCHANGED <<req, pc, tool, result, abort, final, used>>

MakesProject ==
    /\ disk.project = "absent"
    /\ \E p \in {"dir", "file"} : disk' = [disk EXCEPT !.project = p]
    /\ UNCHANGED <<listed, installed, desk, late>> /\ Meddles

AddsFile ==
    /\ disk.project = "dir"
    /\ \E f \in Files :
        /\ disk[f] = "absent"
        /\ disk' = [WithFolders(disk, f) EXCEPT ![f] = "theirs"]
        /\ listed' \in IF f = "requirements" THEN SUBSET Packages ELSE {listed}
        /\ late' = IF pc = "PUTTING" THEN late \cup {f} ELSE late
    /\ UNCHANGED <<installed, desk>> /\ Meddles

UsesEditor ==
    /\ \/ disk.project = "dir" /\ desk' = [desk EXCEPT !.editor = "project"]
       \/ desk' = [editor |-> "off", titled |-> FALSE]
    /\ UNCHANGED <<disk, listed, installed, late>> /\ Meddles

-----------------------------------------------------------------------------
(* api.py: what a request is resolved to, and the policy its run is given. *)

Occupied ==
    disk.project = "file"
    \/ \E place \in {"tests", "requirements", "venv"} : disk[place] # "absent"

\* The packages are those the sentence names; an open request names none.
SetupRequests == [kind : {"setup"}, packages : SUBSET Packages]
OpenRequest == [kind |-> "open", packages |-> {}]

\* A remembered folder is looked up on the disk once more.
Located == disk.project = "dir"

Resolves(r) == IF r.kind = "setup" THEN ~ Occupied ELSE Located

Ask ==
    /\ pc \in {"IDLE", "ENDED"} /\ used.requests < MaxRequests
    /\ \E r \in SetupRequests \cup {OpenRequest} :
        req' = r /\ pc' = (IF Resolves(r) THEN "PLANNING" ELSE "IDLE")
    /\ used' = [requests |-> used.requests + 1, actions |-> 0, repairs |-> 0]
    /\ tool' = NoTool /\ late' = {} /\ result' = "none" /\ abort' = "none" /\ final' = "UNKNOWN"
    /\ hindered' = FALSE
    /\ UNCHANGED world

Writes == {"create_dir", "write_file", "fetch_file", "create_venv", "install_requirements"}

\* What a run may do in the folder: one that only opens it reads.
Granted(kind) == IF kind = "setup" THEN {"read", "write"} ELSE {"read"}

Writable(t) == t.kind \in Writes => "write" \in Granted(req.kind)

Readable(t) == t.kind \notin Writes /\ t.on # "nothing" => "read" \in Granted(req.kind)

\* Policy.check: launch_app takes no target.
Denied(t) ==
    \/ t.kind = "launch_app" /\ t.on = "project"
    \/ ~ Writable(t) \/ ~ Readable(t)

-----------------------------------------------------------------------------
(* The planner.                                                            *)

\* The reference plans, of which the goals are the wording.
OpenPlan == <<[kind |-> "launch_app", on |-> "project"]>>

WithPackages(t) == IF req.packages = {} THEN <<>> ELSE <<t>>

SetupPlan ==
    <<[kind |-> "create_dir", on |-> "project"],
      [kind |-> "create_dir", on |-> "tests"],
      [kind |-> "write_file", on |-> "test", over |-> FALSE]>>
    \o WithPackages([kind |-> "write_file", on |-> "requirements", over |-> FALSE])
    \o <<[kind |-> "create_venv", on |-> "venv"]>>
    \o WithPackages([kind |-> "install_requirements", on |-> "venv"])
    \o <<[kind |-> "launch_app", on |-> "project"]>>

Plan == IF req.kind = "open" THEN OpenPlan ELSE SetupPlan

\* Without packages there is no requirements file and pip is not run.
Sensible(t) ==
    req.kind = "setup" /\ req.packages = {}
        => t.on # "requirements" /\ t.kind # "install_requirements"

Propose ==
    /\ pc = "PLANNING" /\ used.actions < MaxActions
    /\ \E t \in Tool :
        /\ Sensible(t)
        /\ tool' = t /\ pc' = "ACTING"
        /\ used' = [used EXCEPT !.actions = @ + 1]
        /\ hindered' = (hindered \/ used.actions + 1 > Len(Plan)
                          \/ t # Plan[used.actions + 1])
    /\ UNCHANGED <<world, req, late, result, abort, final>>

\* Done, out of steps, or unavailable.
Stop ==
    /\ pc = "PLANNING" /\ pc' = "FINAL"
    /\ hindered' = (hindered \/ used.actions # Len(Plan))
    /\ UNCHANGED <<world, req, tool, late, result, abort, final, used>>

-----------------------------------------------------------------------------
(* os_tools.py.  Reports says what the execution came to, and whether that *)
(* is something failing by itself.                                         *)

Reports(class) == result' = class /\ UNCHANGED hindered

Fails(class) == result' = class /\ hindered' = TRUE

CreateDir(place) ==
    /\ IF disk.project = "file"
       THEN /\ UNCHANGED disk
            /\ Reports(IF place = "project" THEN "PRECONDITION_FAILED" ELSE "ACTION_FAILED")
       ELSE \/ disk' = WithFolders(disk, place) /\ Reports("none")
            \/ disk' \in {disk, WithFolders(disk, "project")} /\ Fails("ACTION_FAILED")
    /\ UNCHANGED <<listed, installed, desk>>

Put(f, content) ==
    /\ disk' = [WithFolders(disk, f) EXCEPT ![f] = content]
    /\ IF f # "requirements" THEN UNCHANGED listed
       ELSE CASE content = "whole" -> listed' = req.packages
              [] content = "cut" -> listed' \in SUBSET req.packages
              [] OTHER -> listed' = {}

Finds(f) == disk[f] # "absent"

\* Files are replaced only when that is asked for; the folder is made later.
WriteFile(f) ==
    /\ IF Finds(f) /\ ~ tool.over
       THEN pc' = "CHECKING" /\ Reports("PRECONDITION_FAILED")
       ELSE pc' = "PUTTING" /\ UNCHANGED <<result, hindered>>
    /\ UNCHANGED world

\* write_bytes truncates and then writes: what fails leaves what it wrote.
WriteBytes(f) ==
    IF disk.project = "file"
    THEN UNCHANGED <<disk, listed>> /\ Reports("ACTION_FAILED")
    ELSE \/ Put(f, "whole") /\ Reports("none")
         \/ \E c \in {"empty", "cut"} : Put(f, c) /\ Fails("ACTION_FAILED")

\* The folder is made before the download.
FetchFile(f) ==
    /\ \/ /\ Finds(f) /\ ~ tool.over
          /\ pc' = "CHECKING" /\ Reports("PRECONDITION_FAILED") /\ UNCHANGED disk
       \/ /\ ~ Finds(f) /\ disk.project = "file"
          /\ pc' = "CHECKING" /\ Reports("ACTION_FAILED") /\ UNCHANGED disk
       \/ /\ IF Finds(f) THEN tool.over ELSE disk.project # "file"
          /\ pc' = "PUTTING" /\ disk' = WithFolders(disk, f)
          /\ UNCHANGED <<result, hindered>>
    /\ UNCHANGED <<listed, installed, desk>>

\* Streamed to a temporary file and moved into place; what is fetched may be
\* nothing, and names any packages.  A host that is not listed, also one it is
\* redirected to, is refused.
Download(f) ==
    \/ /\ \E c \in {"empty", "whole"} :
            /\ disk' = [disk EXCEPT ![f] = c]
            /\ listed' \in IF f # "requirements" THEN {listed}
                           ELSE IF c = "whole" THEN SUBSET Packages ELSE {{}}
       /\ Reports("none")
    \/ /\ UNCHANGED <<disk, listed>>
       /\ \E c \in {"ACTION_FAILED", "PERMISSION_DENIED"} : Fails(c)

\* Built by a process of its own, which may fail or be stopped halfway.
CreateVenv ==
    /\ IF disk.venv # "absent" \/ disk.project = "file"
       THEN /\ UNCHANGED disk
            /\ Reports(IF disk.venv # "absent" THEN "PRECONDITION_FAILED"
                       ELSE "ACTION_FAILED")
       ELSE \/ disk' = [WithFolders(disk, "venv") EXCEPT !.venv = "whole"] /\ Reports("none")
            \/ /\ \E left \in Venv \ {"whole"} :
                    disk' = [WithFolders(disk, "venv") EXCEPT !.venv = left]
               /\ \E c \in {"ACTION_FAILED", "TRANSIENT"} : Fails(c)
    /\ UNCHANGED <<listed, installed, desk>>

InstallRequirements ==
    /\ IF disk.requirements = "absent" \/ disk.venv \in {"absent", "broken"}
       THEN UNCHANGED installed /\ Reports("PRECONDITION_FAILED")
       ELSE IF disk.venv = "bare"
       THEN UNCHANGED installed /\ Reports("ACTION_FAILED")
       ELSE \/ installed' = installed \cup listed /\ Reports("none")
            \/ /\ \E some \in SUBSET listed : installed' = installed \cup some
               /\ \E c \in {"ACTION_FAILED", "TRANSIENT"} : Fails(c)
    /\ UNCHANGED <<disk, listed, desk>>

\* No executable is found for it.
NotInstalled == UNCHANGED desk /\ Fails("ENVIRONMENT")

\* The launch is requested; what comes of it shows on the desk, or does not.
LaunchApp ==
    /\ \/ NotInstalled
       \/ /\ desk' = [desk EXCEPT !.editor = IF @ = "off" THEN "other" ELSE @]
          /\ Reports("none")
       \/ UNCHANGED desk /\ Fails("none")
    /\ UNCHANGED <<disk, listed, installed>>

\* The shell's own window for a folder is titled with its name.
OpenFile ==
    /\ IF disk.project = "absent"
       THEN UNCHANGED desk /\ Reports("PRECONDITION_FAILED")
       ELSE \/ desk' = [desk EXCEPT !.titled = TRUE] /\ Reports("none")
            \/ UNCHANGED desk /\ \E c \in {"none", "ACTION_FAILED"} : Fails(c)
    /\ UNCHANGED <<disk, listed, installed>>

ListDirectory ==
    /\ Reports(IF disk.project = "dir" THEN "none" ELSE "PRECONDITION_FAILED")
    /\ UNCHANGED world

\* What it cannot read it passes over.
SearchFiles ==
    /\ Reports(IF disk.project = "dir" THEN "none" ELSE "PRECONDITION_FAILED")
    /\ UNCHANGED world

\* Also a file that is too long, binary or not UTF-8 is refused.
ReadTextFile(f) ==
    /\ IF disk[f] = "absent" THEN Reports("PRECONDITION_FAILED")
       ELSE \/ Reports("none")
            \/ disk[f] = "theirs" /\ Fails("PRECONDITION_FAILED")
    /\ UNCHANGED world

\* execute, behind the gate of the runner.
Execute ==
    /\ pc = "ACTING" /\ ~ Denied(tool)
    /\ CASE tool.kind = "write_file" -> WriteFile(tool.on)
         [] tool.kind = "fetch_file" -> FetchFile(tool.on)
         [] tool.kind \notin Putting ->
              /\ pc' = "CHECKING"
              /\ CASE tool.kind = "create_dir" -> CreateDir(tool.on)
                   [] tool.kind = "create_venv" -> CreateVenv
                   [] tool.kind = "install_requirements" -> InstallRequirements
                   [] tool.kind = "launch_app" -> LaunchApp
                   [] tool.kind = "open_file" -> OpenFile
                   [] tool.kind = "read_text_file" -> ReadTextFile(tool.on)
                   [] tool.kind = "search_files" -> SearchFiles
                   [] OTHER -> ListDirectory
    /\ UNCHANGED <<req, tool, late, abort, final, used>>

\* The rest of a write or a fetch, a whole download later.
PutFile ==
    /\ pc = "PUTTING" /\ pc' = "CHECKING"
    /\ IF tool.kind = "write_file" THEN WriteBytes(tool.on) ELSE Download(tool.on)
    /\ late' = {}
    /\ UNCHANGED <<installed, desk, req, tool, abort, final, used>>

Refuse ==
    /\ pc = "ACTING" /\ pc' = "CHECKING" /\ Denied(tool)
    /\ result' = "PERMISSION_DENIED"
    /\ UNCHANGED <<world, req, tool, late, abort, final, used, hindered>>

-----------------------------------------------------------------------------
(* observe.py: what is there to be read.                                   *)

FileState(f) == disk[f]
DirState(place) == disk[place]
HasInterpreter == disk.venv \in {"bare", "whole"}
Importable(p) == p \in installed
Running == desk.editor # "off"

\* Any visible window with the folder's name in its title.
Titled == desk.titled \/ desk.editor = "project"

-----------------------------------------------------------------------------
(* verifiers.py: the verdicts a reading can come to.  Any may be prevented *)
(* from reading, and then knows nothing.                                   *)

Holds(condition) == {IF condition THEN "PASS" ELSE "FAIL", "UNKNOWN"}

ReadDir(place) == Holds(DirState(place) = "dir")

\* Mutant: that the file is there is enough.
ReadFilePresent(f) == Holds(FileState(f) # "absent")

ReadFile(f) == Holds(FileState(f) \notin {"absent", "empty"})

\* By importing it under the name it was asked for, which may not be its own.
ReadPackage(p) == IF Importable(p) THEN Verdict ELSE {"FAIL", "UNKNOWN"}

\* Packages are not looked for in an environment that is none.
ReadEnvironment(packages) ==
    {Holds(HasInterpreter)} \cup {ReadPackage(p) : p \in packages}

\* A window of VS Code, which may be late.
ReadEditorWindow == IF Running THEN Verdict ELSE {"FAIL", "UNKNOWN"}

\* verify_opened: without such a window it cannot tell.
ReadOpened == IF Titled THEN {"PASS", "UNKNOWN"} ELSE {"UNKNOWN"}

\* verify_app_running: the process and its window; and the folder is shown.
ReadEditor == {Holds(Running), ReadEditorWindow}
Shown == ReadEditor \cup {ReadOpened}

\* The verdicts of a verification made of these readings.
Verdicts(readings) ==
    {v \in Verdict :
        IF v = "PASS" THEN \A r \in readings : v \in r ELSE \E r \in readings : v \in r}

\* SetupPythonProject.verify_checkpoint: of what the action did, and only then.
SetupCheckpoint ==
    CASE tool.kind = "create_dir" -> Verdicts({ReadDir(tool.on)})
      [] tool.kind = "write_file" -> Verdicts({ReadFile(tool.on)})
      [] tool.kind = "create_venv" -> Verdicts(ReadEnvironment({}))
      [] tool.kind = "install_requirements" -> Verdicts(ReadEnvironment(req.packages))
      [] tool.kind = "launch_app" -> Verdicts(Shown)
      [] OTHER -> {"none"}

\* OpenProjectInEditor._verify, which its checkpoint is too.
OpenFinal == {ReadDir("project")} \cup Shown

\* OpenProjectInEditor.verify_checkpoint.
OpenCheckpoint ==
    IF tool.kind = "launch_app" THEN Verdicts(OpenFinal) ELSE {"none"}

Checkpoint == IF req.kind = "setup" THEN SetupCheckpoint ELSE OpenCheckpoint

SetupFinal ==
    {ReadDir("project"), ReadDir("tests")} \cup {ReadFile(f) : f \in Wanted}
    \cup ReadEnvironment(req.packages) \cup Shown

Final == Verdicts(IF req.kind = "open" THEN OpenFinal ELSE SetupFinal)

-----------------------------------------------------------------------------
(* runner.py: an action is judged, and a failure recovered from or not.    *)

Classify(check) ==
    IF result # "none" THEN result
    ELSE IF check = "FAIL" THEN "VERIFICATION_FAILED" ELSE "INCONCLUSIVE"

\* The strategy of a class: the action once more, another plan, or neither.
Retried == {"ACTION_FAILED", "TRANSIENT", "VERIFICATION_FAILED", "INCONCLUSIVE"}
Replanned == {"PRECONDITION_FAILED"}

\* Mutant: a write that failed goes on where it had looked.
RecoverPutting(class) ==
    \/ /\ class \in Retried \cup Replanned /\ used.repairs < MaxRepairs
       /\ pc' = IF class \notin Retried THEN "PLANNING"
                ELSE IF tool.kind \in Putting THEN "PUTTING" ELSE "ACTING"
       /\ used' = [used EXCEPT !.repairs = @ + 1]
       /\ UNCHANGED abort
    \/ pc' = "FINAL" /\ abort' = class /\ UNCHANGED used

Recover(class) ==
    \/ /\ class \in Retried \cup Replanned /\ used.repairs < MaxRepairs
       /\ pc' = IF class \in Retried THEN "ACTING" ELSE "PLANNING"
       /\ used' = [used EXCEPT !.repairs = @ + 1]
       /\ UNCHANGED abort
    \/ pc' = "FINAL" /\ abort' = class /\ UNCHANGED used

Check ==
    /\ pc = "CHECKING"
    /\ \E check \in Checkpoint :
        /\ IF result = "none" /\ check \in {"none", "PASS"}
           THEN pc' = "PLANNING" /\ UNCHANGED <<abort, used>>
           ELSE Recover(Classify(check))
        /\ hindered' = (hindered \/ check \in {"FAIL", "UNKNOWN"})
    /\ UNCHANGED <<world, req, tool, late, result, final>>

\* verify_final, whatever ended the run.
VerifyFinal ==
    /\ pc = "FINAL" /\ pc' = "ENDED"
    /\ final' \in Final
    /\ hindered' = (hindered \/ "PASS" \in Final \ {final'})
    /\ UNCHANGED <<world, req, tool, late, result, abort, used>>

Kill ==
    /\ pc \notin {"IDLE", "ENDED"} /\ pc' = "IDLE"
    /\ late' = {}
    /\ UNCHANGED <<world, req, tool, result, abort, final, used, hindered>>

Next ==
    \/ MakesProject \/ AddsFile \/ UsesEditor
    \/ Ask \/ Propose \/ Stop
    \/ Execute \/ PutFile \/ Refuse \/ Check \/ VerifyFinal \/ Kill

Spec == Init /\ [][Next]_vars

-----------------------------------------------------------------------------
(* Properties; those of the folder are in FolderPromises.                  *)

\* A run that took the actions of its plan in order, and in which nothing
\* failed by itself, ends as a success (setup_project.py:343-350: the editor is
\* opened last so that what it shows is the finished project).
FaultlessRunSucceeds == pc = "ENDED" /\ ~ hindered => Status = "SUCCESS"

=============================================================================
