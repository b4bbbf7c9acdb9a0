----------------------------- MODULE WhatsAppSend ------------------------------
(***************************************************************************)
(* skills/browser/backend.py, send_whatsapp_message and verify_whatsapp_   *)
(* message on the one WhatsApp Web page a session has, and the observer of *)
(* whatsapp_intelligence.py that opens chats on the same page.  The thread *)
(* of a task and the observer's thread share a BrowserSkillAdapter; every  *)
(* command of it is a step, and the page moves on between commands.        *)
(*                                                                         *)
(* The page is external, modelled from how the code reads it: the list of  *)
(* chats lags behind the search box, a click opens a chat at once, later   *)
(* or not at all, each chat keeps what its composer holds.  Waits with a   *)
(* deadline are polls, Patience of them.  A generation is current while no *)
(* other observation and no command came after it, so of the counter only  *)
(* whose observation is the newest is kept; that check and the command it  *)
(* guards are one step.  The text to send is a few characters, which the   *)
(* code compares as _whatsapp_normalize leaves them.                       *)
(*                                                                         *)
(* Chats are told apart as that leaves their names.  Left out: how         *)
(* elements are read from an observation, the account's own chat, and the  *)
(* first of the two clicks that reach the search box, which can only fail  *)
(* as the second one can.                                                  *)
(***************************************************************************)
EXTENDS SendPromises, FiniteSets

CONSTANTS
    Chats,        \* the chats of the account
    Authorized,   \* authorized_targets of the observer
    Patience,     \* bound: polls until a deadline passes
    Paths,        \* how an approved send is resumed: "direct", "workflow"
    Leftovers,    \* what a composer may hold from before
    MaxDraft,     \* bound: characters a composer takes
    MaxSends      \* bound: approved sends

Keys == Len(Message)

ASSUME SendAssumption ==
    /\ Authorized \subseteq Chats /\ IsFiniteSet(Chats)
    /\ Message \in Seq(Int) /\ Message # <<>> /\ Patience \in Nat \ {0}
    /\ Paths \subseteq {"direct", "workflow"} /\ Leftovers \subseteq Seq(Int)
    /\ MaxDraft \in Nat /\ MaxDraft >= Keys /\ MaxSends \in Nat

Nowhere == "nowhere"

ASSUME NowhereIsNoChat == Nowhere \notin Chats

VARIABLES
    site,      \* what the tab shows: "OTHER", "LOADING", "READY"
    open,      \* the chat in the pane
    opening,   \* the row clicked whose chat is not rendered yet
    draft,     \* the text each composer holds
    read,      \* the chats in whose pane the whole message stands
    box,       \* the search box: "EMPTY", "QUERY", "OTHER"
    rows,      \* the chats listed
    listed,    \* of them, those whose row has their exact name
    latest,    \* whose observation has the current generation
    active,    \* WhatsAppControlLease.active_task_id is set
    sends,     \* number of sends approved
    watcher    \* the observer: position and locals
\* The other variables are those of SendPromises.

page == <<site, open, opening, draft, read, box, rows, listed>>
vars == <<page, latest, active, sends, task, sent, watcher>>

Outcomes == {"NONE", "PASS", "FAIL", "UNKNOWN"}

TaskState ==
    [pc : {"IDLE", "LAND", "SEARCH", "QUERY", "RESULT", "CLICK", "HEADER", "COMPOSER",
           "TYPE", "CONFIRM", "FIND", "SEND", "VERIFY"},
     to : Chats \cup {Nowhere},       \* the recipient
     path : {"direct", "workflow"},
     row : Chats \cup {Nowhere},      \* the search result resolved
     typed : 0..Keys,
     polls : 0..Patience,             \* left until the deadline of a wait
     tries : 0..Patience,             \* left until a deadline around waits
     at : Chats \cup {Nowhere},       \* where the composer was confirmed
     verdict : Outcomes]

TypeOK ==
    /\ site \in {"OTHER", "LOADING", "READY"}
    /\ {open, opening} \subseteq Chats \cup {Nowhere}
    /\ \A c \in Chats : draft[c] \in Seq(Int) /\ Len(draft[c]) <= MaxDraft
    /\ {read, rows, listed} \subseteq SUBSET Chats
    /\ listed \subseteq rows
    /\ box \in {"EMPTY", "QUERY", "OTHER"}
    /\ latest \in {"NOBODY", "TASK", "WATCHER"}
    /\ active = (task.path = "workflow")
    /\ task \in TaskState
    /\ Len(sent) <= 1 /\ sends \in 0..MaxSends
    /\ watcher \in [pc : {"GATE", "LOOK", "OPEN", "HEADER", "READ"},
                    row : Chats \cup {Nowhere}]

Rest == [pc |-> "IDLE", to |-> Nowhere, path |-> "direct", row |-> Nowhere, typed |-> 0,
         polls |-> 0, tries |-> 0, at |-> Nowhere, verdict |-> "NONE"]

Away == [pc |-> "GATE", row |-> Nowhere]

\* As an earlier send, or the user, may have left the page.
Init ==
    /\ site \in {"OTHER", "READY"} /\ open = Nowhere /\ opening = Nowhere
    /\ \E left \in Leftovers, c \in Chats : draft = [[d \in Chats |-> <<>>] EXCEPT ![c] = left]
    /\ read = {}
    /\ box = (IF site = "READY" THEN "OTHER" ELSE "EMPTY") /\ rows = {} /\ listed = {}
    /\ latest = "NOBODY" /\ active = FALSE
    /\ task = Rest /\ sent = <<>> /\ sends = 0
    /\ watcher = Away

-----------------------------------------------------------------------------
(* The page, as the code finds it.                                         *)

Loads ==
    /\ site = "LOADING" /\ site' = "READY"
    /\ UNCHANGED <<open, opening, draft, read, box, rows, listed,
                   latest, active, sends, task, sent, watcher>>

\* A chat opens after the click, which may leave the search as it is or not.
Renders ==
    /\ opening # Nowhere /\ open' = opening /\ opening' = Nowhere
    /\ box' \in {box, "EMPTY"}
    /\ UNCHANGED <<site, draft, read, rows, listed,
                   latest, active, sends, task, sent, watcher>>

\* The list follows the search box: the chat searched for, or the rows of
\* home, whose names have the time and a preview around them.
Relists ==
    /\ site = "READY"
    /\ IF box = "QUERY" THEN rows' = {task.to} \ {Nowhere} /\ listed' = rows'
       ELSE rows' \in SUBSET Chats /\ listed' = {}
    /\ rows' # rows \/ listed' # listed
    /\ UNCHANGED <<site, open, opening, draft, read, box,
                   latest, active, sends, task, sent, watcher>>

\* The click on a row: it opens the chat, or will, or nothing comes of it.
Clicked(row) ==
    \/ open' = row /\ opening' = Nowhere
    \/ opening' = row /\ UNCHANGED open
    \/ UNCHANGED <<open, opening>>

-----------------------------------------------------------------------------
(* The task: the call, with the commands of BrowserSkill in their order.   *)

Goes(pc) == task' = [task EXCEPT !.pc = pc, !.polls = Patience]

\* A wait with a deadline: another observation, or the call raises.
Raises ==
    task' = [task EXCEPT !.pc = "VERIFY", !.polls = Patience, !.typed = 0, !.row = Nowhere]

Polls ==
    IF task.polls > 1 THEN task' = [task EXCEPT !.polls = @ - 1] ELSE Raises

\* Mutant: every attempt has the whole deadline.
RetriesAfresh(pc) == task' = [task EXCEPT !.pc = pc, !.polls = Patience, !.typed = 0]

\* Around a wait, another deadline: start over at pc, or the call raises.
Retries(pc) ==
    IF task.tries > 1
    THEN task' = [task EXCEPT !.pc = pc, !.polls = Patience, !.tries = @ - 1, !.typed = 0]
    ELSE Raises

Observes == latest' = "TASK"
Commands == latest' = "NOBODY"
Current == latest = "TASK"

\* The approval is answered.  A workflow's step runs with the resource key
\* "whatsapp", which sets the lease's active task; one that is resumed
\* directly has the key "browser", and the page its task id was bound to.
Approve(c, path) ==
    /\ task.pc = "IDLE" /\ sends < MaxSends
    /\ sends' = sends + 1 /\ sent' = <<>>
    /\ active' = (path = "workflow")
    /\ task' = [Rest EXCEPT !.pc = "LAND", !.to = c, !.path = path,
                            !.polls = Patience, !.tries = Patience]
    /\ UNCHANGED <<page, latest, watcher>>

\* open_whatsapp: the page is kept if it is WhatsApp's, else navigated to.
Land ==
    /\ task.pc = "LAND"
    /\ \/ site = "OTHER" /\ site' = "LOADING" /\ open' = Nowhere /\ opening' = Nowhere
          /\ box' = "EMPTY" /\ rows' = {} /\ listed' = {} /\ Commands /\ UNCHANGED task
       \/ site = "LOADING" /\ Polls /\ Observes
          /\ UNCHANGED <<site, open, opening, box, rows, listed>>
       \/ site = "READY" /\ Goes("SEARCH") /\ Observes
          /\ UNCHANGED <<site, open, opening, box, rows, listed>>
    /\ UNCHANGED <<draft, read, active, sends, sent, watcher>>

\* _whatsapp_search_ref, and the click that focuses what it found.
Search ==
    /\ task.pc = "SEARCH" /\ Goes("QUERY") /\ Observes
    /\ UNCHANGED <<page, active, sends, sent, watcher>>

\* The recipient is typed after what the box holds already; a key that fails
\* leaves part of it.
Query ==
    /\ task.pc = "QUERY"
    /\ \/ /\ Current /\ Goes("RESULT")
          /\ box' = IF box = "EMPTY" THEN "QUERY" ELSE "OTHER"
       \/ Current /\ Raises /\ box' = "OTHER"
       \/ ~ Current /\ Raises /\ UNCHANGED box
    /\ Commands
    /\ UNCHANGED <<site, open, opening, draft, read, rows, listed,
                   active, sends, sent, watcher>>

\* _whatsapp_first_search_result: the recipient's row, or the first of any.
Found == IF task.to \in rows THEN {task.to} ELSE rows

\* A box whose value is another text is waited for.  What is not found at a
\* deadline is looked for again until the click's deadline.
Result ==
    /\ task.pc = "RESULT" /\ Observes
    /\ \/ /\ box # "OTHER"
          /\ \E c \in Found :
                task' = [task EXCEPT !.pc = "CLICK", !.row = c]
       \/ /\ box = "OTHER" \/ Found = {}
          /\ IF task.polls > 1 THEN Polls ELSE Retries("RESULT")
    /\ UNCHANGED <<page, active, sends, sent, watcher>>

\* A row that is stale or not visible any more is resolved again.
Click ==
    /\ task.pc = "CLICK"
    /\ \/ Current /\ Clicked(task.row) /\ Goes("HEADER") /\ Commands
       \/ Retries("RESULT") /\ UNCHANGED <<open, opening>>
          /\ latest' \in {latest, "NOBODY"}
    /\ UNCHANGED <<site, draft, read, box, rows, listed,
                   active, sends, sent, watcher>>

\* An element with the contact's name: the header of its chat, or a row.
Named(c) == open = c \/ c \in listed

\* _whatsapp_chat_header_matches.
Header ==
    /\ task.pc = "HEADER" /\ Observes
    /\ IF Named(task.to)
       THEN task' = [task EXCEPT !.pc = "COMPOSER", !.polls = Patience, !.tries = Patience,
                                !.row = Nowhere]
       ELSE Polls
    /\ UNCHANGED <<page, active, sends, sent, watcher>>

\* _whatsapp_composer_target: the composer of whatever chat is open.
Composer ==
    /\ task.pc = "COMPOSER" /\ Observes
    /\ IF open # Nowhere THEN Goes("TYPE") ELSE Polls
    /\ UNCHANGED <<page, active, sends, sent, watcher>>

Room == open # Nowhere /\ Len(draft[open]) < MaxDraft
Pressed(key) == [draft EXCEPT ![open] = Append(@, key)]

\* _whatsapp_type_text: the target is checked before the first key.  Each key
\* goes to the composer there is then, or is lost; that it failed is noticed if
\* the command raises, or it was the last.
Type ==
    /\ task.pc = "TYPE"
    /\ \/ /\ task.typed > 0 \/ Current
          /\ draft' = draft \/ (Room /\ draft' = Pressed(Message[task.typed + 1]))
          /\ \/ /\ task.typed + 1 < Keys
                /\ task' = [task EXCEPT !.typed = @ + 1]
             \/ /\ task.typed + 1 = Keys
                /\ task' = [task EXCEPT !.pc = "CONFIRM", !.polls = Patience, !.typed = 0]
             \/ Retries("COMPOSER")
       \/ /\ task.typed = 0 /\ ~ Current
          /\ Retries("COMPOSER") /\ UNCHANGED draft
    /\ Commands
    /\ UNCHANGED <<site, open, opening, read, box, rows, listed,
                   active, sends, sent, watcher>>

\* The message is among what the text says.
Contains(text) ==
    LET n == Normalized(text)
        m == Normalized(Message)
        length == Len(m.letters)
    IN
    \E i \in 0..(Len(n.letters) - length) :
        /\ \A k \in 1..length : n.letters[i + k] = m.letters[k]
        /\ \A k \in 1..(length - 1) : i + k \in n.breaks <=> k \in m.breaks

\* Mutant: the message may have other text around it.
HeldAmong(text) == Contains(text)

\* What the composer must hold.
Held(text) == Normalized(text) = Normalized(Message)

\* _whatsapp_wait_for_composer_text.
Confirm ==
    /\ task.pc = "CONFIRM" /\ Observes
    /\ IF open # Nowhere /\ Held(draft[open])
       THEN task' = [task EXCEPT !.pc = "FIND", !.polls = Patience, !.at = open]
       ELSE Polls
    /\ UNCHANGED <<page, active, sends, sent, watcher>>

\* _whatsapp_send_target: a button, which some builds do not have; then Enter
\* in the composer, unless the message has several lines or there is none.
Find ==
    /\ task.pc = "FIND" /\ Observes
    /\ \/ open # Nowhere /\ draft[open] # <<>> /\ Goes("SEND")
       \/ task.polls > 1 /\ Polls
       \/ task.polls = 1 /\ (Raises \/ (open # Nowhere /\ Goes("SEND")))
    /\ UNCHANGED <<page, active, sends, sent, watcher>>

\* A pane shows what was sent in it, and what its composer holds.
Submitted ==
    /\ open # Nowhere /\ draft[open] # <<>>
    /\ sent' = <<[to |-> open, text |-> draft[open]]>>
    /\ draft' = [draft EXCEPT ![open] = <<>>]
    /\ read' = IF Contains(draft[open]) THEN read \cup {open} ELSE read

\* A stale target is refused.  Otherwise the page takes the click, or the key,
\* or does not; whether the command reports so or fails makes no difference
\* to what follows.
Send ==
    /\ task.pc = "SEND" /\ Goes("VERIFY")
    /\ \/ Current /\ Submitted
       \/ UNCHANGED <<draft, read, sent>>
    /\ Commands
    /\ UNCHANGED <<site, open, opening, box, rows, listed, active, sends, watcher>>

\* Any command may fail: it timed out, or the session is gone.  Where the call
\* catches that it is among the outcomes above.
Fails ==
    /\ task.pc \in {"LAND", "SEARCH", "RESULT", "CLICK", "HEADER", "COMPOSER", "CONFIRM",
                    "FIND"}
    /\ Raises /\ latest' \in {latest, "NOBODY"}
    /\ UNCHANGED <<page, active, sends, sent, watcher>>

Shown == open # Nowhere /\ (open \in read \/ Contains(draft[open]))

Ends(verdict) ==
    task' = [Rest EXCEPT !.verdict = verdict] /\ sent' = <<>> /\ active' = FALSE

\* verify_whatsapp_message, whatever the call reported.
Verify ==
    /\ task.pc = "VERIFY" /\ Observes
    /\ \/ site = "OTHER" /\ Ends("FAIL")
       \/ site # "OTHER" /\ Shown /\ Named(task.to) /\ Ends("PASS")
       \/ /\ site # "OTHER" /\ ~ (Shown /\ Named(task.to))
          /\ IF task.polls > 1 THEN Polls /\ UNCHANGED <<sent, active>>
             ELSE Ends(IF Named(task.to) THEN "FAIL" ELSE "UNKNOWN")
       \/ Ends("UNKNOWN")   \* the observation failed
    /\ UNCHANGED <<page, sends, watcher>>

Works ==
    \/ Land \/ Search \/ Query \/ Result \/ Click \/ Header \/ Composer \/ Type
    \/ Confirm \/ Find \/ Send \/ Fails \/ Verify

-----------------------------------------------------------------------------
(* The observer: the gate, and then one row at most.                       *)

Watches(pc) ==
    watcher' = IF pc = "GATE" THEN Away ELSE [watcher EXCEPT !.pc = pc]

CanObserve == ~ active

Gate ==
    /\ watcher.pc = "GATE" /\ CanObserve /\ Watches("LOOK")
    /\ UNCHANGED <<page, latest, active, sends, task, sent>>

\* The loop's observation: the row of an authorized chat that has had some
\* activity since it was last read.
Look ==
    /\ watcher.pc = "LOOK" /\ latest' = "WATCHER"
    /\ \/ /\ site = "READY"
          /\ \E c \in Authorized \cap rows :
                watcher' = [watcher EXCEPT !.pc = "OPEN", !.row = c]
       \/ Watches("GATE")
    /\ UNCHANGED <<page, active, sends, task, sent>>

\* open_whatsapp_chat_row.
Open ==
    /\ watcher.pc = "OPEN"
    /\ \/ latest = "WATCHER" /\ Clicked(watcher.row) /\ Watches("HEADER")
          /\ latest' = "NOBODY"
       \/ Watches("GATE") /\ UNCHANGED <<open, opening, latest>>
    /\ UNCHANGED <<site, draft, read, box, rows, listed, active, sends, task, sent>>

\* Its confirmation, waited for until a deadline.
Opened ==
    /\ watcher.pc = "HEADER" /\ latest' = "WATCHER"
    /\ \/ Named(watcher.row) /\ Watches("READ")
       \/ ~ Named(watcher.row) /\ (Watches("GATE") \/ UNCHANGED watcher)
    /\ UNCHANGED <<page, active, sends, task, sent>>

\* What was opened is observed.
Read ==
    /\ watcher.pc = "READ" /\ latest' = "WATCHER" /\ Watches("GATE")
    /\ UNCHANGED <<page, active, sends, task, sent>>

Next ==
    \/ Loads \/ Renders \/ Relists
    \/ \E c \in Chats, path \in Paths : Approve(c, path)
    \/ Works
    \/ Gate \/ Look \/ Open \/ Opened \/ Read

Spec == Init /\ [][Next]_vars

\* A thread goes on with its call: every command has a timeout.
FairSpec == Spec /\ WF_vars(Works)

-----------------------------------------------------------------------------
(* Properties; those of what is sent are in SendPromises.                  *)

\* Every send comes to an end, though it polls, retries and is interfered with.
SendReturns == task.pc # "IDLE" ~> task.pc = "IDLE"

\* "Confirm the exact message is actually present in the composer, from a fresh
\* observation, before ever clicking Send" (backend.py:2875): what is confirmed
\* is the message to the character.
ConfirmedIsExact == task.pc \in {"FIND", "SEND"} => draft[task.at] = Message

=============================================================================
