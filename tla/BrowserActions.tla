---------------------------- MODULE BrowserActions ----------------------------
(***************************************************************************)
(* agent_control/skills/browser: one browser action of a run, from the     *)
(* boundary of the skill (adapt_action) over the adapter (backend.py) to   *)
(* the verifier.  The adapter belongs to one task; BrowserSkill, the       *)
(* command-line tool behind it, is external.                               *)
(*                                                                         *)
(* The page changes by itself at any time: it loads, redirects, or the     *)
(* user is on it.  An observation gives its elements the references 1, 2   *)
(* and so on, in place of those given before; a reference keeps to its     *)
(* element and is refused once the element is gone.  A session can die at  *)
(* any time, and a command that reports an error may have had its effect.  *)
(*                                                                         *)
(* Generations are only ever compared with the one a target was made of,   *)
(* so the target says whether it is still the current one.                 *)
(*                                                                         *)
(* Left out: the parsing of observations and addresses, the profile a      *)
(* session is started on, job applications, and the WhatsApp workflow,     *)
(* whose adapter two threads share (WhatsAppSend).                         *)
(***************************************************************************)
EXTENDS Naturals, Sequences, FiniteSets, SequencesExt

CONSTANTS
    Pages,        \* bound: what the page can be
    Actions       \* bound: the actions the runner executes

Place == {"site", "results", "watch", "shorts"}

\* An element: how well it matches the query of the action, whether it shows
\* that it is a Short, and a duration over 90 seconds.
Element == [name : STRING, match : Nat, short : BOOLEAN, long : BOOLEAN]

Kind == {"navigate", "key", "tab", "close", "read", "click", "fill", "song"}

OnYouTube(p) == p.at \in {"results", "watch", "shorts"}

\* A target by "ref" is the planner's string, by "query" is resolved at the
\* boundary of the skill, and "held" is what the fast path resolved before.
ASSUME PagesAndActions ==
    /\ \A p \in Pages :
        /\ DOMAIN p = {"at", "shown", "blocked"}
        /\ p.at \in Place /\ p.blocked \in BOOLEAN
        /\ p.shown \in Seq(Element)
    /\ Pages # {}
    \* What another site shows is gone once the browser is on YouTube, and the
    \* other way round: they share no element that shows a Short.
    /\ \A p, q \in Pages : OnYouTube(p) /\ ~ OnYouTube(q) =>
          \A e \in Range(p.shown) \cap Range(q.shown) : ~ e.short
    /\ \A a \in Actions :
        /\ DOMAIN a = {"kind", "by", "ref", "expected"}
        /\ a.kind \in Kind /\ a.by \in {"none", "ref", "query", "held"}
        /\ a.ref \in Nat /\ a.expected \subseteq Place

NoPage == [at |-> "none", shown |-> <<>>, blocked |-> FALSE]
NoElement == [name |-> "none", match |-> 0, short |-> FALSE, long |-> FALSE]
NoTarget == [ref |-> 0, element |-> NoElement, current |-> FALSE]
NoAction == [kind |-> "none", by |-> "none", ref |-> 0, expected |-> {}]

VARIABLES
    page,       \* what the browser shows
    session,    \* the adapter's session: "none", "live", or "dead" for bsk
    store,      \* bsk's references of the session
    seen,       \* _last_observation, or NoPage
    pc,         \* IDLE, READY, TARGET, GUARD, EXECUTE, VERIFY; of a song
                \* SEARCH, LOOK, PICKED, WATCH, CONFIRM
    action,     \* the action being executed
    target,     \* its reference, the element it was chosen for, and whether
                \* its generation is the current one
    song,       \* dismissals, and whether it recovered from a Short
    late,       \* the deadline of the song is over
    answer,     \* of the last action: refused at the boundary, failed in the
                \* executor, verified, deferred or not verified
    effects,    \* history: how often the action acted on the page
    hits        \* history: by what, what was chosen, what was hit, and where

adapter == <<session, store, seen>>
call == <<pc, action, target, song, late, answer>>
history == <<effects, hits>>
vars == <<page, adapter, call, history>>

Answer == {"none", "refused", "failed", "verified", "deferred", "unverified"}

MaxDismissals == 3

TypeOK ==
    /\ page \in Pages
    /\ session \in {"none", "live", "dead"}
    /\ store \in {p.shown : p \in Pages} \cup {<<>>}
    /\ seen \in Pages \cup {NoPage}
    /\ pc \in {"IDLE", "READY", "TARGET", "GUARD", "EXECUTE", "VERIFY",
               "SEARCH", "LOOK", "PICKED", "WATCH", "CONFIRM"}
    /\ action \in Actions \cup {NoAction}
    /\ target \in [ref : Nat, element : Element \cup {NoElement}, current : BOOLEAN]
    /\ song \in [dismissals : 0..MaxDismissals, recovered : BOOLEAN]
    /\ late \in BOOLEAN
    /\ answer \in Answer
    /\ effects \in Nat
    /\ hits \subseteq [by : {"none", "ref", "query", "held"}, chosen : Element \cup {NoElement},
                      hit : Element, kind : Kind, youtube : BOOLEAN]

NewSong == [dismissals |-> 0, recovered |-> FALSE]

Init ==
    /\ page \in Pages
    /\ session = "none" /\ store = <<>> /\ seen = NoPage
    /\ pc = "IDLE" /\ action = NoAction /\ target = NoTarget
    /\ song = NewSong /\ late = FALSE /\ answer = "none"
    /\ effects = 0 /\ hits = {}

-----------------------------------------------------------------------------
(* The world.                                                              *)

Shift ==
    /\ page' \in Pages
    /\ UNCHANGED <<adapter, call, history>>

SessionDies ==
    /\ session = "live" /\ session' = "dead"
    /\ UNCHANGED <<page, store, seen, call, history>>

\* Only the workflow of a song looks at the clock in a way that matters.
DeadlinePasses ==
    /\ pc \in {"SEARCH", "LOOK", "PICKED", "WATCH", "CONFIRM"} /\ ~ late /\ late' = TRUE
    /\ UNCHANGED <<page, adapter, pc, action, target, song, answer, history>>

-----------------------------------------------------------------------------
(* The adapter: sessions, observations, generations.                       *)

Outdated(t) == [t EXCEPT !.current = FALSE]

\* observe: new references, a new generation.
Observe == session' = "live" /\ store' = page.shown /\ seen' = page

\* _invalidate_refs, after any command that may change the page.
Invalidate == seen' = NoPage /\ target' = Outdated(target)

\* session_start: bsk may refuse, or name no session.
StartFails == session' = "none" /\ store' = <<>> /\ seen' = NoPage

\* The skill raises before anything was sent.
Refuse == pc' = "IDLE" /\ answer' = "refused" /\ UNCHANGED <<action, song, late, history>>

\* Mutant: on an error the session is made ready again, and the action repeated.
AfterErrorReady == "READY"

\* What the executor does after an error of a command.
AfterError == "IDLE"

Fail == pc' = AfterError /\ answer' = "failed" /\ UNCHANGED <<action, song, late>>

-----------------------------------------------------------------------------
(* adapt_action.                                                           *)

\* _execute_skill_action, for the planner's actions.
Execute(a) ==
    /\ pc = "IDLE" /\ a.by # "held"
    /\ pc' = "READY" /\ action' = a /\ target' = NoTarget
    /\ song' = NewSong /\ late' = FALSE /\ answer' = "none"
    /\ effects' = 0 /\ hits' = {}
    /\ UNCHANGED <<page, adapter>>

\* The elements that match, and the first of those that match best.
Matching(shown) == {i \in DOMAIN shown : shown[i].match > 0}

Best(shown, refs) ==
    CHOOSE i \in refs : \A j \in refs :
        \/ shown[i].match > shown[j].match
        \/ shown[i].match = shown[j].match /\ i <= j

TargetAt(shown, i) == [ref |-> i, element |-> shown[i], current |-> TRUE]

\* FastRoute.resolve: of elements that match alike none is taken.
Unambiguous(shown, i) ==
    /\ i \in Matching(shown)
    /\ \A j \in Matching(shown) \ {i} : shown[j].match < shown[i].match

\* FastInteractionTask: the target is resolved against the observation that
\* the runner made last, and kept as a BrowserTarget.
Hold(a) ==
    /\ pc = "IDLE" /\ a.by = "held"
    /\ Observe
    /\ \E i \in DOMAIN page.shown :
        Unambiguous(page.shown, i) /\ target' = TargetAt(page.shown, i)
    /\ pc' = "READY" /\ action' = a
    /\ song' = NewSong /\ late' = FALSE /\ answer' = "none"
    /\ effects' = 0 /\ hits' = {}
    /\ UNCHANGED page

\* ensure_ready: a session that is not there is started, a dead one is started
\* again once; then the page is observed.
EnsureReady ==
    /\ pc = "READY"
    /\ \/ Observe /\ pc' = "TARGET" /\ target' = Outdated(target)
          /\ UNCHANGED <<action, song, late, answer, history>>
       \/ session # "live" /\ StartFails /\ target' = Outdated(target) /\ Refuse
       \/ session # "live" /\ session' \in {"live", "dead"}
          /\ store' = <<>> /\ seen' = NoPage /\ target' = Outdated(target) /\ Refuse
       \/ session # "none" /\ UNCHANGED <<adapter, target>> /\ Refuse
    /\ UNCHANGED page

\* Mutant: a target is taken for current whatever was observed since.
CurrentAlways(t) == TRUE

\* The generation of the target is the adapter's.
Current(t) == t.current

\* The planner's string is taken as it is; a query is resolved against one more
\* observation; what the fast path holds must be current.
FindTarget ==
    /\ pc = "TARGET"
    /\ CASE action.by = "none" ->
                pc' = "GUARD" /\ UNCHANGED <<adapter, action, target, song, late, answer, history>>
         [] action.by = "ref" ->
                /\ pc' = "GUARD" /\ target' = [NoTarget EXCEPT !.ref = action.ref]
                /\ UNCHANGED <<adapter, action, song, late, answer, history>>
         [] action.by = "held" ->
                /\ UNCHANGED <<adapter, target>>
                /\ IF Current(target)
                   THEN pc' = "GUARD" /\ UNCHANGED <<action, song, late, answer, history>>
                   ELSE Refuse
         [] action.by = "query" ->
                \/ /\ session = "live" /\ Observe /\ Matching(page.shown) # {}
                   /\ target' = TargetAt(page.shown, Best(page.shown, Matching(page.shown)))
                   /\ pc' = "GUARD" /\ UNCHANGED <<action, song, late, answer, history>>
                \/ /\ session = "live" /\ Observe /\ Matching(page.shown) = {}
                   /\ UNCHANGED target /\ Refuse
                \/ UNCHANGED <<adapter, target>> /\ Refuse
    /\ UNCHANGED page

\* Mutant: the boundary looks at targets that were resolved, not at strings.
IsShortResolved(t) ==
    OnYouTube(seen) /\ t.element # NoElement /\ t.ref \in DOMAIN seen.shown
        /\ seen.shown[t.ref].short

\* The cached observation shows that the reference is a Short on YouTube.
IsShort(t) == OnYouTube(seen) /\ t.ref \in DOMAIN seen.shown /\ seen.shown[t.ref].short

\* The last check of the boundary, of clicks only.
Guard ==
    /\ pc = "GUARD"
    /\ IF action.kind = "click" /\ IsShort(target)
       THEN Refuse
       ELSE /\ pc' = IF action.kind = "song" THEN "SEARCH" ELSE "EXECUTE"
            /\ UNCHANGED <<action, song, late, answer, history>>
    /\ UNCHANGED <<page, adapter, target>>

-----------------------------------------------------------------------------
(* BrowserExecutor.                                                        *)

\* bsk acts on the element of the reference, if it is still there.
Reaches(t) ==
    /\ session = "live" /\ t.ref \in DOMAIN store
    /\ store[t.ref] \in Range(page.shown)

Hit(t) ==
    /\ effects' = effects + 1
    /\ hits' = hits \cup {[by |-> action.by, chosen |-> t.element, hit |-> store[t.ref],
                           kind |-> action.kind, youtube |-> OnYouTube(page)]}

\* A command on an element.  After an error the adapter does not know that the
\* page may have changed.
ActOnElement ==
    /\ pc = "EXECUTE" /\ action.kind \in {"click", "fill"}
    /\ \/ Reaches(target) /\ Hit(target) /\ Invalidate /\ pc' = "VERIFY"
          /\ UNCHANGED <<session, store, action, song, late, answer>>
       \/ Reaches(target) /\ Hit(target) /\ Fail /\ UNCHANGED <<adapter, target>>
       \/ Fail /\ UNCHANGED <<adapter, target, history>>
    /\ UNCHANGED page

\* A command on the page: the addresses, keys and scrolling (the wheel, or a
\* key where bsk knows no wheel), and tabs, of which closing keeps the
\* references.
ActOnPage ==
    /\ pc = "EXECUTE" /\ action.kind \in {"navigate", "key", "tab", "close"}
    /\ \/ /\ session = "live" /\ effects' = effects + 1 /\ pc' = "VERIFY"
          /\ IF action.kind = "close" THEN UNCHANGED <<seen, target>> ELSE Invalidate
          /\ UNCHANGED <<session, store, hits, action, song, late, answer>>
       \/ session = "live" /\ effects' = effects + 1 /\ Fail
          /\ UNCHANGED <<adapter, target, hits>>
       \/ Fail /\ UNCHANGED <<adapter, target, history>>
    /\ UNCHANGED page

\* What only reads: an observation, the tabs, or waiting.
Read ==
    /\ pc = "EXECUTE" /\ action.kind = "read"
    /\ \/ session = "live" /\ Observe /\ target' = Outdated(target) /\ pc' = "VERIFY"
          /\ UNCHANGED <<action, song, late, answer>>
       \/ pc' = "VERIFY" /\ UNCHANGED <<adapter, target, action, song, late, answer>>
       \/ Fail /\ UNCHANGED <<adapter, target>>
    /\ UNCHANGED <<page, history>>

-----------------------------------------------------------------------------
(* play_song.                                                              *)

\* The results of the search for the song.
Search ==
    /\ pc = "SEARCH"
    /\ \/ session = "live" /\ Invalidate /\ pc' = "LOOK"
          /\ UNCHANGED <<session, store, action, song, late, answer>>
       \/ Fail /\ UNCHANGED <<adapter, target>>
    /\ UNCHANGED <<page, history>>

\* _rank_song_candidates.
Candidates(shown) == {i \in Matching(shown) : ~ shown[i].short /\ shown[i].long}

\* _wait_for_first_video_result: one poll of it.  A layer over the page is
\* dismissed with Escape; the best candidate of the observation is the target.
Look ==
    /\ pc = "LOOK"
    /\ \/ /\ session = "live" /\ page.blocked /\ song.dismissals < MaxDismissals
          /\ store' = page.shown /\ Invalidate
          /\ song' = [song EXCEPT !.dismissals = @ + 1]
          /\ UNCHANGED <<session, pc, action, late, answer>>
       \/ /\ session = "live" /\ Observe /\ Candidates(page.shown) # {}
          /\ page.blocked => song.dismissals = MaxDismissals \/ late
          /\ target' = TargetAt(page.shown, Best(page.shown, Candidates(page.shown)))
          /\ pc' = "PICKED" /\ UNCHANGED <<action, song, late, answer>>
       \/ /\ session = "live" /\ Observe /\ Candidates(page.shown) = {}
          /\ page.blocked => song.dismissals = MaxDismissals \/ late
          /\ target' = Outdated(target)
          /\ UNCHANGED <<pc, action, song, late, answer>>
       \/ Fail /\ UNCHANGED <<adapter, target>>
    /\ UNCHANGED <<page, history>>

\* The click, if the target is no Short, long enough and current; after the
\* recovery its result is not looked at.
ClickSong ==
    /\ pc = "PICKED"
    /\ \/ /\ ~ target.element.short /\ target.element.long /\ Current(target)
          /\ Reaches(target) /\ Hit(target)
          /\ \/ Invalidate /\ pc' = "WATCH"
                /\ UNCHANGED <<session, store, action, song, late, answer>>
             \/ Fail /\ UNCHANGED <<adapter, target>>
       \/ song.recovered /\ Invalidate /\ pc' = "WATCH"
          /\ UNCHANGED <<session, store, action, song, late, answer, history>>
       \/ Fail /\ UNCHANGED <<adapter, target, history>>
    /\ UNCHANGED page

\* One poll of the address: a Short is left once for another candidate.
Watch ==
    /\ pc = "WATCH"
    /\ \/ /\ ~ late /\ page.at = "watch" /\ pc' = "CONFIRM"
          /\ UNCHANGED <<adapter, action, target, song, late, answer>>
       \/ /\ ~ late /\ page.at = "shorts" /\ ~ song.recovered /\ session = "live"
          /\ song' = [dismissals |-> 0, recovered |-> TRUE]
          /\ Invalidate /\ pc' = "LOOK"
          /\ UNCHANGED <<session, store, action, late, answer>>
       \/ Fail /\ UNCHANGED <<adapter, target>>
    /\ UNCHANGED <<page, history>>

\* Once more the page must not be a Short; that it plays is not required.
Confirm ==
    /\ pc = "CONFIRM"
    /\ \/ /\ session = "live" /\ Observe /\ page.at # "shorts" /\ pc' = "VERIFY"
          /\ target' = Outdated(target)
          /\ UNCHANGED <<action, song, late, answer>>
       \/ Fail /\ UNCHANGED <<adapter, target>>
    /\ UNCHANGED <<page, history>>

-----------------------------------------------------------------------------
(* BrowserVerifier, and what the runner makes of it.                       *)

\* Is the stated postcondition, an address, a title or a text, on this page?
Meets(p) == p.at \in action.expected

\* Without one a verdict other than PASS is left to the checkpoint of the task.
Unproven == IF action.expected = {} THEN "deferred" ELSE "unverified"

\* A postcondition, or that a song plays, is read from the browser as it is now,
\* if it can be; of the rest only the address of a page is looked at.
Verify ==
    /\ pc = "VERIFY" /\ pc' = "IDLE"
    /\ \/ /\ action.expected # {} \/ action.kind = "song"
          /\ session = "live" /\ Observe /\ target' = Outdated(target)
          /\ IF action.expected # {}
             THEN answer' = IF Meets(page) THEN "verified" ELSE Unproven
             ELSE answer' \in {Unproven} \cup (IF page.at = "watch" THEN {"verified"} ELSE {})
       \/ action.kind = "read" /\ answer' = "verified" /\ UNCHANGED <<adapter, target>>
       \/ answer' = Unproven /\ UNCHANGED <<adapter, target>>
    /\ UNCHANGED <<page, action, song, late, history>>

Next ==
    \/ Shift \/ SessionDies \/ DeadlinePasses
    \/ \E a \in Actions : Execute(a) \/ Hold(a)
    \/ EnsureReady \/ FindTarget \/ Guard
    \/ ActOnElement \/ ActOnPage \/ Read
    \/ Search \/ Look \/ ClickSong \/ Watch \/ Confirm
    \/ Verify

Spec == Init /\ [][Next]_vars

-----------------------------------------------------------------------------
(* Properties.                                                             *)

\* An action whose target was chosen by a query, by the fast path or among the
\* results of a song acts on the element that was chosen, though the page
\* changes meanwhile and every observation gives its references anew.
ChosenIsHit == \A h \in hits : h.by # "ref" => h.hit = h.chosen

\* No click lands on what the page shows to be a Short, however the target was
\* named: also not by a reference the planner took from an older observation
\* (skill.py:161-165).
NoShortIsClicked == \A h \in hits : h.youtube /\ h.kind # "fill" => ~ h.hit.short

\* An action acts on the page once, a song on two results at most, and not at
\* all if it is refused: a session that died is not made anew to repeat what
\* was sent to it (backend.py:523-524).
ActsAtMostOnce ==
    /\ effects <= IF action.kind = "song" THEN 2 ELSE 1
    /\ answer = "refused" => effects = 0

=============================================================================
