-------------------------- MODULE BrowserActionsProofs --------------------------
(***************************************************************************)
(* Proofs about BrowserActions, for every set of pages and actions.        *)
(***************************************************************************)
EXTENDS BrowserActions, WellFoundedInduction, TLAPS

-----------------------------------------------------------------------------
(* The best of the elements that match.                                    *)

LEMMA LeastExists ==
    ASSUME NEW S, S \subseteq Nat, S # {}
    PROVE  \E m \in S : \A n \in S : m <= n
<1> DEFINE R == {ss \in Nat \X Nat : ss[1] < ss[2]}
<1>1. IsWellFoundedOn(R, Nat)
  BY NatLessThanWellFounded DEF OpToRel
<1>2. PICK m \in S : \A n \in S : <<n, m>> \notin R
  <2> HIDE DEF R
  <2> QED
    BY <1>1, WFMin
<1>3. \A n \in S : m <= n
  <2> SUFFICES ASSUME NEW n \in S
               PROVE  ~ (n < m)
    OBVIOUS
  <2> QED
    BY <1>2
<1> QED
  BY <1>3

Beats(shown, i, j) ==
    \/ shown[i].match > shown[j].match
    \/ shown[i].match = shown[j].match /\ i <= j

\* Among the first k of some references, if there are any, one beats the rest.
BestUpTo(shown, refs, k) ==
    (\E i \in refs : i <= k) =>
        \E i \in refs : i <= k /\ \A j \in refs : j <= k => Beats(shown, i, j)

\* The least k for which it were otherwise cannot be: the reference k itself
\* beats the best of those before it, or does not.
LEMMA BestExists ==
    ASSUME NEW shown \in Seq(Element), NEW refs \in SUBSET DOMAIN shown, NEW k \in Nat
    PROVE  BestUpTo(shown, refs, k)
<1>0. /\ refs \subseteq Nat /\ 0 \notin refs
      /\ \A i \in refs : shown[i].match \in Nat
  <2>1. DOMAIN shown = 1..Len(shown) /\ Len(shown) \in Nat
    OBVIOUS
  <2>2. \A i \in refs : shown[i] \in Element
    BY <2>1
  <2> QED
    BY <2>1, <2>2 DEF Element
<1> DEFINE bad == {n \in Nat : ~ BestUpTo(shown, refs, n)}
<1> SUFFICES ASSUME bad # {}
             PROVE  FALSE
  OBVIOUS
<1>1. PICK n \in bad : \A m \in bad : n <= m
  <2>1. bad \subseteq Nat
    OBVIOUS
  <2> HIDE DEF bad
  <2> QED
    BY <2>1, LeastExists
<1>2. n \in Nat /\ ~ BestUpTo(shown, refs, n)
  OBVIOUS
<1>3. n # 0
  BY <1>0, <1>2 DEF BestUpTo
<1>4. n - 1 \in Nat /\ BestUpTo(shown, refs, n - 1)
  BY <1>1, <1>2, <1>3
<1>5. n \in refs
  <2>1. \A i \in refs : i # n => (i <= n <=> i <= n - 1)
    BY <1>0, <1>2
  <2> QED
    BY <1>2, <1>4, <2>1 DEF BestUpTo
<1>6. CASE \A i \in refs : ~ (i <= n - 1)
  <2>1. \A j \in refs : j <= n => j = n
    BY <1>0, <1>2, <1>6
  <2>2. Beats(shown, n, n)
    BY <1>0, <1>5 DEF Beats
  <2> QED
    BY <1>2, <1>5, <2>1, <2>2 DEF BestUpTo
<1>7. ASSUME NEW i \in refs, i <= n - 1, \A j \in refs : j <= n - 1 => Beats(shown, i, j)
      PROVE  FALSE
  <2>1. i \in Nat /\ i <= n /\ i # n
    BY <1>0, <1>2, <1>7
  <2>2. CASE shown[i].match >= shown[n].match
    <3>1. Beats(shown, i, n)
      BY <1>0, <1>5, <2>1, <2>2 DEF Beats
    <3>2. \A j \in refs : j <= n => j = n \/ j <= n - 1
      BY <1>0, <1>2
    <3> QED
      BY <1>2, <1>7, <2>1, <3>1, <3>2 DEF BestUpTo
  <2>3. CASE shown[n].match > shown[i].match
    <3>1. \A j \in refs : j <= n - 1 => Beats(shown, n, j)
      BY <1>0, <1>5, <1>7, <2>3 DEF Beats
    <3>2. Beats(shown, n, n)
      BY <1>0, <1>5 DEF Beats
    <3>3. \A j \in refs : j <= n => j = n \/ j <= n - 1
      BY <1>0, <1>2
    <3>4. \A j \in refs : j <= n => Beats(shown, n, j)
      BY <3>1, <3>2, <3>3
    <3>5. n <= n
      BY <1>2
    <3> QED
      BY <1>2, <1>5, <3>4, <3>5 DEF BestUpTo
  <2> QED
    BY <1>0, <1>5, <2>2, <2>3
<1> QED
  BY <1>4, <1>6, <1>7 DEF BestUpTo

\* The choice of _match_target is one of what it chooses from.
LEMMA BestIsCandidate ==
    ASSUME NEW shown \in Seq(Element), NEW refs \in SUBSET DOMAIN shown, refs # {}
    PROVE  Best(shown, refs) \in refs
<1>1. Len(shown) \in Nat /\ \A i \in refs : i <= Len(shown)
  OBVIOUS
<1>2. \E i \in refs : \A j \in refs : Beats(shown, i, j)
  BY <1>1, BestExists DEF BestUpTo
<1> QED
  BY <1>2 DEF Best, Beats

-----------------------------------------------------------------------------
(* Types.                                                                  *)

Target == [ref : Nat, element : Element \cup {NoElement}, current : BOOLEAN]

Observed == {p.shown : p \in Pages} \cup {<<>>}

LEMMA NothingIsTyped ==
    /\ NoTarget \in Target
    /\ NoPage \notin Pages
    /\ NewSong \in [dismissals : 0..MaxDismissals, recovered : BOOLEAN]
<1>2. NoTarget \in Target
  BY DEF NoTarget, Target
<1>3. NoPage \notin Pages
  BY PagesAndActions DEF NoPage, Place
<1>4. NewSong \in [dismissals : 0..MaxDismissals, recovered : BOOLEAN]
  BY DEF NewSong, MaxDismissals
<1> QED
  BY <1>2, <1>3, <1>4

LEMMA ShownIsSequence == \A p \in Pages : p.shown \in Seq(Element)
  BY PagesAndActions

LEMMA StoreIsSequence ==
    ASSUME TypeOK
    PROVE  store \in Seq(Element)
<1>1. CASE store = <<>>
  BY <1>1
<1>2. ASSUME NEW p \in Pages, store = p.shown
      PROVE  store \in Seq(Element)
  BY <1>2, ShownIsSequence
<1> QED
  BY <1>1, <1>2 DEF TypeOK

LEMMA OutdatedIsTarget == \A t \in Target : Outdated(t) \in Target
  BY DEF Outdated, Target

LEMMA TargetAtIsTarget ==
    ASSUME NEW shown \in Seq(Element), NEW i \in DOMAIN shown
    PROVE  TargetAt(shown, i) \in Target
<1>1. DOMAIN shown = 1..Len(shown) /\ Len(shown) \in Nat
  OBVIOUS
<1>2. i \in Nat /\ shown[i] \in Element
  BY <1>1
<1> QED
  BY <1>2 DEF TargetAt, Target

LEMMA ChosenIsTarget ==
    ASSUME NEW shown \in Seq(Element)
    PROVE  /\ Matching(shown) # {} =>
                 TargetAt(shown, Best(shown, Matching(shown))) \in Target
           /\ Candidates(shown) # {} =>
                 TargetAt(shown, Best(shown, Candidates(shown))) \in Target
<1>1. Matching(shown) \in SUBSET DOMAIN shown /\ Candidates(shown) \in SUBSET DOMAIN shown
  BY DEF Matching, Candidates
<1> QED
  BY <1>1, BestIsCandidate, TargetAtIsTarget

\* The adapter and the target, which are all that an observation changes.
Adapted ==
    /\ session \in {"none", "live", "dead"} /\ store \in Observed
    /\ seen \in Pages \cup {NoPage} /\ target \in Target

LEMMA AdapterIsTyped ==
    ASSUME TypeOK
    PROVE  /\ Adapted
           /\ Outdated(target) \in Target
           /\ Observe /\ target' \in Target => Adapted'
           /\ Invalidate /\ UNCHANGED <<session, store>> => Adapted'
           /\ UNCHANGED <<adapter, target>> => Adapted'
<1>1. Adapted
  BY DEF Adapted, TypeOK, Observed, Target
<1>2. Outdated(target) \in Target
  BY <1>1, OutdatedIsTarget DEF Adapted
<1> QED
  BY <1>1, <1>2 DEF Adapted, Observe, Invalidate, adapter, TypeOK, Observed

LEMMA TypeInit == Init => TypeOK
<1> SUFFICES ASSUME Init
             PROVE  TypeOK
  OBVIOUS
<1>1. /\ store \in {p.shown : p \in Pages} \cup {<<>>}
      /\ target \in [ref : Nat, element : Element \cup {NoElement}, current : BOOLEAN]
  BY NothingIsTyped DEF Init, Target
<1> QED
  BY <1>1, NothingIsTyped DEF Init, TypeOK, Answer

LEMMA BoundaryIsTyped ==
    ASSUME TypeOK,
           \/ \E a \in Actions : Execute(a) \/ Hold(a)
           \/ EnsureReady \/ FindTarget \/ Guard
    PROVE  TypeOK'
<1> USE NothingIsTyped DEF TypeOK, Answer
<1>1. ASSUME NEW a \in Actions, Execute(a)
      PROVE  TypeOK'
  BY <1>1 DEF Execute, adapter, Target
<1>2. ASSUME NEW a \in Actions, Hold(a)
      PROVE  TypeOK'
  <2>1. PICK i \in DOMAIN page.shown : target' = TargetAt(page.shown, i)
    BY <1>2 DEF Hold
  <2>2. target' \in Target
    BY <2>1, ShownIsSequence, TargetAtIsTarget
  <2>3. Adapted'
    BY <1>2, <2>2, AdapterIsTyped DEF Hold
  <2> QED
    BY <1>2, <2>3 DEF Hold, Adapted, Observed, Target
<1>3. CASE EnsureReady
  <2>1. Adapted'
    BY <1>3, AdapterIsTyped DEF EnsureReady, StartFails, Adapted, Observed
  <2> QED
    BY <1>3, <2>1 DEF EnsureReady, Refuse, history, Adapted, Observed, Target
<1>4. CASE FindTarget
  <2>1. Adapted'
    <3>1. CASE action.by = "ref" /\ target' = [NoTarget EXCEPT !.ref = action.ref] /\ UNCHANGED adapter
      <4>1. action.ref \in Nat
        BY PagesAndActions DEF NoAction
      <4>2. target' \in Target
        BY <3>1, <4>1 DEF Target
      <4> QED
        BY <3>1, <4>2 DEF Adapted, adapter, Observed
    <3>2. CASE Observe /\ Matching(page.shown) # {} /\
               target' = TargetAt(page.shown, Best(page.shown, Matching(page.shown)))
      BY <3>2, ShownIsSequence, ChosenIsTarget, AdapterIsTyped
    <3>3. CASE Observe /\ UNCHANGED target
      BY <3>3, AdapterIsTyped DEF Adapted
    <3>4. CASE UNCHANGED <<adapter, target>>
      BY <3>4, AdapterIsTyped
    <3>5. action.by \in {"none", "ref", "query", "held"}
      BY PagesAndActions DEF NoAction
    <3> QED
      BY <1>4, <3>1, <3>2, <3>3, <3>4, <3>5 DEF FindTarget
  <2>2. /\ pc' \in {"IDLE", "GUARD"} /\ answer' \in Answer
        /\ UNCHANGED <<page, action, song, late, history>>
    <3>1. action.by \in {"none", "ref", "query", "held"}
      BY PagesAndActions DEF NoAction
    <3> QED
      BY <1>4, <3>1 DEF FindTarget, Refuse
  <2> QED
    BY <2>1, <2>2 DEF Adapted, Observed, Target, history
<1>5. CASE Guard
  BY <1>5 DEF Guard, Refuse, adapter, history
<1> QED
  BY <1>1, <1>2, <1>3, <1>4, <1>5

LEMMA HitIsTyped ==
    ASSUME TypeOK, action \in Actions, Reaches(target), Hit(target)
    PROVE  /\ effects' \in Nat
           /\ hits' \subseteq [by : {"none", "ref", "query", "held"}, chosen : Element \cup {NoElement},
                              hit : Element, kind : Kind, youtube : BOOLEAN]
<1> DEFINE Hits == [by : {"none", "ref", "query", "held"}, chosen : Element \cup {NoElement},
                    hit : Element, kind : Kind, youtube : BOOLEAN]
           h == [by |-> action.by, chosen |-> target.element, hit |-> store[target.ref],
                 kind |-> action.kind, youtube |-> OnYouTube(page)]
<1>1. store \in Seq(Element)
  BY StoreIsSequence
<1>2. store[target.ref] \in Element
  <2>1. DOMAIN store = 1..Len(store)
    BY <1>1
  <2> QED
    BY <1>1, <2>1 DEF Reaches
<1>3. action.by \in {"none", "ref", "query", "held"} /\ action.kind \in Kind
  BY PagesAndActions
<1>4. target.element \in Element \cup {NoElement} /\ OnYouTube(page) \in BOOLEAN
  BY DEF TypeOK, OnYouTube
<1>5. h \in Hits
  BY <1>2, <1>3, <1>4
<1>6. hits' = hits \cup {h} /\ effects' = effects + 1 /\ hits \subseteq Hits /\ effects \in Nat
  BY DEF Hit, TypeOK
<1> HIDE DEF h, Hits
<1>7. hits' \subseteq Hits /\ effects' \in Nat
  BY <1>5, <1>6
<1> QED
  BY <1>7 DEF Hits

\* Where an action is, by what it is.
OfSong == {"SEARCH", "LOOK", "PICKED", "WATCH", "CONFIRM"}

Fitting ==
    /\ pc \in OfSong => action.kind = "song"
    /\ pc = "EXECUTE" => action.kind # "song"
    /\ pc # "IDLE" => answer # "refused"

LEMMA FittingInit == Init => Fitting
  BY DEF Init, Fitting, OfSong

LEMMA FittingInductive == TypeOK /\ Fitting /\ [Next]_vars => Fitting'
<1> SUFFICES ASSUME TypeOK, Fitting, [Next]_vars
             PROVE  Fitting'
  OBVIOUS
<1> USE DEF Fitting, OfSong, Refuse, Fail, AfterError
<1>1. CASE Shift \/ SessionDies \/ DeadlinePasses
  BY <1>1 DEF Shift, SessionDies, DeadlinePasses, call
<1>2. ASSUME NEW a \in Actions, Execute(a) \/ Hold(a)
      PROVE  Fitting'
  BY <1>2 DEF Execute, Hold
<1>3. CASE EnsureReady
  BY <1>3 DEF EnsureReady
<1>4. CASE FindTarget
  <2>1. action.by \in {"none", "ref", "query", "held"}
    BY PagesAndActions DEF TypeOK, NoAction
  <2>2. pc = "TARGET" /\ UNCHANGED action
    BY <1>4, <2>1 DEF FindTarget
  <2>3. pc' = "IDLE" \/ (pc' = "GUARD" /\ UNCHANGED answer)
    BY <1>4, <2>1 DEF FindTarget
  <2> QED
    BY <2>2, <2>3
<1>5. CASE Guard
  BY <1>5 DEF Guard
<1>6. CASE ActOnElement \/ ActOnPage \/ Read
  BY <1>6 DEF ActOnElement, ActOnPage, Read
<1>7. CASE Search \/ Look \/ ClickSong \/ Watch \/ Confirm
  BY <1>7 DEF Search, Look, ClickSong, Watch, Confirm
<1>8. CASE Verify
  BY <1>8 DEF Verify
<1>9. CASE UNCHANGED vars
  BY <1>9 DEF vars, call
<1> QED
  BY <1>1, <1>2, <1>3, <1>4, <1>5, <1>6, <1>7, <1>8, <1>9 DEF Next

LEMMA ExecutorIsTyped ==
    ASSUME TypeOK, Fitting,
           \/ ActOnElement \/ ActOnPage \/ Read
           \/ Search \/ Look \/ ClickSong \/ Watch \/ Confirm \/ Verify
    PROVE  TypeOK'
<1> USE DEF Fail, AfterError, history
<1> DEFINE Called == /\ pc' \in {"IDLE", "VERIFY", "LOOK", "PICKED", "WATCH", "CONFIRM"}
                     /\ song' \in [dismissals : 0..MaxDismissals, recovered : BOOLEAN]
                     /\ answer' \in Answer
                     /\ UNCHANGED <<page, action, late>>
           Noted == UNCHANGED history \/ (action \in Actions /\ Reaches(target) /\ Hit(target))
                        \/ (effects' = effects + 1 /\ UNCHANGED hits)
<1>1. Called /\ Noted /\ Adapted' => TypeOK'
  <2> SUFFICES ASSUME Called, Noted, Adapted'
               PROVE  TypeOK'
    OBVIOUS
  <2>1. /\ effects' \in Nat
        /\ hits' \subseteq [by : {"none", "ref", "query", "held"}, chosen : Element \cup {NoElement},
                           hit : Element, kind : Kind, youtube : BOOLEAN]
    BY HitIsTyped DEF TypeOK
  <2> QED
    BY <2>1 DEF TypeOK, Adapted, Observed, Target
<1>2. /\ "failed" \in Answer /\ answer \in Answer
      /\ song \in [dismissals : 0..MaxDismissals, recovered : BOOLEAN]
      /\ \A k : action.kind = k /\ k # "none" => action \in Actions
  BY DEF Answer, TypeOK, NoAction
<1>3. CASE ActOnElement
  <2>1. Called /\ Noted
    BY <1>2, <1>3 DEF ActOnElement
  <2>2. Adapted'
    BY <1>3, AdapterIsTyped DEF ActOnElement
  <2> QED
    BY <1>1, <2>1, <2>2
<1>4. CASE ActOnPage
  <2>1. Called /\ Noted
    BY <1>2, <1>4 DEF ActOnPage
  <2>2. Adapted'
    BY <1>4, AdapterIsTyped DEF ActOnPage, adapter
  <2> QED
    BY <1>1, <2>1, <2>2
<1>5. CASE Read
  <2>1. Called /\ Noted
    BY <1>2, <1>5 DEF Read
  <2>2. Adapted'
    BY <1>5, AdapterIsTyped DEF Read
  <2> QED
    BY <1>1, <2>1, <2>2
<1>6. CASE Search
  <2>1. Called /\ Noted
    BY <1>2, <1>6 DEF Search
  <2>2. Adapted'
    BY <1>6, AdapterIsTyped DEF Search
  <2> QED
    BY <1>1, <2>1, <2>2
<1>7. CASE Look
  <2>1. Called /\ Noted
    BY <1>2, <1>7 DEF Look, MaxDismissals
  <2>2. Adapted'
    BY <1>7, AdapterIsTyped, ShownIsSequence, ChosenIsTarget
       DEF Look, Invalidate, Adapted, Observed, TypeOK
  <2> QED
    BY <1>1, <2>1, <2>2
<1>8. CASE ClickSong
  <2>1. Called /\ Noted
    BY <1>2, <1>8 DEF ClickSong, Fitting, OfSong
  <2>2. Adapted'
    BY <1>8, AdapterIsTyped DEF ClickSong
  <2> QED
    BY <1>1, <2>1, <2>2
<1>9. CASE Watch
  <2>0. [dismissals |-> 0, recovered |-> TRUE] \in
           [dismissals : 0..MaxDismissals, recovered : BOOLEAN]
    BY DEF MaxDismissals
  <2>1. Called /\ Noted
    BY <1>2, <1>9, <2>0 DEF Watch
  <2>2. Adapted'
    BY <1>9, AdapterIsTyped DEF Watch
  <2> QED
    BY <1>1, <2>1, <2>2
<1>10. CASE Confirm
  <2>1. Called /\ Noted
    BY <1>2, <1>10 DEF Confirm
  <2>2. Adapted'
    BY <1>10, AdapterIsTyped DEF Confirm
  <2> QED
    BY <1>1, <2>1, <2>2
<1>11. CASE Verify
  <2>1. Called /\ Noted
    BY <1>2, <1>11 DEF Verify, Unproven, Answer
  <2>2. Adapted'
    BY <1>11, AdapterIsTyped DEF Verify
  <2> QED
    BY <1>1, <2>1, <2>2
<1> QED
  BY <1>3, <1>4, <1>5, <1>6, <1>7, <1>8, <1>9, <1>10, <1>11

LEMMA TypeInductive == TypeOK /\ Fitting /\ [Next]_vars => TypeOK'
<1>1. TypeOK /\ (Shift \/ SessionDies \/ DeadlinePasses) => TypeOK'
  BY DEF TypeOK, Shift, SessionDies, DeadlinePasses, adapter, call, history
<1>2. TypeOK /\ UNCHANGED vars => TypeOK'
  BY DEF TypeOK, vars, adapter, call, history
<1> QED
  BY <1>1, <1>2, BoundaryIsTyped, ExecutorIsTyped DEF Next

-----------------------------------------------------------------------------
(* What a target refers to.  A target that is current was made of the      *)
(* references the session has; a target at the guard is current, the       *)
(* planner's own, or none; and what was seen last, if it counts, is what   *)
(* gave the references, so that the guard judged the element itself.       *)

CurrentIsTrue == target.current => store[target.ref] = target.element

SeenIsStore == seen # NoPage => store = seen.shown

Checked ==
    /\ pc \in {"READY", "TARGET"} /\ action.by = "none" => target.ref = 0
    /\ pc = "TARGET" => ~ target.current
    /\ pc \in {"GUARD", "EXECUTE"} =>
          /\ action.by = "none" => target.ref = 0
          /\ action.by = "query" => target.current
          /\ action.by # "held"
    /\ pc \in {"TARGET", "GUARD", "EXECUTE"} => seen # NoPage
    /\ pc = "EXECUTE" /\ action.kind = "click" => ~ IsShort(target)

Aimed == CurrentIsTrue /\ SeenIsStore /\ Checked

LEMMA AimedInit == Init => Aimed
  BY DEF Init, Aimed, CurrentIsTrue, SeenIsStore, Checked, NoTarget

\* A step after which no target is current, or the one of what is seen is.
LEMMA OutdatedIsAimed ==
    ASSUME TypeOK
    PROVE  /\ ~ Outdated(target).current
           /\ Outdated(target).ref = target.ref
           /\ Outdated(target).element = target.element
  BY DEF Outdated, TypeOK

LEMMA PagesAreSeen == TypeOK => page # NoPage
  BY NothingIsTyped DEF TypeOK

LEMMA TargetAtIsAimed ==
    \A shown, i : /\ TargetAt(shown, i).element = shown[TargetAt(shown, i).ref]
                  /\ TargetAt(shown, i).current
  BY DEF TargetAt

LEMMA BoundaryIsAimed ==
    ASSUME TypeOK, Aimed,
           \/ \E a \in Actions : Execute(a) \/ Hold(a)
           \/ EnsureReady \/ FindTarget \/ Guard
    PROVE  Aimed'
<1> USE DEF Aimed, CurrentIsTrue, SeenIsStore, Checked, Refuse, adapter, history
<1>1. ASSUME NEW a \in Actions, Execute(a)
      PROVE  Aimed'
  BY <1>1 DEF Execute, NoTarget
<1>2. ASSUME NEW a \in Actions, Hold(a)
      PROVE  Aimed'
  <2>1. PICK i \in DOMAIN page.shown : target' = TargetAt(page.shown, i)
    BY <1>2 DEF Hold
  <2> QED
    BY <1>2, <2>1, TargetAtIsAimed DEF Hold, Observe
<1>3. CASE EnsureReady
  BY <1>3, OutdatedIsAimed, PagesAreSeen DEF EnsureReady, Observe, StartFails
<1>4. CASE FindTarget
  <2>0. action.by \in {"none", "ref", "query", "held"}
    BY PagesAndActions DEF TypeOK, NoAction
  <2>1. CASE action.by = "none"
    BY <1>4, <2>1 DEF FindTarget
  <2>2. CASE action.by = "ref"
    BY <1>4, <2>2 DEF FindTarget, NoTarget
  <2>3. CASE action.by = "held"
    BY <1>4, <2>3 DEF FindTarget, Current
  <2>4. CASE action.by = "query"
    BY <1>4, <2>4, TargetAtIsAimed, PagesAreSeen DEF FindTarget, Observe
  <2> QED
    BY <2>0, <2>1, <2>2, <2>3, <2>4
<1>5. CASE Guard
  BY <1>5 DEF Guard, IsShort
<1> QED
  BY <1>1, <1>2, <1>3, <1>4, <1>5

LEMMA ExecutorIsAimed ==
    ASSUME TypeOK, Aimed,
           \/ ActOnElement \/ ActOnPage \/ Read
           \/ Search \/ Look \/ ClickSong \/ Watch \/ Confirm \/ Verify
    PROVE  Aimed'
<1> USE DEF Fail, AfterError, adapter
<1>0. /\ ~ Outdated(target).current
      /\ Outdated(target).ref = target.ref /\ Outdated(target).element = target.element
  BY OutdatedIsAimed
<1>1. pc' \notin {"READY", "TARGET", "GUARD", "EXECUTE"}
  BY DEF ActOnElement, ActOnPage, Read, Search, Look, ClickSong, Watch, Confirm, Verify
<1>2. \/ UNCHANGED <<adapter, target>>
      \/ Observe /\ target' = Outdated(target)
      \/ Observe /\ \E i : target' = TargetAt(page.shown, i)
      \/ Invalidate /\ UNCHANGED store
      \/ Invalidate /\ store' = page.shown
  BY DEF ActOnElement, ActOnPage, Read, Search, Look, ClickSong, Watch, Confirm, Verify
<1>3. CurrentIsTrue' /\ SeenIsStore'
  BY <1>0, <1>2, TargetAtIsAimed DEF Aimed, CurrentIsTrue, SeenIsStore, Observe, Invalidate
<1> QED
  BY <1>1, <1>3 DEF Aimed, Checked

LEMMA AimedInductive == TypeOK /\ Aimed /\ [Next]_vars => Aimed'
<1>1. Aimed /\ (Shift \/ SessionDies \/ DeadlinePasses) => Aimed'
  BY DEF Aimed, CurrentIsTrue, SeenIsStore, Checked, IsShort, Shift, SessionDies,
     DeadlinePasses, adapter, call, history
<1>2. Aimed /\ UNCHANGED vars => Aimed'
  BY DEF Aimed, CurrentIsTrue, SeenIsStore, Checked, IsShort, vars, adapter, call, history
<1> QED
  BY <1>1, <1>2, BoundaryIsAimed, ExecutorIsAimed DEF Next

-----------------------------------------------------------------------------
(* How often an action may have acted, by where it is.                     *)

Recoveries == IF song.recovered THEN 1 ELSE 0

Budget ==
    CASE pc \in {"READY", "TARGET", "GUARD", "EXECUTE", "SEARCH"} -> 0
      [] pc \in {"LOOK", "PICKED"} -> Recoveries
      [] pc \in {"WATCH", "CONFIRM"} -> 1 + Recoveries
      [] OTHER -> IF action.kind = "song" THEN 2 ELSE 1

Thrifty ==
    /\ effects \in 0..Budget
    /\ pc \in {"READY", "TARGET", "GUARD", "SEARCH"} => ~ song.recovered
    /\ answer = "refused" => effects = 0

LEMMA ThriftyInit == Init => Thrifty
  BY DEF Init, Thrifty, Budget, NoAction

LEMMA ThriftyInductive == TypeOK /\ Fitting /\ Thrifty /\ [Next]_vars => Thrifty'
<1> SUFFICES ASSUME TypeOK, Fitting, Thrifty, [Next]_vars
             PROVE  Thrifty'
  OBVIOUS
<1> USE DEF Thrifty, Budget, Recoveries, Refuse, Fail, AfterError, history
<1>0. /\ effects \in Nat
      /\ pc \in {"IDLE", "READY", "TARGET", "GUARD", "EXECUTE", "VERIFY",
                "SEARCH", "LOOK", "PICKED", "WATCH", "CONFIRM"}
      /\ song.recovered \in BOOLEAN
  BY DEF TypeOK
<1>1. CASE Shift \/ SessionDies \/ DeadlinePasses
  BY <1>1 DEF Shift, SessionDies, DeadlinePasses, call
<1>2. ASSUME NEW a \in Actions, Execute(a) \/ Hold(a)
      PROVE  Thrifty'
  BY <1>2 DEF Execute, Hold, NewSong
<1>3. CASE EnsureReady
  BY <1>0, <1>3 DEF EnsureReady
<1>4. CASE FindTarget
  <2>1. action.by \in {"none", "ref", "query", "held"}
    BY PagesAndActions DEF TypeOK, NoAction
  <2>2. /\ pc = "TARGET" /\ UNCHANGED <<action, song, history>>
        /\ \/ pc' = "IDLE" /\ answer' = "refused"
           \/ pc' = "GUARD" /\ UNCHANGED answer
    BY <1>4, <2>1 DEF FindTarget
  <2> QED
    BY <1>0, <2>2
<1>5. CASE Guard
  BY <1>0, <1>5 DEF Guard
<1>6. CASE ActOnElement
  BY <1>0, <1>6 DEF ActOnElement, Hit, Fitting
<1>7. CASE ActOnPage \/ Read
  BY <1>0, <1>7 DEF ActOnPage, Read, Fitting
<1>8. CASE Search
  BY <1>0, <1>8 DEF Search, Fitting, OfSong
<1>9. CASE Look
  <2>1. /\ pc = "LOOK" /\ UNCHANGED <<action, history>>
        /\ \/ pc' \in {"LOOK", "PICKED"} /\ song'.recovered = song.recovered /\ UNCHANGED answer
           \/ pc' = "IDLE" /\ answer' = "failed"
    BY <1>9 DEF Look, TypeOK
  <2> QED
    BY <1>0, <2>1 DEF Fitting, OfSong
<1>10. CASE ClickSong
  BY <1>0, <1>10 DEF ClickSong, Hit, Fitting, OfSong
<1>11. CASE Watch \/ Confirm
  BY <1>0, <1>11 DEF Watch, Confirm, Fitting, OfSong
<1>12. CASE Verify
  BY <1>0, <1>12 DEF Verify, Unproven
<1>13. CASE UNCHANGED vars
  BY <1>13 DEF vars, call
<1> QED
  BY <1>1, <1>2, <1>3, <1>4, <1>5, <1>6, <1>7, <1>8, <1>9, <1>10, <1>11, <1>12, <1>13 DEF Next

-----------------------------------------------------------------------------
(* What was hit.                                                           *)

Right == ChosenIsHit /\ NoShortIsClicked

\* Of the planner's reference only that it is no Short is known; every other
\* target is the element that was chosen.
LEMMA HitIsRight ==
    ASSUME TypeOK, Fitting, Aimed, Right, Reaches(target), Hit(target),
           \/ pc = "EXECUTE" /\ action.kind \in {"click", "fill"}
           \/ pc = "PICKED" /\ ~ target.element.short /\ Current(target)
    PROVE  Right'
<1> DEFINE e == store[target.ref]
           h == [by |-> action.by, chosen |-> target.element, hit |-> e,
                 kind |-> action.kind, youtube |-> OnYouTube(page)]
<1>1. hits' = hits \cup {h}
  BY DEF Hit
<1>2. target.ref \in DOMAIN store /\ e \in Range(page.shown)
  BY DEF Reaches
<1>3. store \in Seq(Element) /\ page \in Pages
  BY StoreIsSequence DEF TypeOK
<1>4. target.current => e = target.element
  BY DEF Aimed, CurrentIsTrue
<1>5. h.by # "ref" => h.hit = h.chosen
  <2>1. action.by \in {"none", "ref", "query", "held"}
    BY PagesAndActions DEF TypeOK, NoAction
  <2>2. CASE pc = "PICKED"
    BY <1>4, <2>2 DEF Current
  <2>3. CASE pc = "EXECUTE"
    <3>1. target.ref # 0
      <4>1. DOMAIN store = 1..Len(store) /\ Len(store) \in Nat
        BY <1>3
      <4> QED
        BY <1>2, <4>1
    <3> QED
      BY <1>4, <2>1, <2>3, <3>1 DEF Aimed, Checked
  <2> QED
    BY <2>2, <2>3
<1>6. h.youtube /\ h.kind # "fill" => ~ h.hit.short
  <2> SUFFICES ASSUME OnYouTube(page), action.kind # "fill"
               PROVE  ~ e.short
    OBVIOUS
  <2>1. CASE pc = "PICKED"
    BY <1>4, <2>1 DEF Current
  <2>2. CASE pc = "EXECUTE"
    <3>1. action.kind = "click" /\ seen \in Pages /\ store = seen.shown /\ ~ IsShort(target)
      BY <2>2 DEF Aimed, Checked, SeenIsStore, TypeOK
    <3>2. CASE OnYouTube(seen)
      BY <1>2, <3>1, <3>2 DEF IsShort
    <3>3. CASE ~ OnYouTube(seen)
      <4>1. e \in Range(seen.shown)
        BY <1>2, <3>1 DEF Range
      <4> QED
        BY <1>2, <1>3, <3>1, <3>3, <4>1, PagesAndActions
    <3> QED
      BY <3>2, <3>3
  <2> QED
    BY <2>1, <2>2
<1> QED
  <2> HIDE DEF h
  <2> QED
    BY <1>1, <1>5, <1>6 DEF Right, ChosenIsHit, NoShortIsClicked

LEMMA RightInductive == TypeOK /\ Fitting /\ Aimed /\ Right /\ [Next]_vars => Right'
<1> SUFFICES ASSUME TypeOK, Fitting, Aimed, Right, [Next]_vars
             PROVE  Right'
  OBVIOUS
<1> USE DEF history
<1>1. CASE UNCHANGED hits \/ hits' = {}
  BY <1>1 DEF Right, ChosenIsHit, NoShortIsClicked
<1>2. CASE ActOnElement
  BY <1>1, <1>2, HitIsRight DEF ActOnElement
<1>3. CASE ClickSong
  BY <1>1, <1>3, HitIsRight DEF ClickSong
<1>4. CASE FindTarget
  <2>1. action.by \in {"none", "ref", "query", "held"}
    BY PagesAndActions DEF TypeOK, NoAction
  <2>2. UNCHANGED hits
    BY <1>4, <2>1 DEF FindTarget, Refuse
  <2> QED
    BY <1>1, <2>2
<1>5. CASE ~ ActOnElement /\ ~ ClickSong /\ ~ FindTarget
  <2>1. UNCHANGED hits \/ hits' = {}
    BY <1>5 DEF Next, vars, call, Shift, SessionDies, DeadlinePasses, Execute, Hold, EnsureReady,
       Guard, Refuse, Fail, ActOnPage, Read, Search, Look, Watch, Confirm, Verify
  <2> QED
    BY <1>1, <2>1
<1> QED
  BY <1>2, <1>3, <1>4, <1>5

\* The adapter, the action and its target at every moment: the types, where an
\* action can be, what its target refers to and how often it has acted.
THEOREM Soundness == Spec => [](TypeOK /\ Fitting /\ Aimed /\ Thrifty)
<1>1. Init => TypeOK /\ Fitting /\ Aimed /\ Thrifty
  BY TypeInit, FittingInit, AimedInit, ThriftyInit
<1>2. TypeOK /\ Fitting /\ Aimed /\ Thrifty /\ [Next]_vars
        => (TypeOK /\ Fitting /\ Aimed /\ Thrifty)'
  BY TypeInductive, FittingInductive, AimedInductive, ThriftyInductive
<1> QED
  BY <1>1, <1>2, PTL DEF Spec

LEMMA RightAlways == Spec => []Right
<1>1. Init => Right
  BY DEF Init, Right, ChosenIsHit, NoShortIsClicked
<1> QED
  BY <1>1, RightInductive, Soundness, PTL DEF Spec

\* An action acts on the element its target was chosen for, whatever page and
\* observations come in between.
THEOREM Aim == Spec => []ChosenIsHit
<1>1. Right => ChosenIsHit
  BY DEF Right
<1> QED
  BY <1>1, RightAlways, PTL

\* No click lands on a Short, though the page the guard looked at may have
\* been left since.
THEOREM ShortsAreLeft == Spec => []NoShortIsClicked
<1>1. Right => NoShortIsClicked
  BY DEF Right
<1> QED
  BY <1>1, RightAlways, PTL

\* One effect of an action, two of a song, none of a refused one.
THEOREM ActsOnce == Spec => []ActsAtMostOnce
<1>1. TypeOK /\ Fitting /\ Thrifty => ActsAtMostOnce
  BY DEF TypeOK, Fitting, OfSong, Thrifty, Budget, Recoveries, ActsAtMostOnce
<1> QED
  BY <1>1, Soundness, PTL

\* Of what the fast path held nothing comes: the observation that makes the
\* session ready precedes the look at the target, and outdates it.
HeldIsRefused ==
    action.by = "held" => effects = 0 /\ pc \in {"IDLE", "READY", "TARGET"}

LEMMA HeldInductive == TypeOK /\ Aimed /\ HeldIsRefused /\ [Next]_vars => HeldIsRefused'
<1> SUFFICES ASSUME TypeOK, Aimed, HeldIsRefused, [Next]_vars
             PROVE  HeldIsRefused'
  OBVIOUS
<1> USE DEF HeldIsRefused, Refuse, Fail, AfterError, history
<1>1. CASE Shift \/ SessionDies \/ DeadlinePasses
  BY <1>1 DEF Shift, SessionDies, DeadlinePasses, call
<1>2. ASSUME NEW a \in Actions, Execute(a) \/ Hold(a)
      PROVE  HeldIsRefused'
  BY <1>2 DEF Execute, Hold
<1>3. CASE EnsureReady
  BY <1>3 DEF EnsureReady
<1>4. CASE FindTarget
  <2>1. action.by \in {"none", "ref", "query", "held"}
    BY PagesAndActions DEF TypeOK, NoAction
  <2>2. UNCHANGED <<action, history>>
    BY <1>4, <2>1 DEF FindTarget
  <2>3. action.by = "held" => pc' = "IDLE"
    BY <1>4 DEF FindTarget, Current, Aimed, Checked
  <2> QED
    BY <2>2, <2>3
<1>5. CASE Guard \/ ActOnElement \/ ActOnPage \/ Read \/ Search \/ Look \/ ClickSong
           \/ Watch \/ Confirm \/ Verify
  <2>1. pc \notin {"IDLE", "READY", "TARGET"} /\ UNCHANGED action
    BY <1>5 DEF Guard, ActOnElement, ActOnPage, Read, Search, Look, ClickSong, Watch, Confirm,
       Verify
  <2> QED
    BY <2>1
<1>6. CASE UNCHANGED vars
  BY <1>6 DEF vars, call
<1> QED
  BY <1>1, <1>2, <1>3, <1>4, <1>5, <1>6 DEF Next

\* No action of the fast path, whose targets are held over an observation,
\* ever acts on the page.
THEOREM HeldNeverActs == Spec => []HeldIsRefused
<1>1. Init => HeldIsRefused
  BY DEF Init, HeldIsRefused, NoAction
<1> QED
  BY <1>1, HeldInductive, Soundness, PTL DEF Spec

=============================================================================
