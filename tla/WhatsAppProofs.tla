--------------------------- MODULE WhatsAppProofs ---------------------------
(***************************************************************************)
(* Proofs about the two models of WhatsApp: MessageFeed, for every number  *)
(* of threads and messages and every window, limit and lag; and, under the *)
(* name Page, WhatsAppSend, for every set of chats, length of the message, *)
(* size of a composer and number of polls and sends.                       *)
(***************************************************************************)
EXTENDS MessageFeed, SendPromises, WellFoundedInduction, FiniteSetTheorems, TLAPS

-----------------------------------------------------------------------------
(* The oldest and the newest of a set of messages are members of it.       *)

LEMMA LeastExists ==
    ASSUME NEW S, S \subseteq Nat, S # {}
    PROVE  \E m \in S : \A n \in S : m <= n
<1> DEFINE R == {ss \in Nat \X Nat : ss[1] < ss[2]}
<1>1. IsWellFoundedOn(R, Nat)
  BY NatLessThanWellFounded DEF OpToRel
<1>2. PICK m \in S : \A n \in S : <<n, m>> \notin R
  <2> HIDE DEF R
  <2> QED
    BY <1>1, WFMin
<1>3. \A n \in S : m <= n
  <2> SUFFICES ASSUME NEW n \in S
               PROVE  ~ (n < m)
    OBVIOUS
  <2> QED
    BY <1>2
<1> QED
  BY <1>3

LEMMA OldestIsMember ==
    ASSUME NEW S \in SUBSET Messages, S # {}
    PROVE  Oldest(S) \in S
<1>1. \E m \in S : \A n \in S : m <= n
  <2>1. S \subseteq Nat
    BY FeedAssumption DEF Messages
  <2> QED
    BY <2>1, LeastExists
<1> QED
  BY <1>1 DEF Oldest

LEMMA NewestIsMember ==
    ASSUME NEW S \in SUBSET Messages, S # {}
    PROVE  Newest(S) \in S
<1> DEFINE T == {NumMessages - m : m \in S}
<1>1. T \subseteq Nat /\ T # {}
  <2>1. \A m \in S : NumMessages - m \in Nat
    BY FeedAssumption DEF Messages
  <2> QED
    BY <2>1
<1>2. PICK x \in T : \A y \in T : x <= y
  <2> HIDE DEF T
  <2> QED
    BY <1>1, LeastExists
<1>3. PICK m \in S : x = NumMessages - m
  BY <1>2
<1>4. \A n \in S : n <= m
  <2> SUFFICES ASSUME NEW n \in S
               PROVE  n <= m
    OBVIOUS
  <2>1. NumMessages - n \in T
    OBVIOUS
  <2>2. NumMessages - m <= NumMessages - n
    BY <1>2, <1>3, <2>1
  <2> QED
    BY <2>2, FeedAssumption DEF Messages
<1> QED
  BY <1>4 DEF Newest

-----------------------------------------------------------------------------
(* Types.  The provers know nothing of powers, and so not that Delay is    *)
(* positive: the range of wait, which no other variable depends on, is     *)
(* left to TLC.                                                            *)

TypedButWait ==
    /\ enabled \in BOOLEAN
    /\ receipt \in [Messages -> {"none", "eligible", "ignored"}]
    /\ failures \in [Messages -> 0..MaxFailures]
    /\ frontier \in Messages \cup {None}
    /\ derived \in [Messages -> Nat]
    /\ age \in [Messages -> -1..Old]
    /\ current \in Threads \cup {Nobody}
    /\ stop \in BOOLEAN /\ joining \in BOOLEAN
    /\ thread \in [Threads -> ThreadState]

\* A thread that screens, processes or records has what to do it with.
Occupied(t) ==
    /\ t.pc = "SCREEN" => t.left # {}
    /\ t.pc = "PROCESS" => t.fresh # {}
    /\ t.pc = "RECORD" => t.message # None

Local == {t \in ThreadState : Occupied(t)}

Feeding == TypedButWait /\ \A w \in Threads : Occupied(thread[w])

LEMMA AtIsLocal ==
    \A pc \in {"DEAD", "GATE", "HOME", "BEGIN"} : At(pc) \in Local /\ At(pc).pc = pc
  BY FeedAssumption DEF At, ThreadState, None, Local, Occupied

\* A cycle begins with what is seen.
LEMMA SeenIsLocal ==
    ASSUME NEW seen \in SUBSET Messages
    PROVE  /\ [At("BEGIN") EXCEPT !.seen = seen] \in Local
           /\ [At("BEGIN") EXCEPT !.seen = seen, !.opened = TRUE] \in Local
  BY AtIsLocal DEF ThreadState, Local, Occupied

LEMMA ContinueIsLocal == \A t \in ThreadState : Continue(t) \in Local
<1> SUFFICES ASSUME NEW t \in ThreadState
             PROVE  Continue(t) \in Local
  OBVIOUS
<1> DEFINE on(pc) == [t EXCEPT !.pc = pc, !.message = None]
<1>1. \A pc \in {"SCREEN", "PROCESS", "RECONCILE"} :
        /\ on(pc) \in ThreadState /\ on(pc).pc = pc
        /\ on(pc).left = t.left /\ on(pc).fresh = t.fresh
  BY DEF ThreadState
<1>2. CASE t.left # {}
  <2>1. Continue(t) = on("SCREEN")
    BY <1>2 DEF Continue
  <2> QED
    BY <1>1, <1>2, <2>1 DEF Local, Occupied
<1>3. CASE t.left = {} /\ t.fresh # {}
  <2>1. Continue(t) = on("PROCESS")
    BY <1>3 DEF Continue
  <2> QED
    BY <1>1, <1>3, <2>1 DEF Local, Occupied
<1>4. CASE t.left = {} /\ t.fresh = {}
  <2>1. on("RECONCILE") \in Local
    BY <1>1 DEF Local, Occupied
  <2>2. At(IF t.opened THEN "GATE" ELSE "HOME") \in Local
    BY AtIsLocal
  <2> QED
    BY <1>4, <2>1, <2>2 DEF Continue
<1> QED
  BY <1>2, <1>3, <1>4

LEMMA FailsIsLocal ==
    ASSUME NEW t \in ThreadState, NEW m \in Messages
    PROVE  Fails(t, m) \in Local
<1>1. m # None
  BY FeedAssumption DEF None, Messages
<1>2. Fails(t, m) \in ThreadState /\ Fails(t, m).pc = "RECORD" /\ Fails(t, m).message = m
  BY DEF Fails, ThreadState
<1> QED
  BY <1>1, <1>2 DEF Local, Occupied

\* What is left of a cycle when one message is dealt with.
LEMMA RestIsState ==
    ASSUME NEW t \in ThreadState, NEW m
    PROVE  /\ [t EXCEPT !.left = @ \ {m}] \in ThreadState
           /\ [t EXCEPT !.fresh = @ \ {m}] \in ThreadState
  BY DEF ThreadState

\* A step of one thread that only it takes notice of.
Turn(w) ==
    \E local \in Local : Becomes(w, local)

LEMMA TurnIsTyped ==
    ASSUME Feeding, NEW w \in Threads, Turn(w)
    PROVE  thread' \in [Threads -> ThreadState] /\ \A v \in Threads : Occupied(thread'[v])
  BY DEF Feeding, TypedButWait, Turn, Becomes, Local

LEMMA FeedingInit == Init => Feeding
<1> SUFFICES ASSUME Init
             PROVE  Feeding
  OBVIOUS
<1>1. thread \in [Threads -> ThreadState] /\ \A w \in Threads : Occupied(thread[w])
  BY AtIsLocal DEF Init, Local
<1>2. age \in [Messages -> -1..Old] /\ failures \in [Messages -> 0..MaxFailures]
  BY FeedAssumption, FS_CardinalityType DEF Init, Old
<1> QED
  BY <1>1, <1>2 DEF Init, Feeding, TypedButWait

LEMMA WorldIsTyped ==
    ASSUME Feeding,
           \/ \E m \in Messages : Send(m)
           \/ Tick \/ Enable \/ Resume \/ Stop \/ StopReturns \/ Restart
    PROVE  Feeding'
<1> USE FeedAssumption DEF Feeding, TypedButWait, store, control, Old
<1>1. ASSUME NEW m \in Messages, Send(m)
      PROVE  Feeding'
  BY <1>1 DEF Send
<1>2. CASE Tick
  <2>1. age' \in [Messages -> -1..Old]
    <3>1. ASSUME NEW m \in Messages, m \in Sent
          PROVE  Smaller(age[m] + 1, Old) \in -1..Old
      BY <3>1 DEF Smaller, Sent
    <3> QED
      BY <1>2, <3>1 DEF Tick
  <2>2. thread' \in [Threads -> ThreadState] /\ \A w \in Threads : Occupied(thread'[w])
    <3>1. ASSUME NEW w \in Threads, InCycle(w)
          PROVE  [thread[w] EXCEPT !.lag = @ + 1] \in Local
      <4>1. thread[w].lag + 1 \in 0..MaxLag
        BY <1>2, <3>1 DEF Tick, ThreadState
      <4> QED
        BY <4>1 DEF ThreadState, Local, Occupied
    <3> QED
      BY <1>2, <3>1 DEF Tick, Local
  <2> QED
    BY <1>2, <2>1, <2>2 DEF Tick
<1>3. CASE Enable \/ Resume
  <2>1. /\ current' \in Threads \cup {Nobody} /\ stop' \in BOOLEAN
        /\ thread' \in [Threads -> ThreadState] /\ \A w \in Threads : Occupied(thread'[w])
    BY <1>3, AtIsLocal DEF Enable, Resume, StartObserving, Local
  <2> QED
    BY <1>3, <2>1 DEF Enable, Resume
<1>4. CASE Stop
  BY <1>4 DEF Stop
<1>5. CASE StopReturns
  BY <1>5 DEF StopReturns
<1>6. CASE Restart
  <2>1. /\ thread' \in [Threads -> ThreadState] /\ current' \in Threads \cup {Nobody}
        /\ \A w \in Threads : Occupied(thread'[w])
    BY <1>6, AtIsLocal DEF Restart, Local
  <2> QED
    BY <1>6, <2>1 DEF Restart
<1> QED
  BY <1>1, <1>2, <1>3, <1>4, <1>5, <1>6

\* What a thread is about is a message.
LEMMA Concerned ==
    ASSUME Feeding, NEW w \in Threads
    PROVE  /\ thread[w] \in ThreadState
           /\ thread[w].pc = "SCREEN" => Oldest(thread[w].left) \in Messages
           /\ thread[w].pc = "PROCESS" => Oldest(thread[w].fresh) \in Messages
           /\ thread[w].pc = "RECORD" => thread[w].message \in Messages
<1>1. thread[w] \in ThreadState /\ Occupied(thread[w])
  BY DEF Feeding, TypedButWait
<1>2. /\ thread[w].left \in SUBSET Messages /\ thread[w].fresh \in SUBSET Messages
      /\ thread[w].message \in Messages \cup {None}
  BY <1>1 DEF ThreadState
<1>3. thread[w].left # {} => Oldest(thread[w].left) \in Messages
  BY <1>2, OldestIsMember
<1>4. thread[w].fresh # {} => Oldest(thread[w].fresh) \in Messages
  BY <1>2, OldestIsMember
<1> QED
  BY <1>1, <1>2, <1>3, <1>4 DEF Occupied

LEMMA ScreenIsTurn ==
    ASSUME Feeding, NEW w \in Threads, Screen(w)
    PROVE  Turn(w) /\ receipt' \in [Messages -> {"none", "eligible", "ignored"}]
<1> DEFINE t == thread[w]
           m == Oldest(t.left)
           rest == [t EXCEPT !.left = @ \ {m}]
           taken == [rest EXCEPT !.worked = TRUE,
                        !.fresh = IF RetryAllowed(w, m) THEN @ \cup {m} ELSE @]
<1>1. m \in Messages /\ t \in ThreadState
  BY Concerned DEF Screen
<1>2. rest \in ThreadState /\ Continue(rest) \in Local /\ Fails(rest, m) \in Local
  BY <1>1, RestIsState, ContinueIsLocal, FailsIsLocal
<1>3. taken \in ThreadState
  BY <1>1, <1>2 DEF ThreadState
<1>4. Continue(taken) \in Local
  BY <1>3, ContinueIsLocal
<1>5. Becomes(w, Continue(rest)) \/ Becomes(w, Fails(rest, m)) \/ Becomes(w, Continue(taken))
  BY DEF Screen
<1>6. Turn(w)
  <2> HIDE DEF rest, taken, m
  <2> QED
    BY <1>2, <1>4, <1>5 DEF Turn
<1> QED
  BY <1>1, <1>6 DEF Screen, Feeding, TypedButWait

LEMMA CycleIsTyped ==
    ASSUME Feeding, NEW w \in Threads, Observes(w)
    PROVE  Feeding'
<1> DEFINE t == thread[w]
<1> USE DEF store, control
<1>0. t \in ThreadState
  BY Concerned
<1>1. CASE Gate(w)
  <2>1. stop \/ enabled
    BY <1>1 DEF Gate, Feeding, TypedButWait
  <2>2. Turn(w)
    BY <1>1, AtIsLocal, SeenIsLocal DEF Gate, Turn
  <2> QED
    BY <1>1, <2>2, TurnIsTyped DEF Gate, Feeding, TypedButWait
<1>2. CASE OpenRow(w)
  <2>1. Turn(w)
    BY <1>2, AtIsLocal, SeenIsLocal DEF OpenRow, Turn
  <2> QED
    BY <1>2, <2>1, TurnIsTyped DEF OpenRow, Feeding, TypedButWait
<1>3. CASE Begin(w)
  <2>1. [t EXCEPT !.left = t.seen] \in ThreadState
    BY <1>0 DEF ThreadState
  <2>2. Turn(w)
    BY <1>0, <1>3, <2>1, ContinueIsLocal DEF Begin, Turn
  <2> QED
    BY <1>3, <2>2, TurnIsTyped DEF Begin, Feeding, TypedButWait
<1>4. CASE Screen(w)
  BY <1>4, ScreenIsTurn, TurnIsTyped DEF Screen, Feeding, TypedButWait
<1>5. CASE Raises(w)
  <2>1. Turn(w)
    BY <1>5, AtIsLocal DEF Raises, Turn
  <2> QED
    BY <1>5, <2>1, TurnIsTyped DEF Raises, Feeding, TypedButWait
<1>6. CASE Process(w)
  <2> DEFINE m == Oldest(t.fresh)
             rest == [t EXCEPT !.fresh = @ \ {m}]
  <2>1. m \in Messages
    BY <1>6, Concerned DEF Process
  <2>2. rest \in ThreadState /\ Continue(rest) \in Local /\ Fails(rest, m) \in Local
    BY <1>0, <2>1, RestIsState, ContinueIsLocal, FailsIsLocal
  <2>3. Becomes(w, Continue(rest)) \/ Becomes(w, Fails(rest, m))
    BY <1>6 DEF Process
  <2>4. Turn(w)
    <3> HIDE DEF rest, m
    <3> QED
      BY <2>2, <2>3 DEF Turn
  <2>5. /\ receipt' \in [Messages -> {"none", "eligible", "ignored"}]
        /\ derived' \in [Messages -> Nat]
        /\ failures' \in [Messages -> 0..MaxFailures]
    BY <1>6, <2>1, FeedAssumption DEF Process, Feeding, TypedButWait
  <2> QED
    BY <1>6, <2>4, <2>5, TurnIsTyped DEF Process, Feeding, TypedButWait
<1>7. CASE Record(w)
  <2>1. Turn(w)
    BY <1>0, <1>7, ContinueIsLocal DEF Record, Turn
  <2>2. failures' \in [Messages -> 0..MaxFailures]
    BY <1>7, Concerned, FeedAssumption DEF Record, Feeding, TypedButWait
  <2> QED
    BY <1>7, <2>1, <2>2, TurnIsTyped DEF Record, Feeding, TypedButWait
<1>8. CASE Reconcile(w)
  <2> DEFINE observed == {m \in t.seen : Eligible(w, m)}
  <2>1. [t EXCEPT !.worked = FALSE] \in ThreadState
    BY <1>0 DEF ThreadState
  <2>2. Turn(w)
    BY <1>8, <2>1, ContinueIsLocal DEF Reconcile, Turn
  <2>3. observed \in SUBSET Messages
    BY <1>0 DEF ThreadState
  <2>4. frontier' \in Messages \cup {None}
    <3>1. CASE frontier' = frontier
      BY <3>1 DEF Feeding, TypedButWait
    <3>2. CASE Incorporated(observed) /\ frontier' = Boundary(observed)
      <4>1. Newest(observed) \in Messages
        BY <2>3, <3>2, NewestIsMember DEF Incorporated
      <4> QED
        BY <3>2, <4>1 DEF Boundary, Larger, Feeding, TypedButWait
    <3> QED
      BY <1>8, <3>1, <3>2 DEF Reconcile
  <2> QED
    BY <1>8, <2>2, <2>4, TurnIsTyped DEF Reconcile, Feeding, TypedButWait
<1> QED
  BY <1>1, <1>2, <1>3, <1>4, <1>5, <1>6, <1>7, <1>8 DEF Observes

LEMMA FeedingInductive == Feeding /\ [Next]_vars => Feeding'
<1>1. Feeding /\ UNCHANGED vars => Feeding'
  BY DEF Feeding, TypedButWait, Occupied, vars, store, control
<1> QED
  BY <1>1, WorldIsTyped, CycleIsTyped DEF Next

\* Every variable but the time left until a retry has its type, and a thread
\* is at work on a message only while it has one.
THEOREM Typing == Spec => []Feeding
  BY FeedingInit, FeedingInductive, PTL DEF Spec

-----------------------------------------------------------------------------
(* Receipts.                                                               *)

\* A receipt as eligible is given once, together with the events of the
\* message, and is never taken back: what sets messages aside finds it.
Receipted(m) ==
    \/ receipt'[m] = receipt[m] /\ derived'[m] = derived[m]
    \/ receipt[m] # "eligible" /\ receipt'[m] = "eligible" /\ derived'[m] = derived[m] + 1
    \/ receipt[m] = "none" /\ receipt'[m] = "ignored" /\ derived'[m] = derived[m]

LEMMA EveryStepReceipts ==
    ASSUME Feeding, [Next]_vars, NEW m \in Messages
    PROVE  Receipted(m)
<1> USE DEF Receipted
<1>1. CASE UNCHANGED <<receipt, derived>>
  BY <1>1
<1>2. ASSUME NEW w \in Threads, Screen(w)
      PROVE  Receipted(m)
  <2> DEFINE n == Oldest(thread[w].left)
  <2>1. derived' = derived
    BY <1>2 DEF Screen
  <2>2. receipt' = receipt \/ (receipt[n] = "none" /\ receipt' = [receipt EXCEPT ![n] = "ignored"])
    BY <1>2 DEF Screen, Processed
  <2> HIDE DEF n
  <2> QED
    BY <2>1, <2>2 DEF Feeding, TypedButWait
<1>3. ASSUME NEW w \in Threads, Process(w)
      PROVE  Receipted(m)
  <2> DEFINE n == Oldest(thread[w].fresh)
  <2>1. \/ UNCHANGED <<receipt, derived>>
        \/ /\ receipt[n] # "eligible"
           /\ receipt' = [receipt EXCEPT ![n] = "eligible"]
           /\ derived' = [derived EXCEPT ![n] = @ + 1]
    BY <1>3 DEF Process, Unclaimed
  <2> HIDE DEF n
  <2> QED
    BY <2>1 DEF Feeding, TypedButWait
<1> QED
  BY <1>1, <1>2, <1>3 DEF Next, vars, store, Send, Tick, Enable, Resume, Stop, StopReturns,
     Restart, Observes, Gate, OpenRow, Begin, Raises, Record, Reconcile

\* Every message is turned into events exactly once, whatever threads,
\* retries and crashes come between its screening and its claim.
THEOREM Once == Spec => []ExactlyOnce
<1>1. Init => ExactlyOnce
  BY DEF Init, ExactlyOnce
<1>2. Feeding /\ ExactlyOnce /\ [Next]_vars => ExactlyOnce'
  <2> SUFFICES ASSUME Feeding, ExactlyOnce, [Next]_vars, NEW m \in Messages
               PROVE  derived'[m] = IF receipt'[m] = "eligible" THEN 1 ELSE 0
    BY DEF ExactlyOnce
  <2> QED
    BY EveryStepReceipts DEF Receipted, ExactlyOnce, Feeding, TypedButWait
<1> QED
  BY <1>1, <1>2, Typing, PTL DEF Spec

\* The frontier never passes to a message that was not incorporated, and what
\* it stands at stays incorporated.
THEOREM Frontier == Spec => []FrontierIsIncorporated
<1>1. Init => FrontierIsIncorporated
  BY DEF Init, FrontierIsIncorporated
<1>2. Feeding /\ FrontierIsIncorporated /\ [Next]_vars => FrontierIsIncorporated'
  <2> SUFFICES ASSUME Feeding, FrontierIsIncorporated, [Next]_vars, frontier' # None
               PROVE  receipt'[frontier'] = "eligible"
    BY DEF FrontierIsIncorporated
  <2>1. \A m \in Messages : receipt[m] = "eligible" => receipt'[m] = "eligible"
    BY EveryStepReceipts DEF Receipted
  <2>2. CASE frontier' = frontier
    BY <2>1, <2>2 DEF FrontierIsIncorporated, Feeding, TypedButWait
  <2>3. ASSUME NEW w \in Threads, Reconcile(w), frontier' # frontier
        PROVE  receipt'[frontier'] = "eligible"
    <3> DEFINE observed == {m \in thread[w].seen : Eligible(w, m)}
    <3>1. Incorporated(observed) /\ frontier' = Boundary(observed) /\ receipt' = receipt
      BY <2>3 DEF Reconcile
    <3>2. observed \in SUBSET Messages
      BY Concerned DEF ThreadState
    <3>3. Newest(observed) \in observed
      BY <3>1, <3>2, NewestIsMember DEF Incorporated
    <3>4. frontier' = Newest(observed)
      BY <2>3, <3>1 DEF Boundary, Larger
    <3> QED
      BY <3>1, <3>3, <3>4 DEF Incorporated
  <2> QED
    BY <2>2, <2>3 DEF Next, vars, store, Send, Tick, Enable, Resume, Stop, StopReturns,
       Restart, Observes, Gate, OpenRow, Begin, Screen, Raises, Process, Record
<1> QED
  BY <1>1, <1>2, Typing, PTL DEF Spec

-----------------------------------------------------------------------------
(* WhatsAppSend: the thread of a task and the observer on one page.        *)

CONSTANTS Chats, Authorized, Patience, Paths, Leftovers, MaxDraft, MaxSends

VARIABLES site, open, opening, draft, read, box, rows, listed, latest, active,
          sends, watcher

Page == INSTANCE WhatsAppSend

Places == Chats \cup {Page!Nowhere}

\* What the page and the two threads refer to are chats; every composer holds
\* something; the locals of the send are one record.
Shaped ==
    /\ open \in Places /\ opening \in Places /\ rows \subseteq Chats
    /\ draft = [c \in Chats |-> draft[c]]
    /\ task = [pc |-> task.pc, to |-> task.to, path |-> task.path, row |-> task.row,
               typed |-> task.typed, polls |-> task.polls, tries |-> task.tries,
               at |-> task.at, verdict |-> task.verdict]
    /\ task.to \in Places /\ task.row \in Places
    /\ watcher = [pc |-> watcher.pc, row |-> watcher.row] /\ watcher.row \in Places

\* From the confirmation to the submission the composer that was confirmed
\* keeps what it held, whichever chat is open.
ConfirmedIsKept ==
    task.pc \in {"FIND", "SEND"} =>
        /\ task.at \in Chats
        /\ Page!Normalized(draft[task.at]) = Page!Normalized(Message)

\* Only after its command can a send have submitted anything.
SentIsOver == task.pc # "VERIFY" => sent = <<>>

Sending == Shaped /\ ConfirmedIsKept /\ SentIsOver /\ Page!ConfirmedIsWhole

LEMMA SendingInit == Page!Init => Sending
<1> SUFFICES ASSUME Page!Init
             PROVE  Sending
  OBVIOUS
<1>1. draft = [c \in Chats |-> draft[c]]
  BY DEF Page!Init
<1>2. Shaped
  BY <1>1 DEF Shaped, Places, Page!Init, Page!Rest, Page!Away
<1> QED
  BY <1>2 DEF Sending, ConfirmedIsKept, SentIsOver, Page!ConfirmedIsWhole, Page!Init, Page!Rest

\* The page moving on, and the observer, leave composers and the send alone.
LEMMA OthersKeepSending ==
    ASSUME Sending,
           \/ Page!Loads \/ Page!Renders \/ Page!Relists
           \/ Page!Gate \/ Page!Look \/ Page!Open \/ Page!Opened \/ Page!Read
           \/ UNCHANGED Page!vars
    PROVE  Sending'
<1>1. UNCHANGED <<draft, task, sent>>
  BY DEF Page!Loads, Page!Renders, Page!Relists, Page!Gate, Page!Look, Page!Open,
         Page!Opened, Page!Read, Page!vars, Page!page
<1>2. open' \in Places /\ opening' \in Places
  BY DEF Page!Loads, Page!Renders, Page!Relists, Page!Gate, Page!Look, Page!Open,
         Page!Opened, Page!Read, Page!Clicked, Page!vars, Page!page, Sending, Shaped, Places
<1>3. rows' \subseteq Chats
  <2>1. CASE Page!Relists
    BY <2>1 DEF Page!Relists, Sending, Shaped, Places
  <2>2. CASE rows' = rows
    BY <2>2 DEF Sending, Shaped
  <2> QED
    BY <2>1, <2>2
    DEF Page!Loads, Page!Renders, Page!Gate, Page!Look, Page!Open, Page!Opened, Page!Read,
        Page!vars, Page!page
<1>4. watcher' = [pc |-> watcher'.pc, row |-> watcher'.row] /\ watcher'.row \in Places
  <2>1. CASE Page!Look
    <3>1. \E r \in Places : \E p : watcher' = [pc |-> p, row |-> r]
      BY <2>1 DEF Page!Look, Page!Watches, Page!Away, Sending, Shaped, Places
    <3> QED
      BY <3>1
  <2>2. CASE watcher' = watcher \/ \E pc : Page!Watches(pc)
    BY <2>2 DEF Page!Watches, Page!Away, Sending, Shaped, Places
  <2> QED
    BY <2>1, <2>2
    DEF Page!Loads, Page!Renders, Page!Relists, Page!Gate, Page!Open, Page!Opened,
        Page!Read, Page!vars
<1> QED
  BY <1>1, <1>2, <1>3, <1>4
  DEF Sending, Shaped, ConfirmedIsKept, SentIsOver, Page!ConfirmedIsWhole


\* The locals of the send keep their shape, whichever way a step moves on.
LEMMA LocalsKeepShape ==
    ASSUME Shaped, NEW p,
           \/ task' = task \/ Page!Goes(p) \/ Page!Polls \/ Page!Raises \/ Page!Retries(p)
    PROVE  /\ task' = [pc |-> task'.pc, to |-> task'.to, path |-> task'.path,
                       row |-> task'.row, typed |-> task'.typed, polls |-> task'.polls,
                       tries |-> task'.tries, at |-> task'.at, verdict |-> task'.verdict]
           /\ task'.to = task.to /\ task'.at = task.at /\ task'.row \in Places
           /\ task'.pc \in {task.pc, p, "VERIFY"}
  BY DEF Shaped, Places, Page!Goes, Page!Polls, Page!Raises, Page!Retries

\* A step on the way to the confirmation: it submits nothing, and keeps the
\* shape of what it moves on.
LEMMA EarlierStep ==
    ASSUME Sending, Shaped', sent' = sent, task.pc # "VERIFY",
           task'.pc \notin {"FIND", "SEND"}
    PROVE  Sending'
  BY DEF Sending, SentIsOver, ConfirmedIsKept, Page!ConfirmedIsWhole

LEMMA ApproveKeepsSending ==
    ASSUME Sending, NEW c \in Chats, NEW path \in Paths, Page!Approve(c, path)
    PROVE  Sending'
<1>1. task' = [pc |-> "LAND", to |-> c, path |-> path, row |-> Page!Nowhere, typed |-> 0,
               polls |-> Patience, tries |-> Patience, at |-> Page!Nowhere,
               verdict |-> "NONE"]
  BY DEF Page!Approve, Page!Rest
<1>2. UNCHANGED <<open, opening, draft, rows, watcher>>
  BY DEF Page!Approve, Page!page
<1>3. Shaped'
  <2>1. /\ task' = [pc |-> task'.pc, to |-> task'.to, path |-> task'.path,
                    row |-> task'.row, typed |-> task'.typed, polls |-> task'.polls,
                    tries |-> task'.tries, at |-> task'.at, verdict |-> task'.verdict]
        /\ task'.to \in Places /\ task'.row \in Places
    BY <1>1 DEF Places
  <2> QED
    BY <1>2, <2>1 DEF Sending, Shaped, Places
<1> QED
  BY <1>1, <1>3
  DEF Page!Approve, Sending, ConfirmedIsKept, SentIsOver, Page!ConfirmedIsWhole

\* The steps before the composer: they move the page and the send on.
LEMMA OpeningKeepsSending ==
    ASSUME Sending,
           \/ Page!Land \/ Page!Search \/ Page!Query \/ Page!Result \/ Page!Click
           \/ Page!Header \/ Page!Composer
    PROVE  Sending'
<1>1. task.pc \in {"LAND", "SEARCH", "QUERY", "RESULT", "CLICK", "HEADER", "COMPOSER"}
      /\ sent' = sent /\ draft' = draft /\ watcher' = watcher
  BY DEF Page!Land, Page!Search, Page!Query, Page!Result, Page!Click, Page!Header,
         Page!Composer, Page!page
<1>2. open' \in Places /\ opening' \in Places /\ rows' \subseteq Chats
  BY DEF Page!Land, Page!Search, Page!Query, Page!Result, Page!Click, Page!Header,
         Page!Composer, Page!page, Page!Clicked, Sending, Shaped, Places
<1>3. /\ task' = [pc |-> task'.pc, to |-> task'.to, path |-> task'.path,
                  row |-> task'.row, typed |-> task'.typed, polls |-> task'.polls,
                  tries |-> task'.tries, at |-> task'.at, verdict |-> task'.verdict]
      /\ task'.to = task.to /\ task'.row \in Places /\ task'.pc \notin {"FIND", "SEND"}
  <2>1. CASE \E p \in {"SEARCH", "QUERY", "RESULT", "HEADER", "TYPE"} :
               \/ task' = task \/ Page!Goes(p) \/ Page!Polls \/ Page!Raises
               \/ Page!Retries(p)
    BY <1>1, <2>1, LocalsKeepShape DEF Sending
  <2>2. CASE Page!Result /\ \E c \in Page!Found : task' = [task EXCEPT !.pc = "CLICK", !.row = c]
    BY <2>2 DEF Page!Found, Sending, Shaped, Places
  <2>3. CASE Page!Header /\ task' = [task EXCEPT !.pc = "COMPOSER", !.polls = Patience,
                                                !.tries = Patience, !.row = Page!Nowhere]
    BY <2>3 DEF Sending, Shaped, Places
  <2> QED
    BY <2>1, <2>2, <2>3
    DEF Page!Land, Page!Search, Page!Query, Page!Result, Page!Click, Page!Header,
        Page!Composer
<1>4. Shaped'
  BY <1>1, <1>2, <1>3 DEF Sending, Shaped, Places
<1> QED
  BY <1>1, <1>3, <1>4, EarlierStep

LEMMA TypeKeepsSending ==
    ASSUME Sending, Page!Type
    PROVE  Sending'
<1>1. /\ task.pc = "TYPE" /\ sent' = sent /\ open' = open /\ opening' = opening
      /\ rows' = rows /\ watcher' = watcher
  BY DEF Page!Type
<1>2. draft' = [c \in Chats |-> draft'[c]]
  <2>1. draft' = draft \/ draft' = Page!Pressed(Message[task.typed + 1])
    BY DEF Page!Type
  <2> QED
    BY <2>1 DEF Page!Pressed, Sending, Shaped
<1>3. /\ task' = [pc |-> task'.pc, to |-> task'.to, path |-> task'.path,
                  row |-> task'.row, typed |-> task'.typed, polls |-> task'.polls,
                  tries |-> task'.tries, at |-> task'.at, verdict |-> task'.verdict]
      /\ task'.to = task.to /\ task'.row \in Places /\ task'.pc \notin {"FIND", "SEND"}
  <2>1. CASE Page!Retries("COMPOSER")
    BY <1>1, <2>1, LocalsKeepShape DEF Sending
  <2>2. CASE \/ task' = [task EXCEPT !.pc = "CONFIRM", !.polls = Patience, !.typed = 0]
             \/ task' = [task EXCEPT !.typed = @ + 1]
    BY <1>1, <2>2 DEF Sending, Shaped
  <2> QED
    BY <2>1, <2>2 DEF Page!Type
<1>4. Shaped'
  BY <1>1, <1>2, <1>3 DEF Sending, Shaped, Places
<1> QED
  BY <1>1, <1>3, <1>4, EarlierStep

\* The confirmation reads the composer of the chat that is open.
LEMMA ConfirmKeepsSending ==
    ASSUME Sending, Page!Confirm
    PROVE  Sending'
<1>1. task.pc = "CONFIRM" /\ sent' = sent
      /\ UNCHANGED <<open, opening, draft, rows, watcher>>
  BY DEF Page!Confirm, Page!page
<1>2. CASE /\ open # Page!Nowhere /\ Page!Held(draft[open])
           /\ task' = [task EXCEPT !.pc = "FIND", !.polls = Patience, !.at = open]
  <2>1. Shaped'
    BY <1>1, <1>2 DEF Sending, Shaped, Places
  <2>2. ConfirmedIsKept'
    BY <1>1, <1>2 DEF Sending, Shaped, Places, ConfirmedIsKept, Page!Held
  <2> QED
    BY <1>1, <2>1, <2>2 DEF Sending, SentIsOver, Page!ConfirmedIsWhole
<1>3. CASE Page!Polls
  <2>1. Shaped' /\ task'.pc \notin {"FIND", "SEND"}
    BY <1>1, <1>3, LocalsKeepShape DEF Sending, Shaped, Places
  <2> QED
    BY <1>1, <2>1, EarlierStep
<1> QED
  BY <1>2, <1>3 DEF Page!Confirm

\* Looking for the button leaves the composer as it is.
LEMMA FindKeepsSending ==
    ASSUME Sending, Page!Find
    PROVE  Sending'
<1>1. task.pc = "FIND" /\ sent' = sent
      /\ UNCHANGED <<open, opening, draft, rows, watcher>>
  BY DEF Page!Find, Page!page
<1>2. Shaped' /\ task'.at = task.at
  <2>1. Page!Goes("SEND") \/ Page!Polls \/ Page!Raises
    BY DEF Page!Find
  <2> QED
    BY <1>1, <2>1, LocalsKeepShape DEF Sending, Shaped, Places
<1> QED
  BY <1>1, <1>2 DEF Sending, ConfirmedIsKept, SentIsOver, Page!ConfirmedIsWhole

\* What is submitted is what the open chat's composer holds: the whole
\* message, when that is the chat of the confirmation.
LEMMA SendKeepsSending ==
    ASSUME Sending, Page!Send
    PROVE  Sending'
<1>1. task.pc = "SEND" /\ Page!Goes("VERIFY")
      /\ UNCHANGED <<open, opening, rows, watcher>>
  BY DEF Page!Send
<1>2. draft' = [c \in Chats |-> draft'[c]]
  BY DEF Page!Send, Page!Submitted, Sending, Shaped
<1>3. Shaped' /\ task'.at = task.at /\ task'.pc = "VERIFY"
  <2>1. task'.pc = "VERIFY"
    BY <1>1 DEF Page!Goes, Sending, Shaped
  <2> QED
    BY <1>1, <1>2, <2>1, LocalsKeepShape DEF Sending, Shaped, Places
<1>4. Page!ConfirmedIsWhole'
  <2>1. CASE sent' = sent
    BY <1>1, <1>3, <2>1 DEF Sending, SentIsOver, Page!ConfirmedIsWhole
  <2>2. CASE sent' = <<[to |-> open, text |-> draft[open]]>>
    BY <1>1, <1>3, <2>2 DEF Sending, ConfirmedIsKept, Page!ConfirmedIsWhole
  <2> QED
    BY <2>1, <2>2 DEF Page!Send, Page!Submitted
<1> QED
  BY <1>3, <1>4 DEF Sending, ConfirmedIsKept, SentIsOver

LEMMA FailsKeepsSending ==
    ASSUME Sending, Page!Fails
    PROVE  Sending'
<1>1. task.pc # "VERIFY" /\ sent' = sent
      /\ UNCHANGED <<open, opening, draft, rows, watcher>>
  BY DEF Page!Fails, Page!page
<1>2. Shaped' /\ task'.pc = "VERIFY"
  <2>1. task'.pc = "VERIFY"
    BY DEF Page!Fails, Page!Raises, Sending, Shaped
  <2> QED
    BY <1>1, <2>1, LocalsKeepShape DEF Page!Fails, Sending, Shaped, Places
<1> QED
  BY <1>1, <1>2, EarlierStep

LEMMA VerifyKeepsSending ==
    ASSUME Sending, Page!Verify
    PROVE  Sending'
<1>1. task.pc = "VERIFY" /\ UNCHANGED <<open, opening, draft, rows, watcher>>
  BY DEF Page!Verify, Page!page
<1>2. CASE Page!Polls /\ sent' = sent
  <2>1. Shaped' /\ task'.at = task.at /\ task'.pc = "VERIFY"
    BY <1>1, <1>2, LocalsKeepShape DEF Sending, Shaped, Places
  <2> QED
    BY <1>2, <2>1 DEF Sending, ConfirmedIsKept, SentIsOver, Page!ConfirmedIsWhole
<1>3. CASE \E verdict : Page!Ends(verdict)
  <2>1. PICK verdict : Page!Ends(verdict)
    BY <1>3
  <2>2. sent' = <<>> /\ task' = [pc |-> "IDLE", to |-> Page!Nowhere, path |-> "direct",
             row |-> Page!Nowhere, typed |-> 0, polls |-> 0, tries |-> 0,
             at |-> Page!Nowhere, verdict |-> verdict]
    BY <2>1 DEF Page!Ends, Page!Rest
  <2>3. Shaped'
    BY <1>1, <2>2 DEF Sending, Shaped, Places
  <2> QED
    BY <2>2, <2>3 DEF Sending, ConfirmedIsKept, SentIsOver, Page!ConfirmedIsWhole
<1> QED
  BY <1>2, <1>3 DEF Page!Verify

\* What a send submits in the chat where its composer was confirmed is the
\* whole message, but for white space and case, whichever keys were lost,
\* whichever chats the observer opened and whatever failed attempts left behind.
THEOREM Confirmed == Page!Spec => []ConfirmedIsWhole
<1>1. Page!Init => Sending
  BY SendingInit
<1>2. Sending /\ [Page!Next]_(Page!vars) => Sending'
  BY ApproveKeepsSending, OpeningKeepsSending, TypeKeepsSending, ConfirmKeepsSending,
     FindKeepsSending, SendKeepsSending, FailsKeepsSending, VerifyKeepsSending,
     OthersKeepSending
  DEF Page!Next, Page!Works
<1>3. Sending => ConfirmedIsWhole
  BY DEF Sending, Page!ConfirmedIsWhole, ConfirmedIsWhole, Page!Normalized, Normalized,
     Page!Breaks, Breaks, Page!Letters, Letters, Page!Blank, Blank, Page!Folded, Folded
<1> QED
  BY <1>1, <1>2, <1>3, PTL DEF Page!Spec

=============================================================================
