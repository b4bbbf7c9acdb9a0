---------------------------- MODULE TaskProofs ----------------------------
(***************************************************************************)
(* Proofs about what is done in place of a free plan: Procedures, for      *)
(* every set of procedures with any steps and every number of threads and  *)
(* judges; and, under the name Setup, SetupProject, for every set of       *)
(* packages and every budget.                                              *)
(***************************************************************************)
EXTENDS Procedures, FolderPromises, TLAPS

Todo == Seq(Ops)

\* What a judge may still owe the row of p: it goes on to a status that may be
\* executed, or to the note of a grant, only for a procedure among
\* those that passed.
Owed(passed, p, op) ==
    /\ op[1] \in {"CHECK", "WRITE"} /\ op[2] \in {"ACTIVE", "DEGRADED"} => p \in passed
    /\ op[1] = "NOTE" => p \in passed
    /\ op[1] = "IF" => op[2] \in {"CANDIDATE", "INVALIDATED"}

IsOwed(passed, p, todo) == \A i \in 1..Len(todo) : Owed(passed, p, todo[i])

-----------------------------------------------------------------------------
(* Lists of things to do.                                                  *)

LEMMA RestIsOwed ==
    ASSUME NEW passed, NEW p, NEW todo \in Todo, todo # <<>>, IsOwed(passed, p, todo)
    PROVE  Tail(todo) \in Todo /\ IsOwed(passed, p, Tail(todo)) /\ Owed(passed, p, Head(todo))
<1>1. /\ Tail(todo) \in Seq(Ops) /\ Len(Tail(todo)) = Len(todo) - 1
      /\ \A i \in 1..Len(Tail(todo)) : Tail(todo)[i] = todo[i + 1]
      /\ Len(todo) \in Nat /\ Len(todo) # 0 /\ Head(todo) = todo[1]
  BY DEF Todo
<1>2. \A i \in 1..Len(Tail(todo)) : i + 1 \in 1..Len(todo)
  BY <1>1
<1> QED
  BY <1>1, <1>2 DEF IsOwed, Todo

LEMMA OneIsOwed ==
    ASSUME NEW passed, NEW p, NEW op \in Ops, Owed(passed, p, op)
    PROVE  <<op>> \in Todo /\ IsOwed(passed, p, <<op>>)
  BY DEF IsOwed, Todo

LEMMA JoinedIsOwed ==
    ASSUME NEW passed, NEW p, NEW a \in Todo, NEW b \in Todo, IsOwed(passed, p, a), IsOwed(passed, p, b)
    PROVE  a \o b \in Todo /\ IsOwed(passed, p, a \o b)
<1>1. /\ a \o b \in Seq(Ops) /\ Len(a \o b) = Len(a) + Len(b)
      /\ Len(a) \in Nat /\ Len(b) \in Nat
  BY DEF Todo
<1>2. ASSUME NEW i \in 1..Len(a \o b)
      PROVE  Owed(passed, p, (a \o b)[i])
  <2>1. CASE i <= Len(a)
    <3>1. (a \o b)[i] = a[i] /\ i \in 1..Len(a)
      BY <1>1, <2>1 DEF Todo
    <3> QED
      BY <3>1 DEF IsOwed
  <2>2. CASE ~ (i <= Len(a))
    <3>1. (a \o b)[i] = b[i - Len(a)] /\ i - Len(a) \in 1..Len(b)
      BY <1>1, <2>2 DEF Todo
    <3> QED
      BY <3>1 DEF IsOwed
  <2> QED
    BY <2>1, <2>2
<1> QED
  BY <1>1, <1>2 DEF IsOwed, Todo

LEMMA NothingIsOwed == \A passed, p : <<>> \in Todo /\ IsOwed(passed, p, <<>>)
  BY DEF IsOwed, Todo

\* A list that was owed before more procedures passed still is.
LEMMA OwedIsKept ==
    ASSUME NEW less, NEW more, less \subseteq more, NEW p, NEW todo, IsOwed(less, p, todo)
    PROVE  IsOwed(more, p, todo)
  BY DEF IsOwed, Owed

-----------------------------------------------------------------------------
(* The inductive invariant.  A row never goes back to none, so whatever    *)
(* has one was learned from a verified workflow; and what a judge has      *)
(* still to write, however stale its reading, was owed when the call was   *)
(* made and stays owed.                                                    *)

RowsAreProven == \A p \in Procs : status[p] # "NONE" => p \in proven \cup waived

\* No validation passes a definition that asks for no verification somewhere.
GrantedIsWhole == \A p \in granted : status[p] # "NONE" /\ p \notin waived

ActiveIsGranted ==
    \A p \in Procs : status[p] \in {"ACTIVE", "DEGRADED"} \/ p \in noted => p \in granted

CallsAreOwed ==
    \A j \in Judges :
        /\ call[j].todo # <<>> => call[j].proc \in Procs /\ status[call[j].proc] # "NONE"
        /\ IsOwed(granted, call[j].proc, call[j].todo)

Earned == RowsAreProven /\ GrantedIsWhole /\ ActiveIsGranted /\ CallsAreOwed

\* A workflow that may be learned from was verified in each of its steps, or
\* has a step that asks for no verification.
LEMMA EligibleIsVerified == \A end \in Endings : Eligible(end) => Verified(end) \/ Waives(end)
<1> SUFFICES ASSUME NEW end \in Endings, Eligible(end), <<"COMPLETED", "WAIVED">> \notin end.steps
             PROVE  end.steps = {<<"COMPLETED", "PASS">>}
  BY DEF Verified, Waives
<1>1. end.steps # {}
  BY DEF Endings
<1>2. \A s \in end.steps : s = <<"COMPLETED", "PASS">>
  BY DEF Eligible
<1> QED
  BY <1>1, <1>2

LEMMA StatusNames ==
    /\ {"CANDIDATE", "VALIDATING", "ACTIVE", "DEGRADED", "INVALIDATED"} = Statuses
    /\ "NONE" \notin Statuses
  BY DEF Statuses

LEMMA SetIsOp == \A s \in Statuses : Set(s) \in Ops /\ <<"WRITE", s>> \in Ops
  BY DEF Set, Ops

\* What a validation has to write is owed to a procedure that passed it.
LEMMA WritesAreOwed ==
    ASSUME NEW passed, NEW p \in Procs, NEW verdict \in {"PROMOTE", "KEEP", "INVALIDATE"},
           verdict = "PROMOTE" => p \in passed
    PROVE  Writes(verdict) \in Todo /\ IsOwed(passed, p, Writes(verdict))
<1>1. CASE verdict = "PROMOTE"
  <2>1. Writes(verdict) = <<<<"CHECK", "ACTIVE">>, <<"NOTE", "GRANTED">>>>
    BY <1>1 DEF Writes, Set
  <2>2. <<"CHECK", "ACTIVE">> \in Ops /\ <<"NOTE", "GRANTED">> \in Ops
    BY DEF Ops, Statuses
  <2>3. Owed(passed, p, <<"CHECK", "ACTIVE">>) /\ Owed(passed, p, <<"NOTE", "GRANTED">>)
    BY <1>1 DEF Owed
  <2> QED
    BY <2>1, <2>2, <2>3 DEF IsOwed, Todo
<1>2. CASE verdict = "KEEP"
  <2>1. Writes(verdict) = <<<<"IF", "CANDIDATE">>>>
    BY <1>2 DEF Writes
  <2>2. <<"IF", "CANDIDATE">> \in Ops /\ Owed(passed, p, <<"IF", "CANDIDATE">>)
    BY DEF Ops, Statuses, Owed
  <2> QED
    BY <2>1, <2>2, OneIsOwed
<1>3. CASE verdict = "INVALIDATE"
  <2>1. Writes(verdict) = <<<<"IF", "INVALIDATED">>>>
    BY <1>3 DEF Writes
  <2>2. <<"IF", "INVALIDATED">> \in Ops /\ Owed(passed, p, <<"IF", "INVALIDATED">>)
    BY DEF Ops, Statuses, Owed
  <2> QED
    BY <2>1, <2>2, OneIsOwed
<1> QED
  BY <1>1, <1>2, <1>3

LEMMA CallIsTyped ==
    ASSUME TypeOK, NEW j \in Judges, NEW p \in Procs \cup {Nobody}, NEW todo \in Todo
    PROVE  [call EXCEPT ![j] = [proc |-> p, todo |-> todo]]
             \in [Judges -> [proc : Procs \cup {Nobody}, todo : Seq(Ops)]]
  BY DEF TypeOK, Todo

-----------------------------------------------------------------------------
(* Type correctness.                                                       *)

\* A verdict is one of three.
LEMMA VerdictIsOne ==
    \A p, evidence : Verdict(p, evidence) \in {"PROMOTE", "KEEP", "INVALIDATE"}
  BY DEF Verdict

\* The types of what a call owes; the rest of the calls do as they did.
Calls == [Judges -> [proc : Procs \cup {Nobody}, todo : Seq(Ops)]]

Lanes == [Threads -> [pc : {"IDLE", "RUN", "CHECK", "PLAN"}, proc : Procs \cup {Nobody},
                      next : Nat, acted : BOOLEAN]]

RunsAStep(run) ==
    run.pc = "RUN" => run.proc \in Procs /\ run.next \in 1..Len(Steps[run.proc])

LEMMA ServesIsTyped ==
    ASSUME TypeOK, NEW t \in Threads, NEW to, Serves(t, to),
           to \in [pc : {"IDLE", "RUN", "CHECK", "PLAN"}, proc : Procs \cup {Nobody},
                   next : Nat, acted : BOOLEAN],
           RunsAStep(to)
    PROVE  TypeOK'
  BY DEF TypeOK, Serves, rows, RunsAStep

LEMMA ExecutionIsTyped ==
    ASSUME TypeOK, NEW t \in Threads,
           \/ \E k \in Kinds : Ask(t, k)
           \/ Refuse(t) \/ Break(t) \/ Step(t) \/ Check(t) \/ Plan(t)
    PROVE  TypeOK'
<1> DEFINE Run == [pc : {"IDLE", "RUN", "CHECK", "PLAN"}, proc : Procs \cup {Nobody},
                   next : Nat, acted : BOOLEAN]
<1>1. lane[t] \in Run /\ RunsAStep(lane[t])
  BY DEF TypeOK, RunsAStep
<1>2. Free \in Run /\ Free.pc = "IDLE"
  BY DEF Free
<1>3. \A acted \in BOOLEAN : ToPlanner(acted) \in Run /\ ToPlanner(acted).pc = "PLAN"
  BY DEF ToPlanner, Free
<1>4. ASSUME NEW k \in Kinds, Ask(t, k)
      PROVE  TypeOK'
  <2>1. ASSUME NEW p \in Procs, Serves(t, [Free EXCEPT !.pc = "RUN", !.proc = p])
        PROVE  TypeOK'
    <3> DEFINE to == [Free EXCEPT !.pc = "RUN", !.proc = p]
    <3>1. to \in Run /\ to.proc = p /\ to.next = 1
      BY DEF Free
    <3>2. RunsAStep(to)
      BY <3>1, ProcsAssumption DEF RunsAStep
    <3> QED
      BY <2>1, <3>1, <3>2, ServesIsTyped
  <2>2. CASE Serves(t, ToPlanner(FALSE))
    BY <1>3, <2>2, ServesIsTyped DEF RunsAStep
  <2> QED
    BY <1>4, <2>1, <2>2 DEF Ask, Matches
<1>5. CASE Refuse(t)
  BY <1>1, <1>3, <1>5, ServesIsTyped DEF Refuse, RunsAStep
<1>6. CASE Break(t) \/ Check(t) \/ Plan(t)
  BY <1>2, <1>6, ServesIsTyped DEF Break, Check, Plan, RunsAStep
<1>7. CASE Step(t)
  <2> DEFINE last == lane[t].next = Len(Steps[lane[t].proc])
             done == [lane[t] EXCEPT !.pc = "CHECK", !.acted = TRUE]
             more == [lane[t] EXCEPT !.next = @ + 1, !.acted = TRUE]
  <2>1. CASE last
    <3>1. done \in Run /\ done.pc = "CHECK"
      BY <1>1
    <3> QED
      BY <1>7, <2>1, <3>1, ServesIsTyped DEF Step, RunsAStep
  <2>2. CASE ~ last
    <3>1. more \in Run /\ more.proc = lane[t].proc /\ more.next = lane[t].next + 1
      <4>1. lane[t] \in Run /\ lane[t].next + 1 \in Nat
        BY <1>1
      <4>2. ASSUME NEW n \in Nat
            PROVE  [lane[t] EXCEPT !.next = n, !.acted = TRUE] \in Run
        BY <1>1
      <4>3. more = [lane[t] EXCEPT !.next = lane[t].next + 1, !.acted = TRUE]
        OBVIOUS
      <4> QED
        BY <4>1, <4>2, <4>3
    <3>2. RunsAStep(more)
      BY <1>1, <1>7, <2>2, <3>1, ProcsAssumption DEF Step, RunsAStep
    <3> QED
      BY <1>7, <2>2, <3>1, <3>2, ServesIsTyped DEF Step
  <2> QED
    BY <2>1, <2>2
<1> QED
  BY <1>4, <1>5, <1>6, <1>7

LEMMA GoesIsTyped ==
    ASSUME TypeOK, NEW j \in Judges, NEW todo \in Todo, Goes(j, todo)
    PROVE  call' \in Calls
<1>1. call \in Calls
  BY DEF TypeOK, Calls
<1> QED
  BY <1>1 DEF Goes, Calls, Todo

LEMMA DoesIsTyped ==
    ASSUME TypeOK, CallsAreOwed, NEW j \in Judges, NEW op, NEW to, Does(j, op, to)
    PROVE  /\ Rest(j) \in Todo /\ IsOwed(granted, call[j].proc, Rest(j))
           /\ Owed(granted, call[j].proc, <<op, to>>) /\ <<op, to>> \in Ops
           /\ call[j].proc \in Procs /\ status[call[j].proc] # "NONE"
<1>1. /\ call[j].todo \in Todo /\ call[j].todo # <<>>
      /\ IsOwed(granted, call[j].proc, call[j].todo)
  BY DEF TypeOK, CallsAreOwed, Does, Todo
<1>2. Head(call[j].todo) \in Ops
  BY <1>1 DEF Todo
<1> QED
  BY <1>1, <1>2, RestIsOwed DEF Does, Rest, CallsAreOwed

-----------------------------------------------------------------------------
(* The invariant is inductive.  Typing and Earned are shown together: that *)
(* a judge never writes to a row that is not there is part of both.        *)

EarnedAndTyped == TypeOK /\ Earned

RowsStay == \A p \in Procs : status[p] # "NONE" => status'[p] # "NONE"

\* What the judges owe is still owed when one of them goes on with its call,
\* or makes one, and no row goes away.
LEMMA CallsStayOwed ==
    ASSUME TypeOK, CallsAreOwed, RowsStay, granted \subseteq granted',
           NEW j \in Judges, NEW p \in Procs, NEW todo \in Todo,
           status[p] # "NONE", IsOwed(granted', p, todo),
           call' = [call EXCEPT ![j] = [proc |-> p, todo |-> todo]]
    PROVE  CallsAreOwed'
<1> SUFFICES ASSUME NEW k \in Judges
             PROVE  /\ call'[k].todo # <<>> =>
                          call'[k].proc \in Procs /\ status'[call'[k].proc] # "NONE"
                    /\ IsOwed(granted', call'[k].proc, call'[k].todo)
  BY DEF CallsAreOwed
<1>1. CASE k = j
  <2>1. call'[k].proc = p /\ call'[k].todo = todo
    BY <1>1 DEF TypeOK
  <2> QED
    BY <2>1 DEF RowsStay
<1>2. CASE k # j
  <2>1. call'[k] = call[k]
    BY <1>2 DEF TypeOK
  <2>2. IsOwed(granted', call[k].proc, call[k].todo)
    BY OwedIsKept DEF CallsAreOwed
  <2> QED
    BY <2>1, <2>2 DEF CallsAreOwed, RowsStay
<1> QED
  BY <1>1, <1>2

LEMMA GoingStaysOwed ==
    ASSUME TypeOK, CallsAreOwed, RowsStay, granted' = granted,
           NEW j \in Judges, NEW todo \in Todo, call[j].proc \in Procs,
           status[call[j].proc] # "NONE", IsOwed(granted, call[j].proc, todo),
           Goes(j, todo)
    PROVE  CallsAreOwed'
<1>1. call' = [call EXCEPT ![j] = [proc |-> call[j].proc, todo |-> todo]]
  <2>1. call[j] \in [proc : Procs \cup {Nobody}, todo : Seq(Ops)]
    BY DEF TypeOK
  <2>2. [call[j] EXCEPT !.todo = todo] = [proc |-> call[j].proc, todo |-> todo]
    BY <2>1
  <2> QED
    BY <2>2 DEF Goes
<1> QED
  BY <1>1, CallsStayOwed

\* A step that leaves the calls alone.
LEMMA OthersStayOwed ==
    ASSUME TypeOK, CallsAreOwed, RowsStay, granted' = granted, call' = call
    PROVE  CallsAreOwed'
  BY DEF CallsAreOwed, RowsStay, TypeOK

LEMMA LearningIsEarned ==
    ASSUME EarnedAndTyped, NEW t \in Threads, NEW p \in Procs, NEW end \in Endings,
           Learn(t, p, end)
    PROVE  EarnedAndTyped'
<1> USE DEF EarnedAndTyped, Earned
<1>1. Verified(end) \/ Waives(end)
  BY EligibleIsVerified DEF Learn
<1>2. RowsStay
  BY StatusNames DEF Learn, RowsStay, TypeOK
<1>3. CallsAreOwed'
  BY <1>2, OthersStayOwed DEF Learn
<1>4. RowsAreProven' /\ GrantedIsWhole' /\ ActiveIsGranted'
  <2>1. CASE Opens(t) /\ Absent(p)
    <3>1. /\ status' = [status EXCEPT ![p] = "CANDIDATE"]
          /\ waived \subseteq waived' /\ waived' \subseteq waived \cup {p}
          /\ proven \subseteq proven' /\ p \in proven' \cup waived'
          /\ UNCHANGED <<noted, granted>> /\ status[p] = "NONE"
      BY <1>1, <2>1 DEF Learn, Absent
    <3>2. \A q \in Procs : status'[q] = IF q = p THEN "CANDIDATE" ELSE status[q]
      BY <3>1 DEF TypeOK
    <3>3. granted \subseteq Procs /\ p \notin granted
      BY <3>1 DEF GrantedIsWhole, TypeOK
    <3>4. RowsAreProven'
      BY <3>1, <3>2 DEF RowsAreProven
    <3>5. GrantedIsWhole'
      BY <3>1, <3>2, <3>3 DEF GrantedIsWhole
    <3>6. ActiveIsGranted'
      BY <3>1, <3>2 DEF ActiveIsGranted
    <3> QED
      BY <3>4, <3>5, <3>6
  <2>2. CASE ~ (Opens(t) /\ Absent(p))
    BY <2>2 DEF Learn, RowsAreProven, GrantedIsWhole, ActiveIsGranted
  <2> QED
    BY <2>1, <2>2
<1>5. /\ status' \in [Procs -> Statuses \cup {"NONE"}]
      /\ proven' \subseteq Procs /\ waived' \subseteq Procs
      /\ owner' \in Threads \cup {Nobody}
  <2>1. /\ status' = status \/ status' = [status EXCEPT ![p] = "CANDIDATE"]
        /\ proven' \subseteq proven \cup {p} /\ waived' \subseteq waived \cup {p}
        /\ owner' \in {owner, t}
    BY DEF Learn
  <2>2. proven \subseteq Procs /\ waived \subseteq Procs /\ owner \in Threads \cup {Nobody}
    BY DEF TypeOK
  <2>3. status' \in [Procs -> Statuses \cup {"NONE"}]
    BY <2>1, StatusNames DEF TypeOK
  <2> QED
    BY <2>1, <2>2, <2>3
<1>6. \A r, q \in Procs :
        Steps[r] = Steps[q] /\ r # q => "NONE" \in {status'[r], status'[q]}
  BY DEF Learn, TypeOK, Absent
<1>7. \A q \in Procs : status'[q] = "NONE" => q \notin waived' \cup harmed \cup noted
  <2>1. \A q \in Procs : status'[q] = "NONE" => q \notin waived'
    BY StatusNames DEF Learn, TypeOK
  <2> QED
    BY <1>2, <2>1 DEF RowsStay, TypeOK
<1>8. TypeOK'
  BY <1>5, <1>6, <1>7 DEF Learn, TypeOK
<1> QED
  BY <1>3, <1>4, <1>8

LEMMA JudgingIsEarned ==
    ASSUME EarnedAndTyped, NEW j \in Judges, NEW p \in Procs,
           \/ \E e \in {"ENOUGH", "THIN", "AGAINST"} : Validate(j, p, e)
           \/ \E e \in {"NONE", "INVALID", "REVALIDATED"} : Assess(j, p, e)
    PROVE  EarnedAndTyped'
<1> USE DEF EarnedAndTyped, Earned
<1>1. ASSUME NEW e \in {"ENOUGH", "THIN", "AGAINST"}, Validate(j, p, e)
      PROVE  EarnedAndTyped'
  <2> DEFINE writes == Writes(Verdict(p, e))
             first == IF status[p] = "CANDIDATE" THEN <<Set("VALIDATING")>> ELSE <<>>
  <2>1. /\ status[p] # "NONE" /\ RowsStay /\ granted \subseteq granted'
        /\ granted' \subseteq Procs
        /\ Verdict(p, e) = "PROMOTE" => p \in granted'
        /\ granted' \subseteq granted \cup {p} /\ UNCHANGED rows
    BY <1>1 DEF Validate, Startable, RowsStay, rows, TypeOK
  <2>2. writes \in Todo /\ IsOwed(granted', p, writes)
    BY <2>1, WritesAreOwed, VerdictIsOne
  <2>3. first \in Todo /\ IsOwed(granted', p, first)
    <3>1. Set("VALIDATING") \in Ops /\ Owed(granted', p, Set("VALIDATING"))
      BY SetIsOp, StatusNames DEF Set, Owed
    <3> QED
      BY <3>1, OneIsOwed, NothingIsOwed
  <2>4. first \o writes \in Todo /\ IsOwed(granted', p, first \o writes)
    BY <2>2, <2>3, JoinedIsOwed
  <2>5. call' = [call EXCEPT ![j] = [proc |-> p, todo |-> first \o writes]]
    BY <1>1 DEF Validate
  <2>6. CallsAreOwed'
    BY <2>1, <2>4, <2>5, CallsStayOwed
  <2>7. call' \in [Judges -> [proc : Procs \cup {Nobody}, todo : Seq(Ops)]]
    BY <2>4, <2>5, CallIsTyped
  <2>8. TypeOK'
    BY <1>1, <2>1, <2>7 DEF Validate, TypeOK, rows
  <2>9. GrantedIsWhole'
    <3>1. p \in waived => granted' = granted
      BY <1>1 DEF Validate, Verdict
    <3> QED
      BY <2>1, <3>1 DEF GrantedIsWhole, rows
  <2> QED
    BY <1>1, <2>1, <2>6, <2>8, <2>9 DEF Validate, rows, RowsAreProven, ActiveIsGranted
<1>2. ASSUME NEW e \in {"NONE", "INVALID", "REVALIDATED"}, Assess(j, p, e)
      PROVE  EarnedAndTyped'
  <2>1. PICK to \in {"INVALIDATED", "DEGRADED", "ACTIVE"} :
            /\ to \in {"DEGRADED", "ACTIVE"} => status[p] \in {"ACTIVE", "DEGRADED"}
            /\ status[p] # "NONE"
            /\ call' = [call EXCEPT ![j] = [proc |-> p, todo |-> <<Set(to)>>]]
    BY <1>2 DEF Assess
  <2>2. UNCHANGED <<rows, owner, lane, proven, granted>> /\ RowsStay
    BY <1>2 DEF Assess, RowsStay, rows
  <2>3. Set(to) \in Ops /\ Owed(granted, p, Set(to))
    BY <2>1, SetIsOp, StatusNames DEF Set, Owed, ActiveIsGranted
  <2>4. <<Set(to)>> \in Todo /\ IsOwed(granted, p, <<Set(to)>>)
    BY <2>3, OneIsOwed
  <2>5. CallsAreOwed'
    BY <2>1, <2>2, <2>4, CallsStayOwed
  <2>6. call' \in [Judges -> [proc : Procs \cup {Nobody}, todo : Seq(Ops)]]
    BY <2>1, <2>4, CallIsTyped
  <2> QED
    BY <2>2, <2>5, <2>6 DEF TypeOK, rows, RowsAreProven, GrantedIsWhole,
                                                ActiveIsGranted
<1> QED
  BY <1>1, <1>2

LEMMA WritingIsEarned ==
    ASSUME EarnedAndTyped, NEW j \in Judges,
           \/ \E s \in Statuses : CheckStatus(j, s) \/ WriteStatus(j, s) \/ SetIfValidating(j, s)
           \/ NoteGrant(j) \/ Crash(j)
    PROVE  EarnedAndTyped'
<1> USE DEF EarnedAndTyped, Earned
<1> DEFINE p == call[j].proc
<1>1. \A todo \in Todo : Goes(j, todo) =>
          call' \in [Judges -> [proc : Procs \cup {Nobody}, todo : Seq(Ops)]]
  BY GoesIsTyped DEF Calls
<1>2. ASSUME NEW s \in Statuses, CheckStatus(j, s)
      PROVE  EarnedAndTyped'
  <2> DEFINE todo == IF <<status[p], s>> \in Allowed THEN <<<<"WRITE", s>>>> \o Rest(j) ELSE <<>>
  <2>1. /\ Rest(j) \in Todo /\ IsOwed(granted, p, Rest(j))
        /\ Owed(granted, p, <<"CHECK", s>>)
        /\ p \in Procs /\ status[p] # "NONE"
    BY <1>2, DoesIsTyped DEF CheckStatus
  <2>2. <<"WRITE", s>> \in Ops /\ Owed(granted, p, <<"WRITE", s>>)
    BY <2>1, SetIsOp DEF Owed
  <2>3. todo \in Todo /\ IsOwed(granted, p, todo)
    BY <2>1, <2>2, OneIsOwed, JoinedIsOwed, NothingIsOwed
  <2>4. Goes(j, todo) /\ UNCHANGED <<rows, owner, lane, proven, granted>> /\ RowsStay
    BY <1>2 DEF CheckStatus, RowsStay, rows
  <2>5. CallsAreOwed'
    BY <2>1, <2>3, <2>4, GoingStaysOwed
  <2> QED
    BY <1>1, <2>3, <2>4, <2>5 DEF TypeOK, rows, RowsAreProven, GrantedIsWhole,
                                                ActiveIsGranted
<1>3. ASSUME NEW s \in Statuses, WriteStatus(j, s)
      PROVE  EarnedAndTyped'
  <2>1. /\ Rest(j) \in Todo /\ IsOwed(granted, p, Rest(j))
        /\ Owed(granted, p, <<"WRITE", s>>)
        /\ p \in Procs /\ status[p] # "NONE"
    BY <1>3, DoesIsTyped DEF WriteStatus
  <2>2. /\ Goes(j, Rest(j)) /\ status' = [status EXCEPT ![p] = s]
        /\ UNCHANGED <<waived, harmed, noted, owner, lane, proven, granted>>
    BY <1>3 DEF WriteStatus
  <2>3. RowsStay
    BY <2>1, <2>2, StatusNames DEF RowsStay, TypeOK
  <2>4. CallsAreOwed'
    BY <2>1, <2>2, <2>3, GoingStaysOwed
  <2>5. RowsAreProven' /\ GrantedIsWhole' /\ ActiveIsGranted'
    BY <2>1, <2>2, StatusNames DEF RowsAreProven, GrantedIsWhole, ActiveIsGranted, TypeOK, Owed
  <2>6. /\ status' \in [Procs -> Statuses \cup {"NONE"}]
        /\ \A q \in Procs : status'[q] = "NONE" <=> status[q] = "NONE"
    BY <2>1, <2>2, StatusNames DEF TypeOK
  <2>7. \A r, q \in Procs :
          Steps[r] = Steps[q] /\ r # q => "NONE" \in {status'[r], status'[q]}
    BY <2>6 DEF TypeOK
  <2> QED
    BY <1>1, <2>1, <2>2, <2>4, <2>5, <2>6, <2>7 DEF TypeOK
<1>4. ASSUME NEW s \in Statuses, SetIfValidating(j, s)
      PROVE  EarnedAndTyped'
  <2> DEFINE todo == IF status[p] = "VALIDATING" THEN <<Set(s)>> \o Rest(j) ELSE Rest(j)
  <2>1. /\ Rest(j) \in Todo /\ IsOwed(granted, p, Rest(j))
        /\ Owed(granted, p, <<"IF", s>>)
        /\ p \in Procs /\ status[p] # "NONE"
    BY <1>4, DoesIsTyped DEF SetIfValidating
  <2>2. Set(s) \in Ops /\ Owed(granted, p, Set(s))
    BY <2>1, SetIsOp DEF Set, Owed
  <2>3. todo \in Todo /\ IsOwed(granted, p, todo)
    BY <2>1, <2>2, OneIsOwed, JoinedIsOwed
  <2>4. Goes(j, todo) /\ UNCHANGED <<rows, owner, lane, proven, granted>> /\ RowsStay
    BY <1>4 DEF SetIfValidating, RowsStay, rows
  <2>5. CallsAreOwed'
    BY <2>1, <2>3, <2>4, GoingStaysOwed
  <2> QED
    BY <1>1, <2>3, <2>4, <2>5 DEF TypeOK, rows, RowsAreProven, GrantedIsWhole,
                                                ActiveIsGranted
<1>5. CASE NoteGrant(j)
  <2>1. /\ Rest(j) \in Todo /\ IsOwed(granted, p, Rest(j))
        /\ Owed(granted, p, <<"NOTE", "GRANTED">>)
        /\ p \in Procs /\ status[p] # "NONE"
    BY <1>5, DoesIsTyped DEF NoteGrant
  <2>2. /\ Goes(j, Rest(j)) /\ noted' = noted \cup {p} /\ RowsStay
        /\ UNCHANGED <<status, waived, harmed, owner, lane, proven, granted>>
    BY <1>5 DEF NoteGrant, RowsStay
  <2>3. CallsAreOwed'
    BY <2>1, <2>2, GoingStaysOwed
  <2>4. RowsAreProven' /\ GrantedIsWhole' /\ ActiveIsGranted'
    BY <2>1, <2>2 DEF RowsAreProven, GrantedIsWhole, ActiveIsGranted, Owed
  <2> QED
    BY <1>1, <2>1, <2>2, <2>3, <2>4 DEF TypeOK
<1>6. CASE Crash(j)
  <2>1. /\ p \in Procs /\ status[p] # "NONE"
        /\ Goes(j, <<>>) /\ UNCHANGED <<rows, owner, lane, proven, granted>> /\ RowsStay
    BY <1>6 DEF Crash, CallsAreOwed, RowsStay, rows
  <2>2. CallsAreOwed'
    BY <2>1, NothingIsOwed, GoingStaysOwed
  <2> QED
    BY <1>1, <2>1, <2>2, NothingIsOwed DEF TypeOK, rows, RowsAreProven, GrantedIsWhole,
                                                ActiveIsGranted
<1> QED
  BY <1>2, <1>3, <1>4, <1>5, <1>6

LEMMA ExecutingIsEarned ==
    ASSUME EarnedAndTyped, NEW t \in Threads,
           \/ \E k \in Kinds : Ask(t, k)
           \/ Refuse(t) \/ Break(t) \/ Step(t) \/ Check(t) \/ Plan(t)
    PROVE  EarnedAndTyped'
<1>1. TypeOK'
  BY ExecutionIsTyped DEF EarnedAndTyped
<1>2. UNCHANGED <<rows, owner, call, proven, granted>>
  BY DEF Ask, Refuse, Break, Step, Check, Plan, Serves, Matches
<1>3. RowsStay
  BY <1>2 DEF RowsStay, rows
<1>4. CallsAreOwed'
  BY <1>2, <1>3, OthersStayOwed DEF EarnedAndTyped, Earned
<1> QED
  BY <1>1, <1>2, <1>4 DEF EarnedAndTyped, Earned, RowsAreProven, GrantedIsWhole, ActiveIsGranted, rows

LEMMA EarnedInductive == EarnedAndTyped /\ [Next]_vars => EarnedAndTyped'
<1> SUFFICES ASSUME EarnedAndTyped, [Next]_vars
             PROVE  EarnedAndTyped'
  OBVIOUS
<1>1. CASE Restart
  <2>1. RowsStay /\ UNCHANGED <<rows, call, proven, granted>>
    BY <1>1 DEF Restart, RowsStay, rows
  <2>2. CallsAreOwed'
    BY <2>1, OthersStayOwed DEF EarnedAndTyped, Earned
  <2>3. TypeOK'
    BY <1>1 DEF Restart, EarnedAndTyped, TypeOK, rows, Free
  <2> QED
    BY <2>1, <2>2, <2>3 DEF EarnedAndTyped, Earned, RowsAreProven, GrantedIsWhole, ActiveIsGranted, rows
<1>2. ASSUME NEW p \in Procs, Records(p)
      PROVE  EarnedAndTyped'
  <2>1. RowsStay /\ UNCHANGED <<status, waived, noted, owner, call, lane, proven, granted>>
    BY <1>2 DEF Records, RowsStay
  <2>2. CallsAreOwed'
    BY <2>1, OthersStayOwed DEF EarnedAndTyped, Earned
  <2>3. TypeOK'
    BY <1>2 DEF Records, EarnedAndTyped, TypeOK
  <2> QED
    BY <2>1, <2>2, <2>3 DEF EarnedAndTyped, Earned, RowsAreProven, GrantedIsWhole, ActiveIsGranted
<1>3. CASE UNCHANGED vars
  <2>1. RowsStay
    BY <1>3 DEF RowsStay, vars, rows
  <2>2. CallsAreOwed'
    BY <1>3, <2>1, OthersStayOwed DEF EarnedAndTyped, Earned, vars
  <2> QED
    BY <1>3, <2>2 DEF EarnedAndTyped, Earned, TypeOK, RowsAreProven, GrantedIsWhole, ActiveIsGranted, vars, rows
<1> QED
  BY <1>1, <1>2, <1>3, LearningIsEarned, JudgingIsEarned, WritingIsEarned,
     ExecutingIsEarned DEF Next

LEMMA EarnedInit == Init => EarnedAndTyped
<1> SUFFICES ASSUME Init
             PROVE  EarnedAndTyped
  OBVIOUS
<1>1. TypeOK
  BY NothingIsOwed DEF Init, TypeOK, Free, Todo
<1>2. CallsAreOwed
  BY NothingIsOwed DEF Init, CallsAreOwed
<1> QED
  BY <1>1, <1>2, StatusNames DEF Init, EarnedAndTyped, Earned, RowsAreProven, GrantedIsWhole, ActiveIsGranted

\* The types of the store, of the calls on it and of the requests, together
\* with what every row and every call under way rests on.
THEOREM Soundness == Spec => []EarnedAndTyped
  BY EarnedInit, EarnedInductive, PTL DEF Spec

\* What may be executed was learned from a verified workflow and passed a
\* validation of its own, whatever calls raced for the row.
THEOREM Earning == Spec => []ActiveIsEarned
<1>1. EarnedAndTyped => ActiveIsEarned
  BY StatusNames DEF EarnedAndTyped, Earned, TypeOK, RowsAreProven, GrantedIsWhole, ActiveIsGranted, ActiveIsEarned
<1> QED
  BY <1>1, Soundness, PTL

-----------------------------------------------------------------------------
(* SetupProject: the registered tasks about a project folder.              *)

CONSTANTS Packages, MaxRequests, MaxActions, MaxRepairs

VARIABLES listed, desk, result, used, hindered

Setup == INSTANCE SetupProject

Disk == [project : {"absent", "dir", "file"}, tests : {"absent", "dir"},
         test : Setup!Content, requirements : Setup!Content, venv : Setup!Venv]

\* All that a project set up for the request consists of.
Complete ==
    /\ disk.project = "dir" /\ disk.tests = "dir"
    /\ \A f \in Setup!Wanted : disk[f] \in {"cut", "whole", "theirs"}
    /\ disk.venv \in {"bare", "whole"}
    /\ req.packages \subseteq installed

SuccessIsWhole == pc = "ENDED" /\ final = "PASS" /\ req.kind = "setup" => Complete

\* Between its look and its write, a tool that was not asked to overwrite is
\* about a file that is not theirs, or has become theirs only now.
Looked ==
    pc = "PUTTING" =>
        /\ req.kind = "setup" /\ tool.kind \in Setup!Putting
        /\ tool.over \/ tool.on \in late \/ disk[tool.on] # "theirs"

Setting == disk \in Disk /\ tool \in Setup!Tool /\ SuccessIsWhole /\ Looked

TheirsStay == \A f \in Setup!Files : disk[f] = "theirs" => disk'[f] = "theirs"

\* What TheirFilesSurvive says of a step.
TheirsSurvive ==
    \A f \in Setup!Files :
        Setup!Loses(f) => req.kind = "setup" /\ (Setup!Overwrites(f) \/ f \in late)

LEMMA StayingIsSurviving == TheirsStay => TheirsSurvive
  BY DEF TheirsStay, TheirsSurvive, Setup!Loses

\* Making the folders a place is in touches no file.
LEMMA FoldersAreFolders ==
    ASSUME NEW d \in Disk, NEW place
    PROVE  LET made == Setup!WithFolders(d, place) IN
           /\ made \in Disk
           /\ made.test = d.test /\ made.requirements = d.requirements /\ made.venv = d.venv
  BY DEF Disk, Setup!WithFolders

\* A file that is put touches no other.
LEMMA PutIsOfOne ==
    ASSUME NEW d \in Disk, NEW f \in Setup!Files, NEW c \in Setup!Content,
           disk' = [d EXCEPT ![f] = c]
    PROVE  /\ disk' \in Disk /\ disk'[f] = c
           /\ \A g \in Setup!Files \ {f} : disk'[g] = d[g]
           /\ disk'.venv = d.venv
           /\ disk'.project = d.project /\ disk'.tests = d.tests
<1>1. CASE f = "test"
  <2>1. disk' = [d EXCEPT !.test = c]
    BY <1>1
  <2> QED
    BY <1>1, <2>1 DEF Disk, Setup!Files
<1>2. CASE f = "requirements"
  <2>1. disk' = [d EXCEPT !.requirements = c]
    BY <1>2
  <2> QED
    BY <1>2, <2>1 DEF Disk, Setup!Files
<1> QED
  BY <1>1, <1>2 DEF Setup!Files

\* The look of a write or a fetch: the files are as they were.
LEMMA LookingLeavesTheirs ==
    ASSUME disk \in Disk, tool \in Setup!Tool, tool.kind \in Setup!Putting,
           Setup!WriteFile(tool.on) \/ Setup!FetchFile(tool.on)
    PROVE  /\ disk' \in Disk /\ TheirsStay /\ pc' # "ENDED"
           /\ pc' = "PUTTING" => tool.over \/ disk'[tool.on] # "theirs"
<1>1. tool.on \in Setup!Files
  BY DEF Setup!Tool, Setup!Putting
<1>2. disk' \in Disk /\ disk'.test = disk.test /\ disk'.requirements = disk.requirements
  <2>1. disk' = disk \/ disk' = Setup!WithFolders(disk, tool.on)
    BY DEF Setup!WriteFile, Setup!FetchFile, Setup!world
  <2> QED
    BY <2>1, FoldersAreFolders
<1>3. disk'[tool.on] = disk[tool.on] /\ TheirsStay
  BY <1>1, <1>2 DEF TheirsStay, Setup!Files
<1>4. /\ pc' \in {"CHECKING", "PUTTING"}
      /\ pc' = "PUTTING" => tool.over \/ disk[tool.on] = "absent"
  BY DEF Setup!WriteFile, Setup!FetchFile, Setup!Finds
<1> QED
  BY <1>2, <1>3, <1>4

\* The write itself: only its own file is another afterwards.
LEMMA PuttingIsOfOne ==
    ASSUME disk \in Disk, NEW f \in Setup!Files, Setup!WriteBytes(f) \/ Setup!Download(f)
    PROVE  disk' \in Disk /\ \A g \in Setup!Files \ {f} : disk'[g] = disk[g]
<1>1. CASE disk' = disk
  BY <1>1
<1>2. ASSUME NEW d \in Disk, NEW c \in Setup!Content,
             d.test = disk.test, d.requirements = disk.requirements,
             disk' = [d EXCEPT ![f] = c]
      PROVE  disk' \in Disk /\ \A g \in Setup!Files \ {f} : disk'[g] = disk[g]
  <2>1. disk' \in Disk /\ \A g \in Setup!Files \ {f} : disk'[g] = d[g]
    BY <1>2, PutIsOfOne
  <2>2. \A g \in Setup!Files : d[g] = disk[g]
    BY <1>2 DEF Setup!Files
  <2> QED
    BY <2>1, <2>2
<1>3. \/ disk' = disk
      \/ \E c \in Setup!Content :
            \/ disk' = [disk EXCEPT ![f] = c]
            \/ disk' = [Setup!WithFolders(disk, f) EXCEPT ![f] = c]
  BY DEF Setup!WriteBytes, Setup!Download, Setup!Put, Setup!Content
<1> QED
  BY <1>1, <1>2, <1>3, FoldersAreFolders

LEMMA MakingLeavesTheirs ==
    ASSUME disk \in Disk, NEW place, Setup!CreateDir(place) \/ Setup!CreateVenv
    PROVE  disk' \in Disk /\ TheirsStay
<1>1. CASE Setup!CreateDir(place)
  BY <1>1, FoldersAreFolders DEF Setup!CreateDir, TheirsStay, Setup!Files
<1>2. CASE Setup!CreateVenv
  <2>1. disk' = disk \/ \E left \in Setup!Venv :
                          disk' = [Setup!WithFolders(disk, "venv") EXCEPT !.venv = left]
    BY <1>2 DEF Setup!CreateVenv, Setup!Venv
  <2>2. PICK made \in Disk : /\ made.test = disk.test /\ made.requirements = disk.requirements
                             /\ made = Setup!WithFolders(disk, "venv")
    BY FoldersAreFolders
  <2> QED
    BY <2>1, <2>2 DEF Disk, TheirsStay, Setup!Files
<1> QED
  BY <1>1, <1>2

\* Only a run that was asked for a project writes, and it looks first.
LEMMA ExecutingLeavesTheirs ==
    ASSUME disk \in Disk, tool \in Setup!Tool, Setup!Execute
    PROVE  disk' \in Disk /\ TheirsStay /\ pc' # "ENDED" /\ Looked'
<1>1. tool' = tool /\ req' = req /\ pc = "ACTING" /\ ~ Setup!Denied(tool)
  BY DEF Setup!Execute
<1>2. CASE tool.kind \in Setup!Putting
  <2>1. Setup!WriteFile(tool.on) \/ Setup!FetchFile(tool.on)
    BY <1>2 DEF Setup!Execute, Setup!Putting
  <2>2. req.kind = "setup"
    BY <1>1, <1>2 DEF Setup!Denied, Setup!Writable, Setup!Writes, Setup!Granted, Setup!Putting
  <2> QED
    BY <1>1, <1>2, <2>1, <2>2, LookingLeavesTheirs DEF Looked
<1>3. CASE tool.kind \notin Setup!Putting
  <2>1. pc' = "CHECKING"
    BY <1>3 DEF Setup!Execute, Setup!Putting
  <2>2. Setup!CreateDir(tool.on) \/ Setup!CreateVenv \/ disk' = disk
    BY <1>3 DEF Setup!Execute, Setup!Putting, Setup!InstallRequirements, Setup!LaunchApp,
                Setup!OpenFile, Setup!NotInstalled, Setup!ReadTextFile, Setup!SearchFiles,
                Setup!ListDirectory, Setup!world
  <2>3. CASE disk' = disk
    BY <2>1, <2>3 DEF TheirsStay, Looked
  <2> QED
    BY <2>1, <2>2, <2>3, MakingLeavesTheirs DEF Looked
<1> QED
  BY <1>2, <1>3

\* What a person puts in takes nothing away, completes what is complete, and
\* is late for a tool that has looked.
LEMMA PersonAddsOnly ==
    ASSUME disk \in Disk, Setup!MakesProject \/ Setup!AddsFile \/ Setup!UsesEditor
    PROVE  /\ disk' \in Disk /\ TheirsStay
           /\ Complete => Complete'
           /\ late \subseteq late'
           /\ \A g \in Setup!Files : pc = "PUTTING" => disk'[g] = disk[g] \/ g \in late'
<1>1. installed' = installed /\ req' = req
  BY DEF Setup!MakesProject, Setup!AddsFile, Setup!UsesEditor, Setup!Meddles
<1>2. CASE disk' = disk /\ late' = late
  BY <1>1, <1>2 DEF TheirsStay, Complete, Setup!Wanted
<1>3. CASE Setup!MakesProject
  BY <1>3 DEF Setup!MakesProject, Disk, TheirsStay, Complete, Setup!Files
<1>4. CASE Setup!AddsFile
  <2>1. PICK f \in Setup!Files :
            /\ disk[f] = "absent" /\ disk.project = "dir"
            /\ disk' = [Setup!WithFolders(disk, f) EXCEPT ![f] = "theirs"]
            /\ late' = IF pc = "PUTTING" THEN late \cup {f} ELSE late
    BY <1>4 DEF Setup!AddsFile
  <2>2. PICK made \in Disk :
            /\ made = Setup!WithFolders(disk, f)
            /\ made.test = disk.test /\ made.requirements = disk.requirements
            /\ made.venv = disk.venv
    BY FoldersAreFolders
  <2>3. made.project = "dir" /\ (disk.tests = "dir" => made.tests = "dir")
    BY <2>1, <2>2 DEF Setup!WithFolders, Disk
  <2>4. /\ disk' \in Disk /\ disk'[f] = "theirs"
        /\ \A g \in Setup!Files \ {f} : disk'[g] = made[g]
        /\ disk'.venv = disk.venv /\ disk'.project = made.project /\ disk'.tests = made.tests
    BY <2>1, <2>2, PutIsOfOne DEF Setup!Content
  <2>5. \A g \in Setup!Files \ {f} : disk'[g] = disk[g]
    BY <2>2, <2>4 DEF Setup!Files
  <2>6. TheirsStay
    BY <2>1, <2>5 DEF TheirsStay
  <2>7. Complete => Complete'
    BY <1>1, <2>3, <2>4, <2>5 DEF Complete, Setup!Wanted
  <2> QED
    BY <2>1, <2>4, <2>5, <2>6, <2>7
<1> QED
  BY <1>2, <1>3, <1>4 DEF Setup!UsesEditor

\* A verification passes when every reading of it may.
LEMMA PassIsOfAll ==
    ASSUME NEW readings, "PASS" \in Setup!Verdicts(readings)
    PROVE  \A r \in readings : "PASS" \in r
  BY DEF Setup!Verdicts

\* The final verification of a setup reads all that it consists of.
LEMMA PassedIsComplete ==
    ASSUME disk \in Disk, req.kind = "setup", "PASS" \in Setup!Final
    PROVE  Complete
<1>1. \A r \in Setup!SetupFinal : "PASS" \in r
  BY PassIsOfAll DEF Setup!Final
<1>2. disk.project = "dir" /\ disk.tests = "dir"
  BY <1>1 DEF Setup!SetupFinal, Setup!ReadDir, Setup!DirState, Setup!Holds
<1>3. ASSUME NEW f \in Setup!Wanted
      PROVE  disk[f] \in {"cut", "whole", "theirs"}
  <2>1. "PASS" \in Setup!ReadFile(f)
    BY <1>1 DEF Setup!SetupFinal
  <2>2. disk[f] \notin {"absent", "empty"}
    BY <2>1 DEF Setup!ReadFile, Setup!FileState, Setup!Holds
  <2>3. f \in {"test", "requirements"}
    BY DEF Setup!Wanted, Setup!Files
  <2> QED
    BY <2>2, <2>3 DEF Disk, Setup!Content
<1>4. \A r \in Setup!ReadEnvironment(req.packages) : "PASS" \in r
  BY <1>1 DEF Setup!SetupFinal
<1>5. disk.venv \in {"bare", "whole"}
  BY <1>4 DEF Setup!ReadEnvironment, Setup!Holds, Setup!HasInterpreter
<1>6. req.packages \subseteq installed
  <2> SUFFICES ASSUME NEW p \in req.packages
               PROVE  p \in installed
    OBVIOUS
  <2>1. "PASS" \in Setup!ReadPackage(p)
    BY <1>4 DEF Setup!ReadEnvironment
  <2> QED
    BY <2>1 DEF Setup!ReadPackage, Setup!Importable
<1> QED
  BY <1>2, <1>3, <1>5, <1>6 DEF Complete

LEMMA SettingInit == Setup!Init => Setting
  BY DEF Setup!Init, Setting, Disk, Setup!Content, Setup!Venv, SuccessIsWhole, Looked,
         Setup!NoTool, Setup!Tool

LEMMA SettingStep ==
    ASSUME Setting, [Setup!Next]_(Setup!vars)
    PROVE  Setting' /\ TheirsSurvive
<1>1. CASE Setup!MakesProject \/ Setup!AddsFile \/ Setup!UsesEditor
  <2>1. UNCHANGED <<tool, pc, final, req>>
    BY <1>1 DEF Setup!MakesProject, Setup!AddsFile, Setup!UsesEditor, Setup!Meddles
  <2>2. pc = "PUTTING" => tool.on \in Setup!Files
    BY DEF Setting, Looked, Setup!Tool, Setup!Putting
  <2>3. Looked'
    BY <1>1, <2>1, <2>2, PersonAddsOnly DEF Setting, Looked
  <2> QED
    BY <1>1, <2>1, <2>3, PersonAddsOnly, StayingIsSurviving DEF Setting, SuccessIsWhole
<1>2. CASE Setup!Execute
  <2>1. tool' = tool
    BY <1>2 DEF Setup!Execute
  <2> QED
    BY <1>2, <2>1, ExecutingLeavesTheirs, StayingIsSurviving DEF Setting, SuccessIsWhole
<1>3. CASE Setup!PutFile
  <2>1. /\ pc = "PUTTING" /\ pc' = "CHECKING" /\ tool' = tool
        /\ Setup!WriteBytes(tool.on) \/ Setup!Download(tool.on)
    BY <1>3 DEF Setup!PutFile
  <2>2. tool.on \in Setup!Files /\ tool.kind \in Setup!Putting /\ req.kind = "setup"
    BY <2>1 DEF Setting, Looked, Setup!Tool, Setup!Putting
  <2>3. disk' \in Disk /\ \A g \in Setup!Files \ {tool.on} : disk'[g] = disk[g]
    BY <2>1, <2>2, PuttingIsOfOne DEF Setting
  <2>4. TheirsSurvive
    BY <2>1, <2>2, <2>3 DEF Setting, Looked, TheirsSurvive, Setup!Loses, Setup!Overwrites
  <2> QED
    BY <2>1, <2>3, <2>4 DEF Setting, SuccessIsWhole, Looked
<1>4. CASE Setup!Ask \/ Setup!Propose \/ Setup!Stop \/ Setup!Refuse \/ Setup!Check
           \/ Setup!Kill
  <2>1. disk' = disk /\ pc' \notin {"ENDED", "PUTTING"}
    BY <1>4 DEF Setup!Ask, Setup!Propose, Setup!Stop, Setup!Refuse, Setup!Check,
                Setup!Recover, Setup!Kill, Setup!world
  <2>2. tool' = tool \/ tool' \in Setup!Tool
    <3>1. Setup!NoTool \in Setup!Tool
      BY DEF Setup!NoTool, Setup!Tool
    <3> QED
      BY <1>4, <3>1 DEF Setup!Ask, Setup!Propose, Setup!Stop, Setup!Refuse, Setup!Check,
                        Setup!Kill
  <2> QED
    BY <2>1, <2>2 DEF Setting, SuccessIsWhole, Looked, TheirsSurvive, Setup!Loses
<1>5. CASE Setup!VerifyFinal
  <2>1. UNCHANGED <<disk, tool, req, installed>> /\ final' \in Setup!Final /\ pc' = "ENDED"
    BY <1>5 DEF Setup!VerifyFinal, Setup!world
  <2>2. Complete' <=> Complete
    BY <2>1 DEF Complete, Setup!Wanted
  <2>3. SuccessIsWhole'
    BY <2>1, <2>2, PassedIsComplete DEF Setting, SuccessIsWhole
  <2> QED
    BY <2>1, <2>3 DEF Setting, Looked, TheirsSurvive, Setup!Loses
<1>6. CASE UNCHANGED Setup!vars
  BY <1>6 DEF Setup!vars, Setup!world, Setup!run, Setting, SuccessIsWhole, Looked, Complete,
              Setup!Wanted, TheirsSurvive, Setup!Loses
<1> QED
  BY <1>1, <1>2, <1>3, <1>4, <1>5, <1>6 DEF Setup!Next

\* For every set of packages and every budget: a project that is reported as
\* set up is all there (setup_project.py, verify_final).
THEOREM SetupIsComplete == Setup!Spec => []SuccessIsComplete
<1>1. Setting => SuccessIsComplete
  BY DEF Setting, SuccessIsWhole, Complete, Setup!Wanted, Setup!Files, SuccessIsComplete,
         Status, Wanted, Files
<1> QED
  BY <1>1, SettingInit, SettingStep, PTL DEF Setup!Spec

\* For every set of packages and every budget: what a person has put into the
\* folder is replaced only by a tool that was asked to overwrite it, or that
\* looked before it was there (os_tools.py, write_file and fetch_file).
THEOREM TheirsAreLeft == Setup!Spec => TheirFilesSurvive
<1>1. Setting /\ [Setup!Next]_(Setup!vars) =>
        [\A f \in Files : Loses(f) => req.kind = "setup" /\ (Overwrites(f) \/ f \in late)]_disk
  BY SettingStep DEF TheirsSurvive, Setup!Files, Setup!Loses, Setup!Overwrites, Setup!Putting,
                     Files, Loses, Overwrites, Putting
<1> QED
  BY <1>1, SettingInit, SettingStep, PTL DEF Setup!Spec, TheirFilesSurvive

=============================================================================
