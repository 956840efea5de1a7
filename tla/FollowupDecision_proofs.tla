----------------------- MODULE FollowupDecision_proofs -----------------------
(***************************************************************************)
(* Proofs about FollowupDecision for lines of any length and any set of    *)
(* calls: its four safety invariants, and that the ledger implements       *)
(* ApprovalRequest.  What a call judged while it holds the row locks is    *)
(* still true when it commits (LocksHold); that turns every commit into    *)
(* one step of the abstract request.                                       *)
(***************************************************************************)
EXTENDS FollowupDecision, SequenceTheorems, FiniteSetTheorems, TLAPS

\* The steps of the line: those submitted, and those of the connected line.
Length == IF selection = None THEN First
          ELSE First + Len(LineSteps[reviewed.line][reviewed.rev])

\* The ledger holds the line's steps and no others, and a connected line is the
\* edit that was reviewed, approver by approver.
LineIsWhole ==
  /\ Present(steps) = 1..Length
  /\ selection # None =>
       LET previewed == LineSteps[reviewed.line][reviewed.rev]
       IN  /\ selection = reviewed.line
           /\ previewed # <<>>
           /\ \A i \in DOMAIN previewed : who[First + i] = previewed[i]

\* Who is in turn, and what a closed request rests on.
Turns ==
  /\ status = "pending" =>
       \A k \in 1..Length :
         steps[k] = IF k < current THEN "approved"
                    ELSE IF k = current THEN "pending" ELSE "waiting"
  /\ status = "pending" => current <= Length
  /\ status # "pending" => \A k \in 1..Length : steps[k] \notin {"waiting", "pending"}
  /\ status = "approved" => \A k \in 1..Length : steps[k] = "approved"
  /\ status = "rejected" => \E k \in 1..Length : steps[k] = "rejected"

\* Between its locks and its commit a call acts on what is still true: nobody
\* else writes the request's rows, nor the line it is about to connect.
LockHolds(c) ==
  /\ call[c].pc \in {"judge", "connect", "commit", "close"} => lock = c
  /\ call[c].pc \in {"lock", "judge", "connect", "commit"} => call[c].action \in Decisions
  /\ call[c].pc \in {"connect", "commit"} => Acceptable(c)
  /\ call[c].pc = "connect" => call[c].choice \in Lines
  /\ call[c].pc = "commit" /\ call[c].choice \in Lines =>
       /\ configLock = c
       /\ version[call[c].choice] = call[c].rev
       /\ LineSteps[call[c].choice][call[c].rev] # <<>>
LocksHold == \A c \in Calls : LockHolds(c)

\* What was handed over or told is the end that came, and whatever has not been
\* told yet is what a call in progress is about to tell.
Reports ==
  /\ handed # {} => handed = {status} /\ status \in Terminal
  /\ settledTold # 0 => status \in Decisions
  /\ \A c \in Calls : call[c].pc = "told" => status = "canceled"
  /\ ~died /\ status = "canceled" /\ handed = {} => \E c \in Calls : call[c].pc = "told"
  /\ ~died /\ status \in Decisions /\ (handed = {} \/ settledTold = 0) =>
       \E c \in Calls : call[c].pc = "report"
  /\ ~died => \A k \in Orders : steps[k] = "pending" /\ turnTold[k] = 0 =>
       \E c \in Calls : call[c].pc = "report"

IInv ==
  /\ TypeOK
  /\ LineIsWhole
  /\ Turns
  /\ LocksHold
  /\ Reports
  /\ RequiredFollowupIsMade
  /\ ClickDecidesItsStep

-----------------------------------------------------------------------------
(* Lemmas about the constants and the engine's operators.                  *)

\* A line has at least one turn and no more than the ledger has orders for.
LEMMA LineConstants ==
  /\ First \in Nat /\ First >= 1 /\ LongestLine \in Nat
  /\ Orders = 1..(First + LongestLine) /\ 1 \in Orders
  /\ 1 \in Versions /\ Versions \subseteq Nat
  /\ None \notin Approvers /\ None \notin Lines /\ None \notin Calls
  BY FollowupAssumption DEF First, Orders, Versions

\* What an edit of a follow-up line may be.
LEMMA EditedLine ==
  ASSUME NEW l \in Lines, NEW v \in Versions
  PROVE  /\ LineSteps[l][v] \in Seq(Approvers)
         /\ Len(LineSteps[l][v]) \in 0..LongestLine
         /\ DOMAIN LineSteps[l][v] = 1..Len(LineSteps[l][v])
         /\ LineSteps[l][v] # <<>> => Len(LineSteps[l][v]) >= 1
  <1>1. LineSteps[l][v] \in Seq(Approvers) /\ Len(LineSteps[l][v]) <= LongestLine
    BY FollowupAssumption DEF Versions
  <1>2. Len(LineSteps[l][v]) \in Nat /\ (LineSteps[l][v] # <<>> => Len(LineSteps[l][v]) # 0)
    BY <1>1, EmptySeq
  <1>3. QED
    BY <1>1, <1>2, LineConstants

\* Least of a set of orders is its smallest member (the "later[0]" of engine.py).
LEMMA LeastIsLeast ==
  ASSUME NEW S \in SUBSET Int, NEW k \in S, \A j \in S : k <= j
  PROVE  Least(S) = k
  <1>1. \E m \in S : \A j \in S : m <= j
    OBVIOUS
  <1>2. Least(S) \in S /\ \A j \in S : Least(S) <= j
    BY <1>1, Zenon DEF Least
  <1>3. \A m \in S : (\A j \in S : m <= j) => m = k
    OBVIOUS
  <1>4. QED
    BY <1>2, <1>3

\* What engine.decide makes of a line whose first m orders have a step.
LEMMA DecidedConcludes ==
  ASSUME NEW s \in [Orders -> StepStatus], NEW m \in Orders, Present(s) = 1..m,
         NEW cur \in 1..m, NEW action \in Decisions
  PROVE  LET next == Decided(cur, s, cur, action)
         IN  /\ next.status = IF action = "rejected" THEN "rejected"
                              ELSE IF cur = m THEN "approved" ELSE "pending"
             /\ next.current = IF action = "approved" /\ cur < m THEN cur + 1 ELSE cur
             /\ next.steps \in [Orders -> StepStatus]
             /\ \A k \in Orders :
                  next.steps[k] =
                    IF k = cur THEN action
                    ELSE IF action = "rejected"
                         THEN IF s[k] \in {"waiting", "pending"} THEN "skipped" ELSE s[k]
                    ELSE IF k = cur + 1 /\ k <= m THEN "pending" ELSE s[k]
  <1> DEFINE marked == [s EXCEPT ![cur] = action]
             later  == Later(marked, cur)
  <1>1. m \in Nat /\ cur \in Orders /\ action \in {"approved", "rejected"}
    BY LineConstants DEF Decisions
  <1>2. /\ marked \in [Orders -> StepStatus] /\ DOMAIN marked = Orders /\ DOMAIN s = Orders
        /\ \A k \in Orders : marked[k] = IF k = cur THEN action ELSE s[k]
    BY <1>1 DEF StepStatus
  <1>3. \A k \in Orders : s[k] # "absent" <=> k <= m
    BY <1>1, <1>2, LineConstants DEF Present
  <1>4. later = (cur + 1)..m
    BY <1>1, <1>2, <1>3, LineConstants DEF Later, Present
  <1> HIDE DEF later, marked
  <1>5. CASE action = "rejected"
    <2>1. /\ SkipRest(marked) \in [Orders -> StepStatus]
          /\ \A k \in Orders : SkipRest(marked)[k] =
                                IF k = cur THEN "rejected"
                                ELSE IF s[k] \in {"waiting", "pending"} THEN "skipped" ELSE s[k]
      BY <1>1, <1>2, <1>5 DEF SkipRest, StepStatus
    <2>2. Decided(cur, s, cur, action) =
            [status |-> "rejected", current |-> cur, steps |-> SkipRest(marked)]
      BY <1>5 DEF Decided, marked
    <2>3. QED
      BY <1>5, <2>1, <2>2
  <1>6. CASE action = "approved" /\ cur = m
    <2>1. later = {}
      BY <1>1, <1>4, <1>6
    <2>2. Decided(cur, s, cur, action) =
            [status |-> "approved", current |-> cur, steps |-> marked]
      BY <1>6, <2>1 DEF Decided, later, marked
    <2>3. \A k \in Orders : ~(k = cur + 1 /\ k <= m)
      BY <1>1, <1>6, LineConstants
    <2>4. QED
      BY <1>2, <1>6, <2>2, <2>3
  <1>7. CASE action = "approved" /\ cur < m
    <2>1. later # {} /\ Least(later) = cur + 1 /\ cur + 1 \in Orders
      <3>1. cur + 1 \in later /\ later \in SUBSET Int /\ \A j \in later : cur + 1 <= j
        BY <1>1, <1>4, <1>7
      <3>2. cur + 1 \in Orders
        BY <1>1, <1>7, LineConstants
      <3>3. QED
        BY <3>1, <3>2, LeastIsLeast
    <2>2. Decided(cur, s, cur, action) =
            [status |-> "pending", current |-> cur + 1,
             steps |-> [marked EXCEPT ![cur + 1] = "pending"]]
      BY <1>7, <2>1 DEF Decided, later, marked
    <2> DEFINE passed == [marked EXCEPT ![cur + 1] = "pending"]
    <2>3. /\ passed \in [Orders -> StepStatus]
          /\ \A k \in Orders : passed[k] = IF k = cur + 1 THEN "pending" ELSE marked[k]
      BY <1>2, <2>1 DEF StepStatus
    <2>4. \A k \in Orders : passed[k] = IF k = cur THEN "approved"
                                        ELSE IF k = cur + 1 /\ k <= m THEN "pending" ELSE s[k]
      <3>1. cur + 1 # cur /\ cur + 1 <= m
        BY <1>1, <1>7
      <3>2. QED
        BY <1>2, <1>7, <2>3, <3>1
    <2> HIDE DEF passed
    <2>5. QED
      BY <1>1, <1>7, <2>2, <2>3, <2>4 DEF passed
  <1>8. QED
    BY <1>1, <1>5, <1>6, <1>7

\* The line fits the ledger.
LEMMA LengthIsAnOrder ==
  ASSUME TypeOK, LineIsWhole
  PROVE  /\ Length \in First..(First + LongestLine) /\ Length \in Orders /\ Length \in Nat
         /\ selection = None => Length = First
  <1>1. CASE selection = None
    BY <1>1, LineConstants DEF Length
  <1>2. CASE selection # None
    <2>1. reviewed.line \in Lines /\ reviewed.rev \in Versions
      BY <1>2 DEF TypeOK, LineIsWhole
    <2>2. Len(LineSteps[reviewed.line][reviewed.rev]) \in 0..LongestLine
      BY <2>1, EditedLine
    <2>3. QED
      BY <1>2, <2>2, LineConstants DEF Length
  <1>3. QED
    BY <1>1, <1>2

-----------------------------------------------------------------------------
(* What a step does to the calls and the locks.                            *)

\* What a call still remembers when it goes on.
Remembers(c) ==
  /\ call'[c].actor = call[c].actor
  /\ call'[c].action = call[c].action
  /\ call'[c].choice = call[c].choice
  /\ call'[c].expected = call[c].expected
  /\ call'[c].rev = call[c].rev

Others(c) == \A d \in Calls \ {c} : call'[d] = call[d]

\* Going on changes where a call is and nothing it remembers.
LEMMA GotoEffect ==
  ASSUME call \in [Calls -> CallState], NEW c \in Calls, NEW label \in PC, Goto(c, label)
  PROVE  /\ call' \in [Calls -> CallState]
         /\ call'[c].pc = label /\ Remembers(c) /\ Others(c)
  BY DEF CallState, Goto, Remembers, Others

\* A call that returns forgets everything.
LEMMA ReturnEffect ==
  ASSUME call \in [Calls -> CallState], NEW c \in Calls, Return(c)
  PROVE  /\ call' \in [Calls -> CallState]
         /\ call'[c].pc = "idle" /\ Others(c)
  <1>1. Idle \in CallState /\ Idle.pc = "idle"
    BY LineConstants DEF Idle, CallState, PC, Choices, Decisions
  <1>2. QED
    BY <1>1 DEF Return, Others

\* A returning call takes nothing from anyone else.
LEMMA ReleaseEffect ==
  ASSUME TypeOK, NEW c \in Calls, Release(c)
  PROVE  /\ lock' \in Calls \cup {None} /\ configLock' \in Calls \cup {None}
         /\ \A d \in Calls \ {c} : /\ lock = d => lock' = d
                                   /\ configLock = d => configLock' = d
  BY DEF Release, TypeOK

\* A click remembers what was on the screen.
LEMMA ClickEffect ==
  ASSUME TypeOK, NEW c \in Calls, NEW a \in Approvers, NEW action \in Decisions,
         NEW choice \in Choices, Click(c, a, action, choice)
  PROVE  /\ call' \in [Calls -> CallState]
         /\ call'[c].pc = "lock" /\ call'[c].action = action /\ Others(c)
  <1> DEFINE new == [pc |-> "lock", actor |-> a, action |-> action, choice |-> choice,
                     expected |-> current,
                     rev |-> IF choice \in Lines THEN version[choice] ELSE 1]
  <1>1. (IF choice \in Lines THEN version[choice] ELSE 1) \in Versions
    BY LineConstants DEF TypeOK
  <1>2. new \in CallState /\ new.pc = "lock" /\ new.action = action
    BY <1>1 DEF TypeOK, CallState, PC
  <1>3. call' = [call EXCEPT ![c] = new]
    BY DEF Click
  <1> HIDE DEF new
  <1>4. QED
    BY <1>2, <1>3 DEF TypeOK, Others

\* A withdrawal remembers who withdraws.
LEMMA CancelClickEffect ==
  ASSUME TypeOK, NEW c \in Calls, NEW by \in {"requester", "system"}, CancelClick(c, by)
  PROVE  /\ call' \in [Calls -> CallState]
         /\ call'[c].pc = "clock" /\ Others(c)
  <1> DEFINE new == [Idle EXCEPT !.pc = "clock", !.action = by]
  <1>1. new \in CallState /\ new.pc = "clock"
    BY LineConstants DEF Idle, CallState, PC, Choices, Decisions
  <1>2. call' = [call EXCEPT ![c] = new]
    BY DEF CancelClick
  <1> HIDE DEF new
  <1>3. QED
    BY <1>1, <1>2 DEF TypeOK, Others

-----------------------------------------------------------------------------
(* What a commit does to the ledger.                                       *)

\* A decision whose call still holds what it judged: the decided step is the one
\* in turn, and a line is connected at the last turn of the first line only.
LEMMA JudgedIsTrue ==
  ASSUME TypeOK, LineIsWhole, Turns, LocksHold,
         NEW c \in Calls, call[c].pc = "commit"
  PROVE  LET chosen == call[c].choice
         IN  /\ status = "pending" /\ current \in 1..Length /\ call[c].action \in Decisions
             /\ StepOf(steps, who, call[c].actor) = current /\ call[c].expected = current
             /\ chosen \in Lines =>
                  /\ call[c].action = "approved" /\ selection = None
                  /\ current = First /\ Length = First
                  /\ version[chosen] = call[c].rev /\ LineSteps[chosen][call[c].rev] # <<>>
             /\ chosen = "finalize" => ~required
             /\ chosen = None =>
                  ~(selection = None /\ current = Length /\ call[c].action = "approved")
  <1> DEFINE chosen == call[c].choice
             mine == StepOf(steps, who, call[c].actor)
  <1>1. Acceptable(c) /\ call[c].action \in Decisions
    BY DEF LocksHold, LockHolds
  <1>2. status = "pending"
    BY <1>1 DEF Acceptable, MayDecide, TypeOK, RequestStatus, Terminal
  <1>3. mine \in 1..Length /\ steps[mine] = "pending"
    BY <1>1 DEF Acceptable, MayDecide, LineIsWhole
  <1>4. mine = current
    BY <1>2, <1>3 DEF Turns
  <1>5. NeedsSelection <=> selection = None /\ \A k \in 1..Length : k <= current
    BY <1>2 DEF NeedsSelection, LineIsWhole
  <1>6. NeedsSelection <=> selection = None /\ current = Length
    BY <1>3, <1>4, <1>5, LengthIsAnOrder
  <1>7. ASSUME chosen \in Lines
        PROVE  call[c].action = "approved" /\ NeedsSelection
    BY <1>1, <1>7, LineConstants DEF Acceptable
  <1>8. chosen \in Lines => /\ version[chosen] = call[c].rev
                            /\ LineSteps[chosen][call[c].rev] # <<>>
    BY DEF LocksHold, LockHolds
  <1>9. call[c].expected = current /\ (chosen = "finalize" => ~required)
    BY <1>1 DEF Acceptable
  <1>10. chosen = None => ~(NeedsSelection /\ call[c].action = "approved")
    BY <1>1 DEF Acceptable
  <1>11. QED
    BY <1>1, <1>2, <1>3, <1>4, <1>6, <1>7, <1>8, <1>9, <1>10, LengthIsAnOrder

\* The ledger after a commit, step by step.
LEMMA CommitEffect ==
  ASSUME TypeOK, LineIsWhole, Turns, LocksHold, NEW c \in Calls, DecisionCommit(c)
  PROVE  LET chosen == call[c].choice
             action == call[c].action
         IN  /\ Length' \in Orders /\ Length <= Length'
             /\ chosen \in Lines =>
                  /\ Length' = First + Len(LineSteps[chosen][call[c].rev])
                  /\ Length' > First /\ selection' = chosen
                  /\ reviewed' = [line |-> chosen, rev |-> call[c].rev]
                  /\ \A i \in DOMAIN LineSteps[chosen][call[c].rev] :
                       who'[First + i] = LineSteps[chosen][call[c].rev][i]
             /\ chosen \notin Lines => Length' = Length /\ UNCHANGED <<selection, reviewed, who>>
             /\ status' = IF action = "rejected" THEN "rejected"
                          ELSE IF current = Length' THEN "approved" ELSE "pending"
             /\ current' = IF action = "approved" /\ current < Length' THEN current + 1
                           ELSE current
             /\ who' \in [Orders -> Approvers \cup {None}]
             /\ steps' \in [Orders -> StepStatus]
             /\ \A k \in Orders :
                  steps'[k] = IF k = current THEN action
                              ELSE IF current < k /\ k <= Length'
                                   THEN IF action = "rejected" THEN "skipped"
                                        ELSE IF k = current + 1 THEN "pending" ELSE "waiting"
                              ELSE steps[k]
             /\ shown' = [shown EXCEPT ![current] = current]
  <1> DEFINE chosen == call[c].choice
             action == call[c].action
             added == IF chosen \in Lines THEN LineSteps[chosen][version[chosen]] ELSE <<>>
             last == CHOOSE n \in Present(steps) : \A k \in Present(steps) : k <= n
             New(k) == k \in (last + 1)..(last + Len(added))
             grown == [k \in Orders |-> IF New(k) THEN "waiting" ELSE steps[k]]
             next == Decided(current, grown, current, action)
             m == Length + Len(added)
  <1>1. /\ status = "pending" /\ current \in 1..Length /\ action \in Decisions
        /\ StepOf(steps, who, call[c].actor) = current /\ call[c].expected = current
        /\ chosen \in Lines =>
             /\ action = "approved" /\ selection = None /\ current = First /\ Length = First
             /\ version[chosen] = call[c].rev /\ LineSteps[chosen][call[c].rev] # <<>>
    BY JudgedIsTrue DEF DecisionCommit
  <1>2. /\ Length \in Nat /\ Length \in Orders
        /\ First \in Nat /\ First >= 1 /\ LongestLine \in Nat
        /\ Orders = 1..(First + LongestLine)
    BY LengthIsAnOrder, LineConstants
  <1>3. last = Length
    <2>1. Present(steps) = 1..Length /\ Length >= 1
      BY <1>1, <1>2 DEF LineIsWhole
    <2>2. \A n \in 1..Length : (\A k \in 1..Length : k <= n) <=> n = Length
      BY <1>2, <2>1
    <2>3. QED
      BY <1>2, <2>1, <2>2
  <1>4. /\ Len(added) \in Nat
        /\ chosen \in Lines => /\ added = LineSteps[chosen][call[c].rev]
                               /\ Len(added) \in 1..LongestLine
                               /\ DOMAIN added = 1..Len(added)
                               /\ added \in Seq(Approvers)
        /\ chosen \notin Lines => Len(added) = 0
    <2>1. CASE chosen \in Lines
      <3>1. version[chosen] \in Versions /\ added = LineSteps[chosen][version[chosen]]
        BY <2>1 DEF TypeOK
      <3>2. added = LineSteps[chosen][call[c].rev] /\ added # <<>>
        BY <1>1, <2>1, <3>1
      <3> HIDE DEF added
      <3>3. /\ added \in Seq(Approvers) /\ Len(added) \in 0..LongestLine
            /\ DOMAIN added = 1..Len(added) /\ Len(added) >= 1
        BY <2>1, <3>1, <3>2, EditedLine
      <3>4. QED
        BY <1>2, <2>1, <3>2, <3>3
    <2>2. CASE chosen \notin Lines
      BY <2>2, EmptySeq
    <2>3. QED
      BY <2>1, <2>2
  <1>5. /\ steps' = next.steps /\ status' = next.status /\ current' = next.current
        /\ who' = [k \in Orders |-> IF New(k) THEN added[k - last] ELSE who[k]]
        /\ selection' = IF chosen \in Lines THEN chosen ELSE selection
        /\ shown' = [shown EXCEPT ![current] = current]
        /\ reviewed' = IF chosen \in Lines THEN [line |-> chosen, rev |-> call[c].rev]
                                           ELSE reviewed
    BY <1>1 DEF DecisionCommit
  <1> HIDE DEF last, added
  <1>6. m \in Orders /\ m \in Nat /\ current \in 1..m /\ Length <= m
    <2>1. CASE chosen \in Lines
      BY <1>1, <1>2, <1>4, <2>1
    <2>2. CASE chosen \notin Lines
      BY <1>1, <1>2, <1>4, <2>2
    <2>3. QED
      BY <2>1, <2>2
  <1>7. /\ grown \in [Orders -> StepStatus]
        /\ \A k \in Orders : grown[k] = IF Length < k /\ k <= m THEN "waiting" ELSE steps[k]
    BY <1>2, <1>3, <1>4 DEF TypeOK, StepStatus
  <1>8. \A k \in Orders : k <= Length <=> steps[k] # "absent"
    BY <1>2 DEF LineIsWhole, Present, TypeOK
  <1>9. Present(grown) = 1..m
    BY <1>2, <1>6, <1>7, <1>8 DEF Present
  <1> HIDE DEF grown, m
  <1>10. /\ next.status = IF action = "rejected" THEN "rejected"
                          ELSE IF current = m THEN "approved" ELSE "pending"
         /\ next.current = IF action = "approved" /\ current < m THEN current + 1 ELSE current
         /\ next.steps \in [Orders -> StepStatus]
         /\ \A k \in Orders :
              next.steps[k] =
                IF k = current THEN action
                ELSE IF action = "rejected"
                     THEN IF grown[k] \in {"waiting", "pending"} THEN "skipped" ELSE grown[k]
                ELSE IF k = current + 1 /\ k <= m THEN "pending" ELSE grown[k]
    BY <1>1, <1>6, <1>7, <1>9, DecidedConcludes
  <1> HIDE DEF next
  <1>11. Length' = m
    <2>1. CASE chosen \in Lines
      <3>1. chosen # None /\ selection' = chosen /\ reviewed'.line = chosen
            /\ reviewed'.rev = call[c].rev
        BY <1>5, <2>1, LineConstants
      <3>2. QED
        BY <1>1, <1>4, <2>1, <3>1 DEF Length, m
    <2>2. CASE chosen \notin Lines
      <3>1. selection' = selection /\ reviewed' = reviewed
        BY <1>5, <2>2
      <3>2. Length' = Length
        BY <3>1 DEF Length
      <3>3. m = Length
        BY <1>2, <1>4, <2>2 DEF m
      <3>4. QED
        BY <3>2, <3>3
    <2>3. QED
      BY <2>1, <2>2
  <1>12. ASSUME NEW k \in Orders
         PROVE  steps'[k] = IF k = current THEN action
                            ELSE IF current < k /\ k <= m
                                 THEN IF action = "rejected" THEN "skipped"
                                      ELSE IF k = current + 1 THEN "pending" ELSE "waiting"
                            ELSE steps[k]
    <2>1. k \in Nat /\ current \in Nat
      BY <1>1, <1>2
    <2>2. CASE k <= Length
      <3>1. /\ steps[k] = IF k < current THEN "approved"
                          ELSE IF k = current THEN "pending" ELSE "waiting"
            /\ grown[k] = steps[k] /\ k <= m
        BY <1>1, <1>2, <1>6, <1>7, <2>1, <2>2 DEF Turns
      <3>2. QED
        BY <1>1, <1>5, <1>10, <2>1, <3>1 DEF Decisions
    <2>3. CASE Length < k /\ k <= m
      <3>1. grown[k] = "waiting" /\ current < k
        BY <1>1, <1>2, <1>7, <2>1, <2>3
      <3>2. QED
        BY <1>1, <1>5, <1>10, <2>1, <2>3, <3>1
    <2>4. CASE m < k
      <3>1. grown[k] = "absent" /\ steps[k] = "absent" /\ current < k /\ ~(k <= m)
        BY <1>1, <1>2, <1>6, <1>7, <1>8, <2>1, <2>4
      <3>2. QED
        BY <1>1, <1>5, <1>10, <2>1, <3>1
    <2>5. QED
      BY <1>2, <1>6, <2>1, <2>2, <2>3, <2>4
  <1>13. /\ who' \in [Orders -> Approvers \cup {None}]
         /\ chosen \notin Lines => who' = who
         /\ chosen \in Lines => \A i \in DOMAIN added : who'[First + i] = added[i]
    <2>1. ASSUME NEW k \in Orders, New(k)
          PROVE  chosen \in Lines /\ k - last \in 1..Len(added) /\ added[k - last] \in Approvers
      <3>1. chosen \in Lines /\ k - last \in 1..Len(added)
        BY <1>2, <1>3, <1>4, <2>1
      <3>2. QED
        BY <1>4, <3>1, ElementOfSeq
    <2>2. who' \in [Orders -> Approvers \cup {None}]
      BY <1>5, <2>1 DEF TypeOK
    <2>3. chosen \notin Lines => who' = who
      BY <1>5, <2>1 DEF TypeOK
    <2>4. ASSUME chosen \in Lines, NEW i \in DOMAIN added
          PROVE  who'[First + i] = added[i]
      <3>1. i \in 1..Len(added) /\ Len(added) <= LongestLine /\ last = First
        BY <1>1, <1>3, <1>4, <2>4
      <3>2. First + i \in Orders /\ New(First + i) /\ (First + i) - last = i
        BY <1>2, <1>4, <3>1
      <3>3. QED
        BY <1>5, <3>2
    <2>5. QED
      BY <2>2, <2>3, <2>4
  <1>14. /\ chosen \in Lines =>
              /\ m = First + Len(LineSteps[chosen][call[c].rev]) /\ m > First
              /\ \A i \in DOMAIN LineSteps[chosen][call[c].rev] :
                   who'[First + i] = LineSteps[chosen][call[c].rev][i]
         /\ chosen \notin Lines => m = Length
    <2>1. chosen \in Lines => added = LineSteps[chosen][call[c].rev] /\ m = First + Len(added)
                               /\ m > First
      BY <1>1, <1>2, <1>4 DEF m
    <2>2. chosen \notin Lines => m = Length
      BY <1>2, <1>4 DEF m
    <2>3. QED
      BY <1>13, <2>1, <2>2
  <1>15. QED
    BY <1>6, <1>5, <1>10, <1>11, <1>12, <1>13, <1>14

-----------------------------------------------------------------------------
(* The inductive invariant: what steps that leave the ledger alone keep.   *)

\* The line, its turns and its history are the ledger's.
LEMMA LedgerKept ==
  ASSUME IInv, UNCHANGED <<ledger, history>>
  PROVE  LineIsWhole' /\ Turns' /\ RequiredFollowupIsMade' /\ ClickDecidesItsStep'
  BY DEF IInv, LineIsWhole, Turns, RequiredFollowupIsMade, ClickDecidesItsStep, Length,
     Present, ledger, history

\* What was acceptable stays so while nobody writes the ledger.
LEMMA AcceptableKept ==
  ASSUME NEW c \in Calls, UNCHANGED ledger, Remembers(c), Acceptable(c)
  PROVE  Acceptable(c)'
  BY DEF Acceptable, NeedsSelection, MayDecide, StepOf, Present, Remembers, ledger

\* A call keeps its locks whatever another call does with its own.
LEMMA LockHoldsOthers ==
  ASSUME IInv, NEW c \in Calls, UNCHANGED <<ledger, version>>, Others(c),
         \A d \in Calls \ {c} : /\ lock = d => lock' = d
                                /\ configLock = d => configLock' = d
  PROVE  \A d \in Calls \ {c} : LockHolds(d)'
  <1> SUFFICES ASSUME NEW d \in Calls \ {c}
               PROVE  LockHolds(d)'
    OBVIOUS
  <1>1. LockHolds(d) /\ call'[d] = call[d]
    BY DEF IInv, LocksHold, Others
  <1>2. Acceptable(d) => Acceptable(d)'
    BY <1>1, AcceptableKept DEF Remembers
  <1>3. QED
    BY <1>1, <1>2 DEF LockHolds

\* A call that holds no lock afterwards has nothing to keep.
LEMMA LocksKept ==
  ASSUME IInv, NEW c \in Calls, UNCHANGED <<ledger, version>>, Others(c),
         call'[c].pc \notin {"judge", "connect", "commit", "close"},
         call'[c].pc = "lock" => call'[c].action \in Decisions,
         \A d \in Calls \ {c} : /\ lock = d => lock' = d
                                /\ configLock = d => configLock' = d
  PROVE  LocksHold'
  <1>1. \A d \in Calls \ {c} : LockHolds(d)'
    BY LockHoldsOthers
  <1>2. LockHolds(c)'
    BY DEF LockHolds
  <1>3. QED
    BY <1>1, <1>2 DEF LocksHold

\* What is left to tell is left to the same calls.
LEMMA ReportsKept ==
  ASSUME IInv, NEW c \in Calls, UNCHANGED <<status, steps, handed, notices, died>>, Others(c),
         call[c].pc \notin {"report", "told"}, call'[c].pc \notin {"report", "told"}
  PROVE  Reports'
  BY DEF IInv, Reports, Others, notices

-----------------------------------------------------------------------------
(* One lemma per action.                                                   *)

\* A click writes nothing but the call that starts.
LEMMA ClickKeeps ==
  ASSUME IInv, NEW c \in Calls, NEW a \in Approvers, NEW action \in Decisions,
         NEW choice \in Choices, Click(c, a, action, choice)
  PROVE  IInv'
  <1>1. /\ call[c].pc = "idle"
        /\ UNCHANGED <<ledger, locks, version, handed, notices, history, died>>
    BY DEF Click
  <1>2. /\ call' \in [Calls -> CallState] /\ call'[c].pc = "lock" /\ Others(c)
        /\ call'[c].action \in Decisions
    BY ClickEffect DEF IInv
  <1>3. TypeOK'
    BY <1>1, <1>2 DEF IInv, TypeOK, ledger, locks, notices, history
  <1>4. LineIsWhole' /\ Turns' /\ RequiredFollowupIsMade' /\ ClickDecidesItsStep'
    BY <1>1, LedgerKept
  <1>5. LocksHold'
    BY <1>1, <1>2, LocksKept DEF locks
  <1>6. Reports'
    BY <1>1, <1>2, ReportsKept DEF ledger
  <1>7. QED
    BY <1>3, <1>4, <1>5, <1>6 DEF IInv

\* The lock is free when it is taken: nobody was between its judgement and its commit.
LEMMA LockRequestKeeps ==
  ASSUME IInv, NEW c \in Calls,
         LockRequest(c, "lock", "judge") \/ LockRequest(c, "clock", "close")
  PROVE  IInv'
  <1>1. /\ call[c].pc \in {"lock", "clock"} /\ lock = None /\ lock' = c
        /\ UNCHANGED <<ledger, configLock, version, handed, notices, history, died>>
    BY DEF LockRequest
  <1>2. /\ call' \in [Calls -> CallState] /\ call'[c].pc \in {"judge", "close"} /\ Others(c)
        /\ Remembers(c)
        /\ call'[c].pc = "judge" => call[c].action \in Decisions
    <2>1. call \in [Calls -> CallState] /\ LockHolds(c)
      BY DEF IInv, TypeOK, LocksHold
    <2>2. CASE LockRequest(c, "lock", "judge")
      BY <2>1, <2>2, GotoEffect DEF LockRequest, LockHolds, PC
    <2>3. CASE LockRequest(c, "clock", "close")
      BY <2>1, <2>3, GotoEffect DEF LockRequest, PC
    <2>4. QED
      BY <2>2, <2>3
  <1>3. TypeOK'
    BY <1>1, <1>2 DEF IInv, TypeOK, ledger, notices, history
  <1>4. LineIsWhole' /\ Turns' /\ RequiredFollowupIsMade' /\ ClickDecidesItsStep'
    BY <1>1, LedgerKept
  <1>5. LocksHold'
    <2>1. \A d \in Calls \ {c} : LockHolds(d)'
      <3>1. \A d \in Calls : lock # d
        BY <1>1, LineConstants
      <3>2. QED
        BY <1>1, <1>2, <3>1, LockHoldsOthers
    <2>2. LockHolds(c)'
      BY <1>1, <1>2 DEF LockHolds, Remembers
    <2>3. QED
      BY <2>1, <2>2 DEF LocksHold
  <1>6. Reports'
    BY <1>1, <1>2, ReportsKept DEF ledger
  <1>7. QED
    BY <1>3, <1>4, <1>5, <1>6 DEF IInv

\* A judged decision goes on with its locks, or gives them back.
LEMMA DecisionJudgeKeeps ==
  ASSUME IInv, NEW c \in Calls, DecisionJudge(c)
  PROVE  IInv'
  <1>1. /\ call[c].pc = "judge"
        /\ UNCHANGED <<ledger, version, handed, notices, history, died>>
    BY DEF DecisionJudge
  <1>2. LineIsWhole' /\ Turns' /\ RequiredFollowupIsMade' /\ ClickDecidesItsStep'
    BY <1>1, LedgerKept
  <1>3. CASE ~Acceptable(c)
    <2>1. Return(c) /\ Release(c)
      BY <1>3 DEF DecisionJudge
    <2>2. call' \in [Calls -> CallState] /\ call'[c].pc = "idle" /\ Others(c)
      BY <2>1, ReturnEffect DEF IInv, TypeOK
    <2>3. /\ lock' \in Calls \cup {None} /\ configLock' \in Calls \cup {None}
          /\ \A d \in Calls \ {c} : /\ lock = d => lock' = d
                                    /\ configLock = d => configLock' = d
      BY <2>1, ReleaseEffect DEF IInv
    <2>4. TypeOK'
      BY <1>1, <2>2, <2>3 DEF IInv, TypeOK, ledger, notices, history
    <2>5. LocksHold'
      BY <1>1, <2>2, <2>3, LocksKept
    <2>6. Reports'
      BY <1>1, <2>2, ReportsKept DEF ledger
    <2>7. QED
      BY <1>2, <2>4, <2>5, <2>6 DEF IInv
  <1>4. CASE Acceptable(c)
    <2> DEFINE label == IF call[c].choice \in Lines THEN "connect" ELSE "commit"
    <2>1. Goto(c, label) /\ UNCHANGED locks
      BY <1>4 DEF DecisionJudge
    <2>2. /\ call' \in [Calls -> CallState] /\ call'[c].pc = label /\ Others(c)
          /\ Remembers(c)
      BY <2>1, GotoEffect DEF IInv, TypeOK, PC
    <2>3. TypeOK'
      BY <1>1, <2>1, <2>2 DEF IInv, TypeOK, ledger, notices, history, locks
    <2>4. \A d \in Calls \ {c} : LockHolds(d)'
      BY <1>1, <2>1, <2>2, LockHoldsOthers DEF locks
    <2>5. LockHolds(c)'
      <3>1. Acceptable(c)'
        BY <1>1, <1>4, <2>2, AcceptableKept
      <3>2. lock = c /\ call[c].action \in Decisions
        BY <1>1 DEF IInv, LocksHold, LockHolds
      <3>3. QED
        BY <2>1, <2>2, <3>1, <3>2 DEF LockHolds, Remembers, locks
    <2>6. Reports'
      BY <1>1, <2>2, ReportsKept DEF ledger
    <2>7. QED
      BY <1>2, <2>3, <2>4, <2>5, <2>6 DEF IInv, LocksHold
  <1>5. QED
    BY <1>3, <1>4

\* A previewed line is locked as it was previewed, or the call gives up.
LEMMA DecisionConnectKeeps ==
  ASSUME IInv, NEW c \in Calls, DecisionConnect(c)
  PROVE  IInv'
  <1> DEFINE line == call[c].choice
             AsPreviewed == /\ version[line] = call[c].rev
                            /\ LineSteps[line][version[line]] # <<>>
  <1>1. /\ call[c].pc = "connect" /\ configLock = None
        /\ UNCHANGED <<ledger, version, handed, notices, history, died>>
    BY DEF DecisionConnect
  <1>2. LineIsWhole' /\ Turns' /\ RequiredFollowupIsMade' /\ ClickDecidesItsStep'
    BY <1>1, LedgerKept
  <1>3. CASE ~AsPreviewed
    <2>1. Return(c) /\ Release(c)
      BY <1>3 DEF DecisionConnect
    <2>2. call' \in [Calls -> CallState] /\ call'[c].pc = "idle" /\ Others(c)
      BY <2>1, ReturnEffect DEF IInv, TypeOK
    <2>3. /\ lock' \in Calls \cup {None} /\ configLock' \in Calls \cup {None}
          /\ \A d \in Calls \ {c} : /\ lock = d => lock' = d
                                    /\ configLock = d => configLock' = d
      BY <2>1, ReleaseEffect DEF IInv
    <2>4. TypeOK'
      BY <1>1, <2>2, <2>3 DEF IInv, TypeOK, ledger, notices, history
    <2>5. LocksHold'
      BY <1>1, <2>2, <2>3, LocksKept
    <2>6. Reports'
      BY <1>1, <2>2, ReportsKept DEF ledger
    <2>7. QED
      BY <1>2, <2>4, <2>5, <2>6 DEF IInv
  <1>4. CASE AsPreviewed
    <2>1. Goto(c, "commit") /\ configLock' = c /\ UNCHANGED lock
      BY <1>4 DEF DecisionConnect
    <2>2. /\ call' \in [Calls -> CallState] /\ call'[c].pc = "commit" /\ Others(c)
          /\ Remembers(c)
      BY <2>1, GotoEffect DEF IInv, TypeOK, PC
    <2>3. TypeOK'
      BY <1>1, <2>1, <2>2 DEF IInv, TypeOK, ledger, notices, history
    <2>4. \A d \in Calls \ {c} : LockHolds(d)'
      <3>1. \A d \in Calls : configLock # d
        BY <1>1, LineConstants
      <3>2. QED
        BY <1>1, <2>1, <2>2, <3>1, LockHoldsOthers
    <2>5. LockHolds(c)'
      <3>1. lock = c /\ call[c].action \in Decisions /\ Acceptable(c)
        BY <1>1 DEF IInv, LocksHold, LockHolds
      <3>2. Acceptable(c)'
        BY <1>1, <2>2, <3>1, AcceptableKept
      <3>3. QED
        BY <1>1, <1>4, <2>1, <2>2, <3>1, <3>2 DEF LockHolds, Remembers
    <2>6. Reports'
      BY <1>1, <2>2, ReportsKept DEF ledger
    <2>7. QED
      BY <1>2, <2>3, <2>4, <2>5, <2>6 DEF IInv, LocksHold
  <1>5. QED
    BY <1>3, <1>4

\* The commit of a decision, all at once: the steps, the request, the line that
\* is connected.  Nobody else held the rows meanwhile.
LEMMA DecisionCommitKeeps ==
  ASSUME IInv, NEW c \in Calls, DecisionCommit(c)
  PROVE  IInv'
  <1> DEFINE chosen == call[c].choice
             action == call[c].action
  <1>1. /\ call[c].pc = "commit" /\ Goto(c, "report") /\ Release(c)
        /\ UNCHANGED <<required, version, handed, turnTold, settledTold, died>>
    BY DEF DecisionCommit, notices
  <1>2. /\ status = "pending" /\ current \in 1..Length /\ action \in Decisions
        /\ chosen \in Lines => current = First
        /\ chosen = "finalize" => ~required
        /\ chosen = None => ~(selection = None /\ current = Length /\ action = "approved")
    BY <1>1, JudgedIsTrue DEF IInv
  <1>3. /\ Length' \in Orders /\ Length <= Length'
        /\ chosen \in Lines =>
             /\ Length' > First /\ selection' = chosen
             /\ reviewed' = [line |-> chosen, rev |-> call[c].rev]
             /\ \A i \in DOMAIN LineSteps[chosen][call[c].rev] :
                  who'[First + i] = LineSteps[chosen][call[c].rev][i]
        /\ chosen \notin Lines => Length' = Length /\ UNCHANGED <<selection, reviewed, who>>
        /\ status' = IF action = "rejected" THEN "rejected"
                     ELSE IF current = Length' THEN "approved" ELSE "pending"
        /\ current' = IF action = "approved" /\ current < Length' THEN current + 1 ELSE current
        /\ who' \in [Orders -> Approvers \cup {None}]
        /\ steps' \in [Orders -> StepStatus]
        /\ \A k \in Orders :
             steps'[k] = IF k = current THEN action
                         ELSE IF current < k /\ k <= Length'
                              THEN IF action = "rejected" THEN "skipped"
                                   ELSE IF k = current + 1 THEN "pending" ELSE "waiting"
                         ELSE steps[k]
        /\ shown' = [shown EXCEPT ![current] = current]
    BY CommitEffect DEF IInv
  <1>4. /\ Length \in Nat /\ Length' \in Nat /\ current \in Nat /\ current \in Orders
        /\ current <= Length /\ current <= Length' /\ Orders \subseteq Nat
        /\ Orders = 1..(First + LongestLine) /\ First + LongestLine \in Nat
        /\ \A k \in 1..Length' : k \in Orders
        /\ \A k \in 1..Length : k \in Orders
        /\ 0 \notin Orders
    <2>1. Length' \in Orders /\ Length <= Length'
      BY <1>3
    <2>2. QED
      BY <1>2, <2>1, LengthIsAnOrder, LineConstants DEF IInv
  <1>5. \/ action = "rejected" /\ status' = "rejected" /\ current' = current
        \/ /\ action = "approved" /\ current = Length'
           /\ status' = "approved" /\ current' = current
        \/ /\ action = "approved" /\ current < Length'
           /\ status' = "pending" /\ current' = current + 1
    <2>1. /\ status' = IF action = "rejected" THEN "rejected"
                       ELSE IF current = Length' THEN "approved" ELSE "pending"
          /\ current' = IF action = "approved" /\ current < Length' THEN current + 1 ELSE current
      BY <1>3
    <2>2. action \in {"approved", "rejected"}
      BY <1>2 DEF Decisions
    <2> HIDE DEF action
    <2>3. QED
      BY <1>4, <2>1, <2>2
  <1>6. ASSUME NEW k \in Orders
         PROVE  steps'[k] = IF k = current THEN action
                            ELSE IF current < k /\ k <= Length'
                                 THEN IF action = "rejected" THEN "skipped"
                                      ELSE IF k = current + 1 THEN "pending" ELSE "waiting"
                            ELSE steps[k]
    BY <1>3
  <1>7. /\ call' \in [Calls -> CallState] /\ call'[c].pc = "report" /\ Others(c)
    BY <1>1, GotoEffect DEF IInv, TypeOK, PC
  <1>8. /\ chosen \in Choices /\ call[c].rev \in Versions /\ lock = c
    BY <1>1 DEF IInv, TypeOK, CallState, LocksHold, LockHolds
  <1>9. \A k \in Orders : /\ steps[k] # "absent" <=> k <= Length
                          /\ k < current => steps[k] = "approved"
                          /\ current < k => steps[k] \notin Decisions
    <2>1. \A k \in Orders : steps[k] # "absent" <=> k <= Length
      <3>1. Present(steps) = 1..Length /\ DOMAIN steps = Orders
        BY DEF IInv, LineIsWhole, TypeOK
      <3>2. QED
        BY <1>4, <3>1 DEF Present
    <2>2. \A k \in 1..Length :
            steps[k] = IF k < current THEN "approved"
                       ELSE IF k = current THEN "pending" ELSE "waiting"
      BY <1>2 DEF IInv, Turns
    <2>3. SUFFICES ASSUME NEW k \in Orders
                   PROVE  /\ k < current => steps[k] = "approved"
                          /\ current < k => steps[k] \notin Decisions
      BY <2>1
    <2>4. CASE k \in 1..Length
      BY <1>4, <2>2, <2>4 DEF Decisions
    <2>5. CASE k \notin 1..Length
      BY <1>4, <2>1, <2>5 DEF Decisions
    <2>6. QED
      BY <2>4, <2>5
  <1>10. TypeOK'
    <2>1. status' \in RequestStatus /\ current' \in Orders
      BY <1>4, <1>5 DEF RequestStatus
    <2>2. /\ selection' \in Lines \cup {None}
          /\ reviewed' \in [line : Lines \cup {None}, rev : Versions]
      BY <1>3, <1>8 DEF IInv, TypeOK
    <2>3. shown' \in [Orders -> Orders \cup {0}]
      BY <1>3, <1>4 DEF IInv, TypeOK
    <2>4. lock' \in Calls \cup {None} /\ configLock' \in Calls \cup {None}
      BY <1>1, ReleaseEffect DEF IInv
    <2>5. QED
      BY <1>1, <1>3, <1>7, <2>1, <2>2, <2>3, <2>4 DEF IInv, TypeOK
  <1>11. LineIsWhole'
    <2>1. \A k \in Orders : steps'[k] # "absent" <=> k <= Length'
      <3>1. SUFFICES ASSUME NEW k \in Orders
                     PROVE  steps'[k] # "absent" <=> k <= Length'
        OBVIOUS
      <3>2. CASE k = current
        BY <1>2, <1>4, <1>6, <3>2 DEF Decisions
      <3>3. CASE k < current
        BY <1>4, <1>9, <1>6, <3>3
      <3>4. CASE current < k /\ k <= Length'
        BY <1>4, <1>6, <3>4
      <3>5. CASE Length' < k
        <4>1. Length < k /\ current < k
          BY <1>3, <1>4, <3>5
        <4>2. QED
          BY <1>4, <1>9, <1>6, <3>5, <4>1
      <3>6. QED
        BY <1>4, <3>2, <3>3, <3>4, <3>5
    <2>2. Present(steps') = 1..Length'
      <3>1. DOMAIN steps' = Orders
        BY <1>3
      <3>2. QED
        BY <1>4, <2>1, <3>1 DEF Present
    <2>3. CASE chosen \in Lines
      <3>1. /\ chosen # None /\ selection' = chosen /\ reviewed'.line = chosen
            /\ reviewed'.rev = call[c].rev
        BY <1>3, <2>3, LineConstants
      <3>2. LineSteps[chosen][call[c].rev] # <<>>
        BY <1>1, <2>3 DEF IInv, LocksHold, LockHolds
      <3>3. QED
        BY <1>3, <2>2, <2>3, <3>1, <3>2 DEF LineIsWhole, Present
    <2>4. CASE chosen \notin Lines
      BY <1>3, <2>2, <2>4 DEF IInv, LineIsWhole, Present
    <2>5. QED
      BY <2>3, <2>4
  <1>12. Turns'
    <2>1. ASSUME status' = "pending", NEW k \in 1..Length'
          PROVE  steps'[k] = IF k < current' THEN "approved"
                             ELSE IF k = current' THEN "pending" ELSE "waiting"
      <3>1. action = "approved" /\ current < Length' /\ current' = current + 1
        BY <1>5, <2>1
      <3>2. k \in Orders /\ k \in Nat /\ k <= Length'
        BY <1>4, <2>1
      <3>3. QED
        BY <1>4, <1>9, <1>6, <3>1, <3>2
    <2>2. status' = "pending" => current' <= Length'
      BY <1>4, <1>5
    <2>3. ASSUME status' # "pending", NEW k \in 1..Length'
          PROVE  /\ steps'[k] \notin {"waiting", "pending"}
                 /\ status' = "approved" => steps'[k] = "approved"
      <3>1. k \in Orders /\ k \in Nat /\ k <= Length'
        BY <1>4, <2>3
      <3>2. action = "rejected" \/ (action = "approved" /\ current = Length')
        BY <1>5, <2>3
      <3>3. QED
        <4>1. CASE k = current
          BY <1>5, <1>6, <3>1, <4>1
        <4>2. CASE k < current
          BY <1>4, <1>9, <1>6, <3>1, <4>2
        <4>3. CASE current < k
          BY <1>4, <1>5, <1>6, <3>1, <3>2, <4>3
        <4>4. QED
          BY <1>4, <3>1, <4>1, <4>2, <4>3
    <2>4. status' = "rejected" => \E k \in 1..Length' : steps'[k] = "rejected"
      <3>1. status' = "rejected" => action = "rejected" /\ current \in 1..Length'
        BY <1>2, <1>4, <1>5
      <3>2. QED
        BY <1>4, <1>6, <3>1
    <2>5. QED
      BY <2>1, <2>2, <2>3, <2>4 DEF Turns
  <1>13. LocksHold'
    <2>1. \A d \in Calls \ {c} : call'[d] = call[d] /\ lock # d /\ LockHolds(d)
      BY <1>7, <1>8 DEF Others, IInv, LocksHold
    <2>2. QED
      BY <1>7, <2>1 DEF LocksHold, LockHolds
  <1>14. RequiredFollowupIsMade'
    <2>1. SUFFICES ASSUME required, status' = "approved"
                   PROVE  selection' # None
      BY <1>1 DEF RequiredFollowupIsMade
    <2>2. action = "approved" /\ current = Length'
      BY <1>5, <2>1
    <2>3. chosen \notin Lines
      BY <1>2, <1>3, <2>2, LineConstants
    <2>4. chosen = None /\ Length' = Length /\ selection' = selection
      BY <1>2, <1>3, <1>8, <2>1, <2>3 DEF Choices
    <2>5. QED
      BY <1>2, <2>2, <2>4
  <1>15. ClickDecidesItsStep'
    <2>1. ASSUME NEW k \in Orders
          PROVE  /\ shown'[k] # 0 => shown'[k] = k
                 /\ steps'[k] \in Decisions <=> shown'[k] # 0
      <3>1. /\ shown[k] # 0 => shown[k] = k
            /\ steps[k] \in Decisions <=> shown[k] # 0
        BY DEF IInv, ClickDecidesItsStep
      <3>2. shown'[k] = IF k = current THEN current ELSE shown[k]
        BY <1>3, <1>4 DEF IInv, TypeOK
      <3>3. CASE k = current
        BY <1>2, <1>4, <1>6, <3>2, <3>3
      <3>4. CASE k # current
        <4>1. steps'[k] \in Decisions <=> steps[k] \in Decisions
          BY <1>4, <1>9, <1>6, <3>4 DEF Decisions
        <4>2. QED
          BY <3>1, <3>2, <3>4, <4>1
      <3>5. QED
        BY <3>3, <3>4
    <2>2. QED
      BY <2>1 DEF ClickDecidesItsStep
  <1>16. Reports'
    <2>1. handed' = {} /\ settledTold' = 0 /\ \A d \in Calls : call[d].pc # "told"
      BY <1>1, <1>2 DEF IInv, Reports, Terminal, Decisions
    <2>2. status' # "canceled" /\ \A d \in Calls : call'[d].pc # "told"
      BY <1>7, <1>5, <2>1 DEF Others
    <2>3. QED
      BY <1>7, <2>1, <2>2 DEF Reports
  <1>17. QED
    BY <1>10, <1>11, <1>12, <1>13, <1>14, <1>15, <1>16 DEF IInv

\* A closed request has no open step.
LEMMA ClosedHasNoTurn ==
  ASSUME TypeOK, LineIsWhole, Turns, status # "pending", NEW k \in Orders
  PROVE  steps[k] \notin {"waiting", "pending"}
  <1>1. CASE k \in 1..Length
    BY <1>1 DEF Turns
  <1>2. CASE k \notin 1..Length
    BY <1>2 DEF TypeOK, LineIsWhole, Present
  <1>3. QED
    BY <1>1, <1>2

\* The notices after a commit: the end to the hooks and the requester, or the
\* turn to its approver.
LEMMA DecisionReportKeeps ==
  ASSUME IInv, NEW c \in Calls, DecisionReport(c)
  PROVE  IInv'
  <1>1. /\ call[c].pc = "report" /\ Return(c)
        /\ UNCHANGED <<ledger, locks, version, history, died>>
    BY DEF DecisionReport
  <1>2. call' \in [Calls -> CallState] /\ call'[c].pc = "idle" /\ Others(c)
    BY <1>1, ReturnEffect DEF IInv, TypeOK
  <1>3. LineIsWhole' /\ Turns' /\ RequiredFollowupIsMade' /\ ClickDecidesItsStep'
    BY <1>1, LedgerKept
  <1>4. LocksHold'
    BY <1>1, <1>2, LocksKept DEF locks
  <1>5. \A n \in 0..2 : Bump(n) \in 1..2
    BY DEF Bump
  <1>6. CASE status \in Decisions
    <2>1. /\ handed' = handed \cup {status} /\ settledTold' = Bump(settledTold)
          /\ UNCHANGED turnTold
      BY <1>6 DEF DecisionReport
    <2>2. TypeOK'
      BY <1>1, <1>2, <1>5, <2>1 DEF IInv, TypeOK, ledger, locks, history
    <2>3. handed' = {status} /\ settledTold' # 0 /\ status \in Terminal
      BY <1>5, <1>6, <2>1 DEF IInv, Reports, TypeOK, Terminal, Decisions
    <2>4. \A k \in Orders : steps[k] # "pending"
      BY <1>6, ClosedHasNoTurn DEF IInv, Decisions
    <2>5. status # "canceled" /\ UNCHANGED <<status, steps>>
      BY <1>1, <1>6 DEF Decisions, ledger
    <2>6. Reports'
      BY <1>2, <1>6, <2>3, <2>4, <2>5 DEF IInv, Reports, Others
    <2>7. QED
      BY <1>3, <1>4, <2>2, <2>6 DEF IInv
  <1>7. CASE status \notin Decisions
    <2>1. /\ turnTold' = [k \in Orders |-> IF steps[k] = "pending" THEN Bump(turnTold[k])
                                                                  ELSE turnTold[k]]
          /\ UNCHANGED <<handed, settledTold>>
      BY <1>7 DEF DecisionReport
    <2>2. TypeOK'
      BY <1>1, <1>2, <1>5, <2>1 DEF IInv, TypeOK, ledger, locks, history
    <2>3. \A k \in Orders : steps[k] = "pending" => turnTold'[k] # 0
      BY <1>5, <2>1 DEF IInv, TypeOK
    <2>4. UNCHANGED <<status, steps, died>>
      BY <1>1 DEF ledger
    <2>5. Reports'
      BY <1>1, <1>2, <1>7, <2>1, <2>3, <2>4 DEF IInv, Reports, Others
    <2>6. QED
      BY <1>3, <1>4, <2>2, <2>5 DEF IInv
  <1>8. QED
    BY <1>6, <1>7

\* A withdrawal that starts writes nothing else.
LEMMA CancelClickKeeps ==
  ASSUME IInv, NEW c \in Calls, NEW by \in {"requester", "system"}, CancelClick(c, by)
  PROVE  IInv'
  <1>1. /\ call[c].pc = "idle"
        /\ UNCHANGED <<ledger, locks, version, handed, notices, history, died>>
    BY DEF CancelClick
  <1>2. call' \in [Calls -> CallState] /\ call'[c].pc = "clock" /\ Others(c)
    BY CancelClickEffect DEF IInv
  <1>3. TypeOK'
    BY <1>1, <1>2 DEF IInv, TypeOK, ledger, locks, notices, history
  <1>4. LineIsWhole' /\ Turns' /\ RequiredFollowupIsMade' /\ ClickDecidesItsStep'
    BY <1>1, LedgerKept
  <1>5. LocksHold'
    BY <1>1, <1>2, LocksKept DEF locks
  <1>6. Reports'
    BY <1>1, <1>2, ReportsKept DEF ledger
  <1>7. QED
    BY <1>3, <1>4, <1>5, <1>6 DEF IInv

\* What a withdrawal writes when it is still allowed: every open step is skipped.
LEMMA CancelCommitEffect ==
  ASSUME TypeOK, NEW c \in Calls, CancelCommit(c)
  PROVE  /\ UNCHANGED <<current, who, required, selection, version, handed, turnTold,
                        settledTold, shown, reviewed, died>>
         /\ \/ UNCHANGED <<status, steps>> /\ Return(c)
            \/ /\ status = "pending" /\ status' = "canceled" /\ Goto(c, "told")
               /\ steps' = SkipRest(steps)
               /\ steps' \in [Orders -> StepStatus]
               /\ \A k \in Orders : steps'[k] = IF steps[k] \in {"waiting", "pending"}
                                               THEN "skipped" ELSE steps[k]
  <1>1. UNCHANGED <<current, who, required, selection, version, handed, turnTold,
                    settledTold, shown, reviewed, died>>
    BY DEF CancelCommit, notices, history
  <1>2. MayCancel(status, steps) \/ status = "pending" => status = "pending"
    BY DEF MayCancel, TypeOK, RequestStatus, Terminal
  <1>3. \/ UNCHANGED <<status, steps>> /\ Return(c)
        \/ /\ status = "pending" /\ status' = "canceled" /\ Goto(c, "told")
           /\ steps' = SkipRest(steps)
    BY <1>2 DEF CancelCommit
  <1>4. /\ SkipRest(steps) \in [Orders -> StepStatus]
        /\ \A k \in Orders : SkipRest(steps)[k] = IF steps[k] \in {"waiting", "pending"}
                                                  THEN "skipped" ELSE steps[k]
    BY DEF SkipRest, StepStatus, TypeOK
  <1>5. QED
    BY <1>1, <1>3, <1>4

\* A committed withdrawal skips the line and leaves its hooks to the call.
LEMMA CancelCommitKeeps ==
  ASSUME IInv, NEW c \in Calls, CancelCommit(c)
  PROVE  IInv'
  <1>1. /\ UNCHANGED <<current, who, required, selection, version, handed, turnTold,
                       settledTold, shown, reviewed, died>>
        /\ \/ UNCHANGED <<status, steps>> /\ Return(c)
           \/ /\ status = "pending" /\ status' = "canceled" /\ Goto(c, "told")
              /\ steps' \in [Orders -> StepStatus]
              /\ \A k \in Orders : steps'[k] = IF steps[k] \in {"waiting", "pending"}
                                              THEN "skipped" ELSE steps[k]
    BY CancelCommitEffect DEF IInv
  <1>2. call[c].pc = "close" /\ lock = c
    BY DEF CancelCommit, IInv, LocksHold, LockHolds
  <1>3. /\ lock' \in Calls \cup {None} /\ configLock' \in Calls \cup {None}
        /\ \A d \in Calls \ {c} : /\ lock = d => lock' = d
                                  /\ configLock = d => configLock' = d
    BY ReleaseEffect DEF CancelCommit, IInv
  <1>4. CASE UNCHANGED <<status, steps>> /\ Return(c)
    <2>1. call' \in [Calls -> CallState] /\ call'[c].pc = "idle" /\ Others(c)
      BY <1>4, ReturnEffect DEF IInv, TypeOK
    <2>2. UNCHANGED <<ledger, history, notices>>
      BY <1>1, <1>4 DEF ledger, history, notices
    <2>3. TypeOK'
      BY <1>1, <1>3, <1>4, <2>1 DEF IInv, TypeOK
    <2>4. LineIsWhole' /\ Turns' /\ RequiredFollowupIsMade' /\ ClickDecidesItsStep'
      BY <2>2, LedgerKept
    <2>5. LocksHold'
      BY <1>1, <1>3, <2>1, <2>2, LocksKept
    <2>6. Reports'
      BY <1>1, <1>2, <1>4, <2>1, <2>2, ReportsKept
    <2>7. QED
      BY <2>3, <2>4, <2>5, <2>6 DEF IInv
  <1>5. CASE /\ status = "pending" /\ status' = "canceled" /\ Goto(c, "told")
             /\ steps' \in [Orders -> StepStatus]
             /\ \A k \in Orders : steps'[k] = IF steps[k] \in {"waiting", "pending"}
                                             THEN "skipped" ELSE steps[k]
    <2>1. call' \in [Calls -> CallState] /\ call'[c].pc = "told" /\ Others(c)
      BY <1>5, GotoEffect DEF IInv, TypeOK, PC
    <2>2. TypeOK'
      BY <1>1, <1>3, <1>5, <2>1 DEF IInv, TypeOK, RequestStatus
    <2>3. Length' = Length /\ Length \in Nat /\ \A k \in 1..Length : k \in Orders
      BY <1>1, LengthIsAnOrder, LineConstants DEF Length, IInv
    <2>4. LineIsWhole'
      <3>1. Present(steps') = Present(steps)
        BY <1>5 DEF Present, IInv, TypeOK
      <3>2. Present(steps)' = Present(steps)
        BY <3>1 DEF Present
      <3>3. QED
        BY <1>1, <2>3, <3>2 DEF IInv, LineIsWhole
    <2>5. Turns'
      BY <1>5, <2>3 DEF IInv, Turns
    <2>6. LocksHold'
      <3>1. \A d \in Calls \ {c} : call'[d] = call[d] /\ lock # d /\ LockHolds(d)
        BY <1>2, <2>1 DEF Others, IInv, LocksHold
      <3>2. QED
        BY <2>1, <3>1 DEF LocksHold, LockHolds
    <2>7. RequiredFollowupIsMade'
      BY <1>5 DEF RequiredFollowupIsMade
    <2>8. ClickDecidesItsStep'
      BY <1>1, <1>5 DEF IInv, ClickDecidesItsStep, Decisions
    <2>9. Reports'
      <3>1. handed' = {} /\ settledTold' = 0 /\ status' \notin Decisions
        BY <1>1, <1>5 DEF IInv, Reports, Terminal, Decisions
      <3>2. \A k \in Orders : steps'[k] # "pending"
        BY <1>5
      <3>3. QED
        BY <1>5, <2>1, <3>1, <3>2 DEF Reports
    <2>10. QED
      BY <2>2, <2>4, <2>5, <2>6, <2>7, <2>8, <2>9 DEF IInv
  <1>6. QED
    BY <1>1, <1>4, <1>5

\* The hooks of a withdrawal get the withdrawal: nothing closes twice.
LEMMA CancelHooksKeeps ==
  ASSUME IInv, NEW c \in Calls, CancelHooks(c)
  PROVE  IInv'
  <1>1. /\ call[c].pc = "told" /\ Return(c) /\ handed' = handed \cup {status}
        /\ UNCHANGED <<ledger, locks, version, notices, history, died>>
    BY DEF CancelHooks
  <1>2. call' \in [Calls -> CallState] /\ call'[c].pc = "idle" /\ Others(c)
    BY <1>1, ReturnEffect DEF IInv, TypeOK
  <1>3. TypeOK'
    BY <1>1, <1>2 DEF IInv, TypeOK, ledger, locks, notices, history
  <1>4. LineIsWhole' /\ Turns' /\ RequiredFollowupIsMade' /\ ClickDecidesItsStep'
    BY <1>1, LedgerKept
  <1>5. LocksHold'
    BY <1>1, <1>2, LocksKept DEF locks
  <1>6. Reports'
    <2>1. status = "canceled" /\ handed' = {status}
      BY <1>1 DEF IInv, Reports
    <2>2. \A k \in Orders : steps[k] # "pending"
      BY <2>1, ClosedHasNoTurn DEF IInv
    <2>3. UNCHANGED <<status, steps, settledTold>>
      BY <1>1 DEF ledger, notices
    <2>4. status \in Terminal /\ status \notin Decisions
      BY <2>1 DEF Terminal, Decisions
    <2>5. QED
      BY <1>1, <1>2, <2>1, <2>2, <2>3, <2>4 DEF IInv, Reports, Others
  <1>7. QED
    BY <1>3, <1>4, <1>5, <1>6 DEF IInv

\* An administrator edits a line only while nobody is connecting one.
LEMMA EditLineKeeps ==
  ASSUME IInv, NEW l \in Lines, EditLine(l)
  PROVE  IInv'
  <1>1. /\ configLock = None /\ version[l] + 1 \in Versions
        /\ version' = [version EXCEPT ![l] = version[l] + 1]
        /\ UNCHANGED <<ledger, locks, call, handed, notices, history, died>>
    BY DEF EditLine
  <1>2. TypeOK'
    BY <1>1 DEF IInv, TypeOK, ledger, locks, notices, history
  <1>3. LineIsWhole' /\ Turns' /\ RequiredFollowupIsMade' /\ ClickDecidesItsStep'
    BY <1>1, LedgerKept
  <1>4. LocksHold'
    <2>1. SUFFICES ASSUME NEW d \in Calls
                   PROVE  LockHolds(d)'
      BY DEF LocksHold
    <2>2. LockHolds(d) /\ configLock # d /\ call'[d] = call[d]
      BY <1>1, LineConstants DEF IInv, LocksHold
    <2>3. Acceptable(d) => Acceptable(d)'
      BY <1>1, <2>2, AcceptableKept DEF Remembers
    <2>4. QED
      BY <1>1, <2>2, <2>3 DEF LockHolds, locks
  <1>5. Reports'
    BY <1>1 DEF IInv, Reports, ledger, notices
  <1>6. QED
    BY <1>2, <1>3, <1>4, <1>5 DEF IInv

\* A call that dies gives its locks back and writes nothing.
LEMMA DieKeeps ==
  ASSUME IInv, NEW c \in Calls, Die(c)
  PROVE  IInv'
  <1>1. /\ died' = TRUE /\ Return(c) /\ Release(c)
        /\ UNCHANGED <<ledger, version, handed, notices, history>>
    BY DEF Die
  <1>2. call' \in [Calls -> CallState] /\ call'[c].pc = "idle" /\ Others(c)
    BY <1>1, ReturnEffect DEF IInv, TypeOK
  <1>3. /\ lock' \in Calls \cup {None} /\ configLock' \in Calls \cup {None}
        /\ \A d \in Calls \ {c} : /\ lock = d => lock' = d
                                  /\ configLock = d => configLock' = d
    BY <1>1, ReleaseEffect DEF IInv
  <1>4. TypeOK'
    BY <1>1, <1>2, <1>3 DEF IInv, TypeOK, ledger, notices, history
  <1>5. LineIsWhole' /\ Turns' /\ RequiredFollowupIsMade' /\ ClickDecidesItsStep'
    BY <1>1, LedgerKept
  <1>6. LocksHold'
    BY <1>1, <1>2, <1>3, LocksKept
  <1>7. Reports'
    BY <1>1, <1>2 DEF IInv, Reports, Others, ledger, notices
  <1>8. QED
    BY <1>4, <1>5, <1>6, <1>7 DEF IInv

-----------------------------------------------------------------------------
(* The theorems.                                                           *)

\* A submitted request whose first approver was told.
LEMMA InitIInv == Init => IInv
  <1> SUFFICES ASSUME Init
               PROVE  IInv
    OBVIOUS
  <1>1. /\ status = "pending" /\ current = 1 /\ selection = None /\ lock = None
        /\ configLock = None /\ handed = {} /\ settledTold = 0
        /\ steps = OpenSteps(Orders, First)
        /\ \A c \in Calls : call[c].pc = "idle"
    BY DEF Init, Idle
  <1>2. /\ steps \in [Orders -> StepStatus]
        /\ \A k \in Orders : steps[k] = IF k <= First THEN IF k = 1 THEN "pending" ELSE "waiting"
                                                      ELSE "absent"
    BY <1>1 DEF OpenSteps, OpenedAs, StepStatus
  <1>3. TypeOK
    <2>1. Idle \in CallState
      BY LineConstants DEF Idle, CallState, PC, Choices, Decisions
    <2>2. who \in [Orders -> Approvers \cup {None}]
      <3>1. \A k \in Orders : k <= First => FirstLine[k] \in Approvers
        BY FollowupAssumption, LineConstants, ElementOfSeq DEF First
      <3>2. QED
        BY <3>1 DEF Init
    <2>3. /\ version \in [Lines -> Versions]
          /\ turnTold \in [Orders -> 0..2] /\ shown \in [Orders -> Orders \cup {0}]
          /\ reviewed \in [line : Lines \cup {None}, rev : Versions]
      BY LineConstants DEF Init
    <2>4. required \in BOOLEAN /\ died \in BOOLEAN
      BY Zenon DEF Init
    <2>5. call \in [Calls -> CallState]
      BY <2>1 DEF Init
    <2>6. QED
      BY <1>1, <1>2, <2>2, <2>3, <2>4, <2>5, LineConstants DEF TypeOK, RequestStatus
  <1>4. Length = First
    BY <1>1 DEF Length
  <1>5. LineIsWhole
    <2>1. Present(steps) = 1..First
      BY <1>2, LineConstants DEF Present
    <2>2. QED
      BY <1>1, <1>4, <2>1 DEF LineIsWhole
  <1>6. Turns
    BY <1>1, <1>2, <1>4, LineConstants DEF Turns
  <1>7. LocksHold
    BY <1>1 DEF LocksHold, LockHolds
  <1>8. Reports
    <2>1. \A k \in Orders : steps[k] = "pending" => turnTold[k] # 0
      BY <1>2 DEF Init
    <2>2. QED
      BY <1>1, <2>1 DEF Reports, Decisions, Terminal
  <1>9. RequiredFollowupIsMade /\ ClickDecidesItsStep
    BY <1>1, <1>2 DEF Init, RequiredFollowupIsMade, ClickDecidesItsStep, Decisions
  <1>10. QED
    BY <1>3, <1>5, <1>6, <1>7, <1>8, <1>9 DEF IInv

\* One step of any call, of an administrator or of a failure.
LEMMA NextIInv == IInv /\ [Next]_vars => IInv'
  <1> SUFFICES ASSUME IInv, [Next]_vars
               PROVE  IInv'
    OBVIOUS
  <1>1. ASSUME NEW c \in Calls, Decision(c)
        PROVE  IInv'
    BY <1>1, ClickKeeps, LockRequestKeeps, DecisionJudgeKeeps, DecisionConnectKeeps,
       DecisionCommitKeeps, DecisionReportKeeps DEF Decision
  <1>2. ASSUME NEW c \in Calls, Cancel(c)
        PROVE  IInv'
    BY <1>2, CancelClickKeeps, LockRequestKeeps, CancelCommitKeeps, CancelHooksKeeps
       DEF Cancel
  <1>3. ASSUME NEW c \in Calls, Die(c)
        PROVE  IInv'
    BY <1>3, DieKeeps
  <1>4. ASSUME NEW l \in Lines, EditLine(l)
        PROVE  IInv'
    BY <1>4, EditLineKeeps
  <1>5. CASE UNCHANGED vars
    <2>1. UNCHANGED <<ledger, locks, version, call, handed, notices, history, died>>
      BY <1>5 DEF vars, ledger, locks, notices, history
    <2>2. TypeOK'
      BY <1>5 DEF vars, IInv, TypeOK
    <2>3. LineIsWhole' /\ Turns' /\ RequiredFollowupIsMade' /\ ClickDecidesItsStep'
      BY <2>1, LedgerKept
    <2>4. LocksHold'
      <3>1. ASSUME NEW d \in Calls
            PROVE  LockHolds(d)'
        <4>1. LockHolds(d)
          BY DEF IInv, LocksHold
        <4>2. Acceptable(d) => Acceptable(d)'
          BY <2>1, AcceptableKept DEF Remembers
        <4>3. QED
          BY <2>1, <4>1, <4>2 DEF LockHolds, locks
      <3>2. QED
        BY <3>1 DEF LocksHold
    <2>5. Reports'
      BY <2>1 DEF IInv, Reports, ledger, notices
    <2>6. QED
      BY <2>2, <2>3, <2>4, <2>5 DEF IInv
  <1>6. QED
    BY <1>1, <1>2, <1>3, <1>4, <1>5 DEF Next

\* What a call judged under its locks is true when it commits, however many
\* decisions, withdrawals and edits of a line run beside it.
THEOREM Invariance == Spec => []IInv
  BY InitIInv, NextIInv, PTL DEF Spec

\* Every state is one the ledger and the handlers can name.
THEOREM TypeCorrect == Spec => []TypeOK
  <1>1. IInv => TypeOK
    BY DEF IInv
  <1>2. QED
    BY <1>1, Invariance, PTL

\* A request whose form demands a follow-up line is never approved without one.
THEOREM FollowupIsMade == Spec => []RequiredFollowupIsMade
  <1>1. IInv => RequiredFollowupIsMade
    BY DEF IInv
  <1>2. QED
    BY <1>1, Invariance, PTL

\* expected_step_order keeps a second click off the next turn of the same person.
THEOREM ClicksLandWhereMeant == Spec => []ClickDecidesItsStep
  <1>1. IInv => ClickDecidesItsStep
    BY DEF IInv
  <1>2. QED
    BY <1>1, Invariance, PTL

\* The line behind the first is, approver by approver, the edit that was shown.
THEOREM PreviewIsConnected == Spec => []PreviewedLineIsConnected
  <1>1. IInv => PreviewedLineIsConnected
    BY DEF IInv, LineIsWhole, Length, PreviewedLineIsConnected
  <1>2. QED
    BY <1>1, Invariance, PTL

\* Once no call is in progress and none died, whoever has the turn was told, the
\* hooks had the outcome and the requester heard of a decision.
THEOREM QuietIsReported == Spec => []QuietRequestIsReported
  <1>1. IInv => QuietRequestIsReported
    <2> SUFFICES ASSUME IInv, AllIdle, ~died
                 PROVE  /\ status = "pending" =>
                             \A k \in Orders : steps[k] = "pending" => turnTold[k] >= 1
                        /\ status \in Terminal => handed = {status}
                        /\ status \in Decisions <=> settledTold >= 1
      BY DEF QuietRequestIsReported
    <2>1. \A c \in Calls : call[c].pc \notin {"report", "told"}
      BY DEF AllIdle
    <2>2. settledTold \in 0..2 /\ turnTold \in [Orders -> 0..2]
      BY DEF IInv, TypeOK
    <2>3. \A k \in Orders : steps[k] = "pending" => turnTold[k] # 0
      BY <2>1 DEF IInv, Reports
    <2>4. status \in Terminal => handed = {status}
      BY <2>1 DEF IInv, Reports, Terminal, Decisions
    <2>5. status \in Decisions <=> settledTold # 0
      BY <2>1 DEF IInv, Reports
    <2>6. QED
      BY <2>2, <2>3, <2>4, <2>5
  <1>2. QED
    BY <1>1, Invariance, PTL

-----------------------------------------------------------------------------
(* The ledger implements ApprovalRequest.                                  *)

\* The rows of the ledger as the abstract request's line.
Rows == [k \in 1..Length |-> steps[k]]

\* Counting the rows gives the length of the line.
LEMMA RowsAreTheLine ==
  ASSUME NEW s, NEW m \in Nat, Present(s) = 1..m
  PROVE  [k \in 1..Cardinality(Present(s)) |-> s[k]] = [k \in 1..m |-> s[k]]
  <1>1. Cardinality(1..m) = m
    BY FS_Interval
  <1>2. QED
    BY <1>1

\* The submitted line is the abstract request's first line.
LEMMA InitRefines == Init => Request!Init
  <1> SUFFICES ASSUME Init
               PROVE  Request!Init
    OBVIOUS
  <1>1. LineIsWhole /\ TypeOK /\ Length = First /\ status = "pending"
    BY InitIInv DEF IInv, Init, Length
  <1>2. [k \in 1..Cardinality(Present(steps)) |-> steps[k]] = [k \in 1..First |-> steps[k]]
    BY <1>1, RowsAreTheLine, LineConstants DEF LineIsWhole
  <1>3. [k \in 1..First |-> steps[k]] = [k \in 1..First |-> IF k = 1 THEN "pending" ELSE "waiting"]
    BY LineConstants DEF Init, OpenSteps, OpenedAs
  <1>4. QED
    BY <1>1, <1>2, <1>3 DEF Request!Init, Request!Opened, First

\* The first m orders of the ledger, read as a sequence.
LEMMA RowsAreASequence ==
  ASSUME NEW s \in [Orders -> StepStatus], NEW m \in Nat, \A k \in 1..m : k \in Orders
  PROVE  LET r == [k \in 1..m |-> s[k]]
         IN  /\ r \in Seq(StepStatus) /\ Len(r) = m /\ DOMAIN r = 1..m
             /\ \A k \in 1..m : r[k] = s[k]
  <1> DEFINE r == [k \in 1..m |-> s[k]]
  <1>1. r \in [1..m -> StepStatus] /\ DOMAIN r = 1..m /\ \A k \in 1..m : r[k] = s[k]
    OBVIOUS
  <1> HIDE DEF r
  <1>2. r \in Seq(StepStatus) /\ Len(r) = m
    BY <1>1
  <1>3. QED
    BY <1>1, <1>2 DEF r

\* The line fits the ledger ...
LEMMA LengthFits ==
  TypeOK /\ LineIsWhole => Length \in Nat /\ \A k \in 1..Length : k \in Orders
  BY LengthIsAnOrder, LineConstants

\* ... and after a step.
LEMMA LengthFitsNext ==
  (TypeOK /\ LineIsWhole)' => (Length \in Nat /\ \A k \in 1..Length : k \in Orders)'
  BY LengthFits, PTL

\* The abstract line of a state.
LEMMA RowsOfState ==
  ASSUME IInv
  PROVE  /\ [k \in 1..Cardinality(Present(steps)) |-> steps[k]] = Rows
         /\ DOMAIN Rows = 1..Length
         /\ \A k \in 1..Length : Rows[k] = steps[k]
  <1>1. Length \in Nat /\ Present(steps) = 1..Length
    BY LengthFits DEF IInv, LineIsWhole
  <1>2. QED
    BY <1>1, RowsAreTheLine DEF Rows

\* The abstract line before and after a step.
LEMMA RowsRefine ==
  ASSUME IInv, IInv'
  PROVE  /\ [k \in 1..Cardinality(Present(steps)) |-> steps[k]] = Rows
         /\ [k \in 1..Cardinality(Present(steps')) |-> steps'[k]] = Rows'
         /\ Length \in Nat /\ Length' \in Nat
         /\ \A k \in 1..Length : k \in Orders
         /\ \A k \in 1..Length' : k \in Orders
         /\ Rows \in Seq(StepStatus) /\ Len(Rows) = Length /\ DOMAIN Rows = 1..Length
         /\ \A k \in 1..Length : Rows[k] = steps[k]
         /\ Rows' \in Seq(StepStatus) /\ Len(Rows') = Length' /\ DOMAIN Rows' = 1..Length'
         /\ \A k \in 1..Length' : Rows'[k] = steps'[k]
  <1>1. Length \in Nat /\ \A k \in 1..Length : k \in Orders
    BY LengthIsAnOrder, LineConstants DEF IInv
  <1>2. Length' \in Nat /\ \A k \in 1..Length' : k \in Orders
    BY LengthFitsNext DEF IInv
  <1>3. Rows = [k \in 1..Length |-> steps[k]] /\ Rows' = [k \in 1..Length' |-> steps'[k]]
    BY DEF Rows
  <1>4. Present(steps) = 1..Length /\ Present(steps') = 1..Length'
    BY DEF IInv, LineIsWhole, Present
  <1>5. steps \in [Orders -> StepStatus] /\ steps' \in [Orders -> StepStatus]
    BY DEF IInv, TypeOK
  <1>6. /\ [k \in 1..Cardinality(Present(steps)) |-> steps[k]] = Rows
        /\ [k \in 1..Cardinality(Present(steps')) |-> steps'[k]] = Rows'
    BY <1>1, <1>2, <1>3, <1>4, RowsAreTheLine
  <1>7. /\ Rows \in Seq(StepStatus) /\ Len(Rows) = Length /\ DOMAIN Rows = 1..Length
        /\ \A k \in 1..Length : Rows[k] = steps[k]
    BY <1>1, <1>3, <1>5, RowsAreASequence
  <1>8. /\ Rows' \in Seq(StepStatus) /\ Len(Rows') = Length' /\ DOMAIN Rows' = 1..Length'
        /\ \A k \in 1..Length' : Rows'[k] = steps'[k]
    BY <1>2, <1>3, <1>5, RowsAreASequence
  <1>9. QED
    BY <1>1, <1>2, <1>6, <1>7, <1>8

\* A step that writes no step and no status is not seen in the abstract line.
LEMMA Stutters ==
  ASSUME IInv, IInv', UNCHANGED <<status, steps>>
  PROVE  UNCHANGED Request!vars
  BY Zenon DEF Request!vars

\* A withdrawal is one step of the abstract request.
LEMMA WithdrawalRefines ==
  ASSUME IInv, IInv', status = "pending", status' = "canceled", Length' = Length,
         \A k \in 1..Length : steps'[k] = IF steps[k] \in {"waiting", "pending"}
                                          THEN "skipped" ELSE steps[k]
  PROVE  Request!SystemWithdraw
  <1>1. Rows' = [k \in DOMAIN Rows |-> IF Rows[k] \in {"waiting", "pending"}
                                       THEN "skipped" ELSE Rows[k]]
    <2>1. Rows' = [k \in 1..Length |-> steps'[k]]
      BY DEF Rows
    <2>2. QED
      BY <2>1, RowsRefine
  <1>2. QED
    BY <1>1, RowsRefine DEF Request!SystemWithdraw, Request!Skipped

\* A rejection closes the whole line at once.
LEMMA RejectionRefines ==
  ASSUME IInv, IInv', status = "pending", status' = "rejected", Length' = Length,
         NEW turn \in 1..Length, steps[turn] = "pending",
         \A k \in 1..Length : steps'[k] = IF k = turn THEN "rejected"
                                          ELSE IF steps[k] \in {"waiting", "pending"}
                                          THEN "skipped" ELSE steps[k]
  PROVE  Request!Reject(turn)
  <1> DEFINE marked == [Rows EXCEPT ![turn] = "rejected"]
  <1>1. /\ DOMAIN Rows = 1..Length /\ \A k \in 1..Length : Rows[k] = steps[k]
        /\ Rows' = [k \in 1..Length |-> steps'[k]]
    BY RowsRefine DEF Rows
  <1>2. DOMAIN marked = 1..Length /\ \A k \in 1..Length :
          marked[k] = IF k = turn THEN "rejected" ELSE steps[k]
    BY <1>1
  <1> HIDE DEF marked
  <1>3. Rows' = [k \in DOMAIN marked |-> IF marked[k] \in {"waiting", "pending"}
                                         THEN "skipped" ELSE marked[k]]
    BY <1>1, <1>2
  <1>4. turn \in DOMAIN Rows /\ Rows[turn] = "pending"
    BY <1>1
  <1>5. QED
    BY <1>3, <1>4, RowsRefine DEF Request!Reject, Request!HasTurn, Request!Skipped, marked

\* The last approval closes the request, any other one passes the turn on.
LEMMA ApprovalRefines ==
  ASSUME IInv, IInv', status = "pending", Length' = Length,
         NEW turn \in 1..Length, steps[turn] = "pending",
         status' = IF turn = Length THEN "approved" ELSE "pending",
         \A k \in 1..Length : steps'[k] = IF k = turn THEN "approved"
                                          ELSE IF k = turn + 1 THEN "pending" ELSE steps[k]
  PROVE  Request!Finish(turn) \/ Request!PassOn(turn)
  <1>1. /\ DOMAIN Rows = 1..Length /\ \A k \in 1..Length : Rows[k] = steps[k]
        /\ Rows = [k \in 1..Length |-> steps[k]] /\ Rows' = [k \in 1..Length |-> steps'[k]]
        /\ Length \in Nat /\ Len(Rows) = Length
    BY RowsRefine DEF Rows
  <1>2. turn \in DOMAIN Rows /\ Rows[turn] = "pending" /\ turn \in Nat
    BY <1>1
  <1>3. CASE turn = Length
    <2>1. Rows' = [Rows EXCEPT ![turn] = "approved"]
      BY <1>1, <1>3
    <2>2. QED
      BY <1>1, <1>2, <1>3, <2>1, RowsRefine DEF Request!Finish, Request!HasTurn
  <1>4. CASE turn # Length
    <2>1. turn < Length
      BY <1>1, <1>4
    <2>2. Rows' = [Rows EXCEPT ![turn] = "approved", ![turn + 1] = "pending"]
      BY <1>1, <2>1
    <2>3. UNCHANGED status
      BY <1>4
    <2>4. QED
      BY <1>1, <1>2, <2>1, <2>2, <2>3, RowsRefine DEF Request!PassOn, Request!HasTurn
  <1>5. QED
    BY <1>3, <1>4

\* A connected line stands behind the first, and its first approver has the turn.
LEMMA ConnectionRefines ==
  ASSUME IInv, IInv', UNCHANGED status, status = "pending", Length = First,
         steps[First] = "pending", NEW n \in Nat \ {0}, Length' = First + n,
         \A k \in 1..Length' : steps'[k] = IF k = First THEN "approved"
                                           ELSE IF k = First + 1 THEN "pending"
                                           ELSE IF k > First THEN "waiting" ELSE steps[k]
  PROVE  Request!Connect(First, n)
  <1> DEFINE opened == [k \in 1..n |-> IF k = 1 THEN "pending" ELSE "waiting"]
             marked == [Rows EXCEPT ![First] = "approved"]
  <1>1. /\ Rows \in Seq(StepStatus) /\ DOMAIN Rows = 1..First
        /\ \A k \in 1..First : Rows[k] = steps[k]
        /\ Rows' \in Seq(StepStatus) /\ Len(Rows') = First + n
        /\ \A k \in 1..(First + n) : Rows'[k] = steps'[k]
        /\ First \in Nat /\ First >= 1 /\ Len(Rows) = First
    BY RowsRefine, LineConstants
  <1>2. /\ marked \in Seq(StepStatus) /\ Len(marked) = First
        /\ \A k \in 1..First : marked[k] = IF k = First THEN "approved" ELSE steps[k]
    <2>1. First \in 1..Len(Rows) /\ "approved" \in StepStatus
      BY <1>1 DEF StepStatus
    <2>2. marked \in Seq(StepStatus) /\ Len(marked) = Len(Rows)
      BY <1>1, <2>1, ExceptSeq
    <2>3. QED
      BY <1>1, <2>2
  <1>3. /\ opened \in Seq(StepStatus) /\ Len(opened) = n
        /\ \A k \in 1..n : opened[k] = IF k = 1 THEN "pending" ELSE "waiting"
    <2>1. opened \in [1..n -> StepStatus]
      BY DEF StepStatus
    <2>2. QED
      BY <2>1
  <1> HIDE DEF marked, opened
  <1>4. /\ marked \o opened \in Seq(StepStatus) /\ Len(marked \o opened) = First + n
        /\ \A k \in 1..(First + n) :
             (marked \o opened)[k] = IF k <= First THEN marked[k] ELSE opened[k - First]
    <2>1. marked \in Seq(StepStatus) /\ opened \in Seq(StepStatus)
      BY <1>2, <1>3
    <2>2. /\ marked \o opened \in Seq(StepStatus)
          /\ Len(marked \o opened) = Len(marked) + Len(opened)
          /\ \A k \in 1..(Len(marked) + Len(opened)) :
               (marked \o opened)[k] = IF k <= Len(marked) THEN marked[k] ELSE opened[k - Len(marked)]
      BY <2>1, ConcatProperties
    <2>3. Len(marked) = First /\ Len(opened) = n
      BY <1>2, <1>3
    <2>4. QED
      BY <2>2, <2>3
  <1> DEFINE joined == marked \o opened
  <1>5. /\ joined \in Seq(StepStatus) /\ Len(joined) = First + n
        /\ \A k \in 1..(First + n) :
             joined[k] = IF k <= First THEN marked[k] ELSE opened[k - First]
    BY <1>4
  <1> HIDE DEF joined
  <1>6. ASSUME NEW k \in 1..(First + n)
        PROVE  Rows'[k] = joined[k]
    <2>1. /\ Rows'[k] = steps'[k]
          /\ steps'[k] = IF k = First THEN "approved" ELSE IF k = First + 1 THEN "pending"
                         ELSE IF k > First THEN "waiting" ELSE steps[k]
          /\ joined[k] = IF k <= First THEN marked[k] ELSE opened[k - First]
          /\ k \in Nat /\ First \in Nat /\ n \in Nat
      BY <1>1, <1>5
    <2>2. CASE k <= First
      <3>1. k \in 1..First
        BY <2>1, <2>2
      <3>2. marked[k] = IF k = First THEN "approved" ELSE steps[k]
        BY <1>2, <3>1
      <3>3. QED
        BY <2>1, <2>2, <3>2
    <2>3. CASE k > First
      <3>1. k - First \in 1..n /\ (k - First = 1 <=> k = First + 1)
        BY <2>1, <2>3
      <3>2. opened[k - First] = IF k = First + 1 THEN "pending" ELSE "waiting"
        BY <1>3, <3>1
      <3>3. QED
        BY <2>1, <2>3, <3>2
    <2>4. QED
      BY <2>1, <2>2, <2>3
  <1>7. Rows' = marked \o opened
    BY <1>1, <1>6, <1>5, SeqEqual DEF joined
  <1>8. First \in DOMAIN Rows /\ Rows[First] = "pending"
    BY <1>1
  <1>9. QED
    BY <1>1, <1>7, <1>8, RowsRefine
       DEF Request!Connect, Request!HasTurn, Request!Opened, First, marked, opened

\* Whoever has the turn moves the abstract request.
LEMMA TurnMoves ==
  ASSUME NEW k \in DOMAIN [j \in 1..Cardinality(Present(steps)) |-> steps[j]],
         \/ Request!PassOn(k) \/ Request!Finish(k) \/ Request!Reject(k)
         \/ \E n \in {Len(LineSteps[l][v]) : l \in Lines, v \in Versions} \ {0} :
              Request!Connect(k, n)
  PROVE  Request!Next
  BY DEF Request!Next
\* The commit of a decision is a rejection, an approval or a connection.
LEMMA DecisionCommitRefines ==
  ASSUME IInv, IInv', NEW c \in Calls, DecisionCommit(c)
  PROVE  Request!Next
  <1> DEFINE chosen == call[c].choice
             action == call[c].action
  <1>1. /\ status = "pending" /\ current \in 1..Length /\ action \in Decisions
        /\ chosen \in Lines => action = "approved" /\ current = First /\ Length = First
    BY JudgedIsTrue DEF IInv, DecisionCommit
  <1>2. /\ chosen \in Lines => Length' = First + Len(LineSteps[chosen][call[c].rev])
        /\ chosen \in Lines => Length' > First
        /\ chosen \notin Lines => Length' = Length
        /\ status' = IF action = "rejected" THEN "rejected"
                     ELSE IF current = Length' THEN "approved" ELSE "pending"
        /\ \A k \in Orders :
             steps'[k] = IF k = current THEN action
                         ELSE IF current < k /\ k <= Length'
                              THEN IF action = "rejected" THEN "skipped"
                                   ELSE IF k = current + 1 THEN "pending" ELSE "waiting"
                         ELSE steps[k]
    BY CommitEffect DEF IInv
  <1>3. /\ Length \in Nat /\ Length' \in Nat /\ DOMAIN Rows = 1..Length
        /\ \A k \in 1..Length : k \in Orders
        /\ \A k \in 1..Length' : k \in Orders
    BY RowsRefine
  <1>4. \A k \in 1..Length :
          steps[k] = IF k < current THEN "approved"
                     ELSE IF k = current THEN "pending" ELSE "waiting"
    BY <1>1 DEF IInv, Turns
  <1>5. PICK turn \in 1..Length : turn = current
    BY <1>1
  <1>6. steps[turn] = "pending"
    BY <1>1, <1>4, <1>5
  <1>7. turn \in DOMAIN [k \in 1..Cardinality(Present(steps)) |-> steps[k]]
    <2>1. turn \in DOMAIN Rows
      BY <1>3
    <2>2. QED
      BY <2>1, RowsRefine, Zenon
  <1> HIDE DEF chosen, action
  <1>8. CASE action = "rejected"
    <2>1. chosen \notin Lines /\ Length' = Length /\ status' = "rejected"
      BY <1>1, <1>2, <1>8
    <2>2. \A k \in 1..Length : steps'[k] = IF k = turn THEN "rejected"
                                          ELSE IF steps[k] \in {"waiting", "pending"}
                                          THEN "skipped" ELSE steps[k]
      BY <1>1, <1>2, <1>3, <1>4, <1>8, <1>5, <2>1
    <2>3. Request!Reject(turn)
      BY <1>1, <1>6, <2>1, <2>2, RejectionRefines
    <2>4. QED
      BY <1>7, <2>3, TurnMoves
  <1>9. CASE action = "approved" /\ chosen \notin Lines
    <2>1. Length' = Length /\ status' = IF turn = Length THEN "approved" ELSE "pending"
      BY <1>2, <1>9, <1>5
    <2>2. \A k \in 1..Length : steps'[k] = IF k = turn THEN "approved"
                                          ELSE IF k = turn + 1 THEN "pending" ELSE steps[k]
      BY <1>1, <1>2, <1>3, <1>4, <1>9, <1>5, <2>1
    <2>3. Request!Finish(turn) \/ Request!PassOn(turn)
      BY <1>1, <1>6, <2>1, <2>2, ApprovalRefines
    <2>4. QED
      BY <1>7, <2>3, TurnMoves
  <1>10. CASE chosen \in Lines
    <2>1. call[c].rev \in Versions
      BY DEF IInv, TypeOK, CallState
    <2>2. Len(LineSteps[chosen][call[c].rev]) \in Nat \ {0}
      BY <1>1, <1>2, <1>10, <2>1, EditedLine, LineConstants
    <2>3. PICK n \in Nat \ {0} : n = Len(LineSteps[chosen][call[c].rev])
      BY <2>2
    <2>4. n \in {Len(LineSteps[l][v]) : l \in Lines, v \in Versions} \ {0}
      BY <1>10, <2>1, <2>3
    <2>5. /\ action = "approved" /\ Length = First /\ turn = First /\ current = First
          /\ Length' = First + n /\ current # Length'
      BY <1>1, <1>2, <1>10, <1>5, <2>3, LineConstants
    <2>6. UNCHANGED status
      BY <1>1, <1>2, <2>5
    <2>7. \A k \in 1..Length' : steps'[k] = IF k = First THEN "approved"
                                           ELSE IF k = First + 1 THEN "pending"
                                           ELSE IF k > First THEN "waiting" ELSE steps[k]
      <3>1. \A k \in 1..Length' :
              steps'[k] = IF k = current THEN "approved"
                          ELSE IF current < k /\ k <= Length'
                               THEN IF k = current + 1 THEN "pending" ELSE "waiting"
                          ELSE steps[k]
        BY <1>2, <1>3, <2>5
      <3>2. QED
        BY <1>3, <2>5, <3>1, LineConstants
    <2>8. Request!Connect(First, n)
      BY <1>1, <1>6, <2>3, <2>5, <2>6, <2>7, ConnectionRefines
    <2>9. First \in DOMAIN [k \in 1..Cardinality(Present(steps)) |-> steps[k]]
      BY <1>7, <2>5
    <2>10. QED
      BY <2>4, <2>8, <2>9, TurnMoves
  <1>11. QED
    BY <1>1, <1>8, <1>9, <1>10 DEF Decisions

\* Every other step leaves the line as it is.
LEMMA StepRefines == IInv /\ IInv' /\ [Next]_vars => [Request!Next]_(Request!vars)
  <1> SUFFICES ASSUME IInv, IInv', [Next]_vars
               PROVE  Request!Next \/ UNCHANGED Request!vars
    OBVIOUS
  <1>1. ASSUME NEW c \in Calls, CancelCommit(c)
        PROVE  Request!Next \/ UNCHANGED Request!vars
    <2>1. /\ UNCHANGED <<selection, reviewed>>
          /\ \/ UNCHANGED <<status, steps>>
             \/ /\ status = "pending" /\ status' = "canceled"
                /\ \A k \in Orders : steps'[k] = IF steps[k] \in {"waiting", "pending"}
                                                 THEN "skipped" ELSE steps[k]
      BY <1>1, CancelCommitEffect DEF IInv
    <2>2. Length' = Length
      BY <2>1 DEF Length
    <2>3. CASE UNCHANGED <<status, steps>>
      BY <2>3, Stutters
    <2>4. CASE /\ status = "pending" /\ status' = "canceled"
               /\ \A k \in Orders : steps'[k] = IF steps[k] \in {"waiting", "pending"}
                                                THEN "skipped" ELSE steps[k]
      <3>1. Request!SystemWithdraw
        BY <2>2, <2>4, RowsRefine, WithdrawalRefines
      <3>2. QED
        BY <3>1 DEF Request!Next
    <2>5. QED
      BY <2>1, <2>3, <2>4
  <1>2. ASSUME NEW c \in Calls, DecisionCommit(c)
        PROVE  Request!Next \/ UNCHANGED Request!vars
    BY <1>2, DecisionCommitRefines
  <1>3. ASSUME NEW c \in Calls, Decision(c), ~DecisionCommit(c)
        PROVE  Request!Next \/ UNCHANGED Request!vars
    <2>1. UNCHANGED <<status, steps>>
      BY <1>3 DEF Decision, Click, LockRequest, DecisionJudge, DecisionConnect, DecisionReport,
                  ledger
    <2>2. QED
      BY <2>1, Stutters
  <1>4. ASSUME NEW c \in Calls, Cancel(c), ~CancelCommit(c)
        PROVE  Request!Next \/ UNCHANGED Request!vars
    <2>1. UNCHANGED <<status, steps>>
      BY <1>4 DEF Cancel, CancelClick, LockRequest, CancelHooks, ledger
    <2>2. QED
      BY <2>1, Stutters
  <1>5. CASE \/ \E c \in Calls : Die(c)
             \/ \E l \in Lines : EditLine(l)
             \/ UNCHANGED vars
    <2>1. UNCHANGED <<status, steps>>
      BY <1>5 DEF Die, EditLine, ledger, vars
    <2>2. QED
      BY <2>1, Stutters
  <1>6. QED
    BY <1>1, <1>2, <1>3, <1>4, <1>5 DEF Next

\* The ledger is an abstract request at every moment: decisions, withdrawals and
\* connections of a line each show up as one step of it, and an open request is a run
\* of approvals, one turn and a run that waits.
THEOREM RefinesRequest == Spec => IsARequest
  <1>1. IInv => Request!OneTurn
    <2> SUFFICES ASSUME IInv, status = "pending"
                 PROVE  \E k \in DOMAIN Rows :
                          /\ Rows[k] = "pending"
                          /\ \A j \in DOMAIN Rows : j < k => Rows[j] = "approved"
                          /\ \A j \in DOMAIN Rows : j > k => Rows[j] = "waiting"
      BY RowsOfState DEF Request!OneTurn
    <2>1. DOMAIN Rows = 1..Length /\ \A k \in 1..Length : Rows[k] = steps[k]
      BY RowsOfState
    <2>2. current \in 1..Length
      BY LineConstants DEF IInv, TypeOK, Turns
    <2>3. \A k \in 1..Length :
            steps[k] = IF k < current THEN "approved"
                       ELSE IF k = current THEN "pending" ELSE "waiting"
      BY DEF IInv, Turns
    <2>4. QED
      BY <2>1, <2>2, <2>3
  <1>2. IInv => Request!ClosedLine
    <2> SUFFICES ASSUME IInv
                 PROVE  /\ status # "pending" =>
                             \A k \in DOMAIN Rows : Rows[k] \notin {"waiting", "pending"}
                        /\ status = "approved" => \A k \in DOMAIN Rows : Rows[k] = "approved"
                        /\ status = "rejected" => \E k \in DOMAIN Rows : Rows[k] = "rejected"
      BY RowsOfState DEF Request!ClosedLine
    <2>1. DOMAIN Rows = 1..Length /\ \A k \in 1..Length : Rows[k] = steps[k]
      BY RowsOfState
    <2>2. QED
      BY <2>1 DEF IInv, Turns
  <1>3. QED
    BY <1>1, <1>2, InitRefines, StepRefines, Invariance, PTL DEF Spec, IsARequest, Request!Spec
=============================================================================
