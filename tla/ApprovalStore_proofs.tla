------------------------ MODULE ApprovalStore_proofs ------------------------
(***************************************************************************)
(* Proofs about ApprovalStore for a line of any length and any set of      *)
(* calls.  LineOrder is not inductive by itself: a call that is about to   *)
(* move the request or to open the next step acts on what it read before.  *)
(* IInv says what is still true of that when the call acts on it.          *)
(***************************************************************************)
EXTENDS ApprovalStore, TLAPS

\* A call decides or withdraws as it was asked to when it began.
VerbFits ==
  \A c \in Calls :
    /\ call[c].pc \in {"check", "mark"} => call[c].verb \in Decisions
    /\ call[c].pc \in {"recheck", "skip", "close"} => call[c].verb \in {"requester", "system"}

\* The steps that have a row are the first ones of the line.
RowsAreAPrefix ==
  \A j, k \in Orders : j < k /\ steps[k] # "absent" => steps[j] # "absent"

\* Before the request row there is nothing; a single call inserts the steps.
Insertion ==
  /\ status = "none" => /\ \A c \in Calls : call[c].pc = "idle"
                        /\ \A k \in Orders : steps[k] = "absent"
  /\ \A c \in Calls : call[c].pc = "insert" =>
       /\ \A j \in Orders : j < call[c].step <=> steps[j] # "absent"
       /\ \A d \in Calls : call[d].pc = "insert" => d = c

\* A call that is not early found every step in the ledger.
LineWasComplete ==
  ~early => \A c \in Calls : call[c].pc \notin {"idle", "insert", "announce"} =>
              \A k \in Orders : steps[k] # "absent"

\* What a call computed from the steps stays true: decisions are not undone.
VerdictHolds ==
  \A c \in Calls : call[c].pc \in {"move", "effect"} =>
    LET verdict == call[c].verdict
    IN  /\ verdict.status \in {"pending", "approved", "rejected"}
        /\ verdict.status = "rejected" => \E k \in Orders : steps[k] = "rejected"
        /\ verdict.status = "approved" /\ ~early => steps[N] = "approved"
        /\ verdict.status = "pending" =>
             \E k \in Orders : verdict.current = k + 1 /\ steps[k] = "approved"

\* The call that closed the request finds it closed the same way.
ClosedAsDecided ==
  \A c \in Calls :
    /\ call[c].pc \in {"effect", "hooks", "tell"} /\ call[c].verdict.status # "pending" =>
         status = call[c].verdict.status /\ status \in Decisions
    /\ call[c].pc = "hooks" => call[c].verdict.status # "pending"
    /\ call[c].pc = "cleanup" => status \in Terminal

IInv ==
  /\ TypeOK
  /\ VerbFits
  /\ RowsAreAPrefix
  /\ Insertion
  /\ LineWasComplete
  /\ VerdictHolds
  /\ ClosedAsDecided
  /\ LineOrder
  /\ OutcomeHasItsDecisions
  /\ HooksSeeTheOutcome

-----------------------------------------------------------------------------
(* Lemmas about the engine's operators.                                    *)

\* Least of a set of orders is its smallest member (the "later[0]" of engine.py).
LEMMA LeastIsLeast ==
  ASSUME NEW S \in SUBSET Int, NEW k \in S, \A j \in S : k <= j
  PROVE  Least(S) = k
  <1>1. \E m \in S : \A j \in S : m <= j
    OBVIOUS
  <1>2. Least(S) \in S /\ \A j \in S : Least(S) <= j
    BY <1>1, Zenon DEF Least
  <1>3. \A m \in S : (\A j \in S : m <= j) => m = k
    OBVIOUS
  <1>4. QED
    BY <1>2, <1>3

\* Skipping the rest of a line (a rejection, a withdrawal) touches only the
\* steps that are open: no row appears or goes, no decision changes.
LEMMA SkipRestKeepsDecisions ==
  ASSUME NEW s \in [Orders -> StepStatus]
  PROVE  /\ SkipRest(s) \in [Orders -> StepStatus]
         /\ \A k \in Orders : SkipRest(s)[k] = IF s[k] \in {"waiting", "pending"}
                                               THEN "skipped" ELSE s[k]
  BY DEF SkipRest, StepStatus

\* What engine.advance concludes from a line whose rows are its first ones.
LEMMA AdvanceConcludes ==
  ASSUME NEW s \in [Orders -> StepStatus], NEW cur \in Orders,
         \A j, k \in Orders : j < k /\ s[k] # "absent" => s[j] # "absent"
  PROVE  LET v == Advance(s, cur)
         IN  /\ v \in Row
             /\ v.status \in {"pending", "approved", "rejected"}
             /\ v.status = "rejected" => \E k \in Orders : s[k] = "rejected"
             /\ v.status = "approved" =>
                  s[cur] = "approved" /\ \A k \in Orders : k > cur => s[k] = "absent"
             /\ v.status = "pending" /\ v.current # cur =>
                  s[cur] = "approved" /\ v.current = cur + 1
  <1> DEFINE later == Later(s, cur)
             v == Advance(s, cur)
  <1>1. DOMAIN s = Orders
    OBVIOUS
  <1>2. later = {k \in Orders : s[k] # "absent" /\ k > cur}
    BY <1>1 DEF Later, Present
  <1>3. ASSUME later # {}
        PROVE  Least(later) = cur + 1 /\ cur + 1 \in Orders
    <2>1. PICK k \in Orders : s[k] # "absent" /\ k > cur
      BY <1>2, <1>3
    <2>2. cur + 1 \in Orders /\ s[cur + 1] # "absent"
      BY <2>1, NAssumption DEF Orders
    <2>3. cur + 1 \in later /\ \A j \in later : cur + 1 <= j
      BY <1>2, <2>2, NAssumption DEF Orders
    <2>4. later \in SUBSET Int
      BY <1>2, NAssumption DEF Orders
    <2>5. QED
      BY <2>2, <2>3, <2>4, LeastIsLeast
  <1>4. /\ Present(s) = {k \in Orders : s[k] # "absent"}
        /\ v.status \in {"pending", "approved", "rejected"}
        /\ v.status = "rejected" <=> \E k \in Present(s) : s[k] = "rejected"
        /\ v.status = "approved" => cur \in Present(s) /\ s[cur] = "approved" /\ later = {}
        /\ v.current # cur => s[cur] = "approved" /\ later # {} /\ v.current = Least(later)
    BY <1>1 DEF Advance, Present
  <1>5. DOMAIN v = {"status", "current"} /\ v = [status |-> v.status, current |-> v.current]
    BY DEF Advance
  <1>6. v.current \in Orders
    BY <1>3, <1>4
  <1>7. v \in Row
    BY <1>4, <1>5, <1>6 DEF Row, RequestStatus
  <1>8. QED
    BY <1>2, <1>3, <1>4, <1>7

-----------------------------------------------------------------------------
(* Type correctness.                                                       *)

LEMMA InitTypeOK == Init => TypeOK
  <1>1. Idle \in CallState /\ 1 \in Orders /\ NoRow \in Row
    BY NAssumption DEF Idle, NoRow, CallState, PC, Verbs, Row, RequestStatus, Orders
  <1> SUFFICES ASSUME Init
               PROVE  TypeOK
    OBVIOUS
  <1>2. call \in [Calls -> CallState]
    BY <1>1 DEF Init
  <1>3. steps \in [Orders -> StepStatus] /\ turnTold \in [Orders -> 0..2] /\ settledTold \in 0..2
    BY DEF Init, StepStatus
  <1>4. early \in BOOLEAN /\ died \in BOOLEAN
    BY Zenon DEF Init
  <1>5. QED
    BY <1>1, <1>2, <1>3, <1>4 DEF Init, TypeOK

\* Going on to another query changes where the call is and nothing it remembers.
LEMMA GotoEffect ==
  ASSUME call \in [Calls -> CallState], NEW c \in Calls, NEW label \in PC, Goto(c, label)
  PROVE  /\ call' \in [Calls -> CallState]
         /\ call'[c].pc = label
         /\ call'[c].step = call[c].step
         /\ call'[c].verb = call[c].verb
         /\ call'[c].seen = call[c].seen
         /\ call'[c].verdict = call[c].verdict
         /\ \A d \in Calls \ {c} : call'[d] = call[d]
  BY DEF CallState, Goto

\* A call that returns forgets everything.
LEMMA ReturnEffect ==
  ASSUME call \in [Calls -> CallState], NEW c \in Calls, Return(c)
  PROVE  /\ call' \in [Calls -> CallState]
         /\ call'[c].pc = "idle"
         /\ \A d \in Calls \ {c} : call'[d] = call[d]
  BY NAssumption DEF CallState, Return, Idle, NoRow, Row, RequestStatus, Verbs, PC, Orders

\* A call begins with the row it read and remembers nothing else.
LEMMA EnterEffect ==
  ASSUME call \in [Calls -> CallState], NEW c \in Calls, NEW label \in PC, NEW k \in Orders,
         NEW verb \in Verbs, NEW row \in Row, Enter(c, label, k, verb, row)
  PROVE  /\ call' \in [Calls -> CallState]
         /\ call'[c].pc = label
         /\ call'[c].step = k
         /\ \A d \in Calls \ {c} : call'[d] = call[d]
  <1>1. NoRow \in Row
    BY NAssumption DEF NoRow, Row, RequestStatus, Orders
  <1>2. QED
    BY <1>1 DEF Enter, CallState

\* submit goes through the line step by step.
LEMMA SubmitStepEffect ==
  ASSUME TypeOK, NEW c \in Calls, SubmitStep(c)
  PROVE  /\ call' \in [Calls -> CallState]
         /\ \/ call'[c].pc = "announce"
            \/ call'[c].pc = "insert" /\ call'[c].step = call[c].step + 1
         /\ \A d \in Calls \ {c} : call'[d] = call[d]
  <1>1. CASE call[c].step = N
    BY <1>1, GotoEffect DEF TypeOK, SubmitStep, PC
  <1>2. CASE call[c].step # N
    <2> DEFINE new == [call[c] EXCEPT !.step = call[c].step + 1]
    <2>1. call[c] \in CallState /\ call[c].step + 1 \in Orders
      BY <1>2, NAssumption DEF TypeOK, CallState, Orders
    <2>2. new \in CallState /\ new.pc = call[c].pc /\ new.step = call[c].step + 1
      BY <2>1 DEF CallState
    <2>3. call' = [call EXCEPT ![c] = new] /\ call[c].pc = "insert"
      BY <1>2 DEF SubmitStep
    <2> HIDE DEF new
    <2>4. QED
      BY <2>2, <2>3 DEF TypeOK
  <1>3. QED
    BY <1>1, <1>2

\* The verdict of advance is kept for the next query.
LEMMA AdvanceEffect ==
  ASSUME TypeOK, RowsAreAPrefix, NEW c \in Calls, DecideAdvance(c)
  PROVE  /\ call' \in [Calls -> CallState]
         /\ \A d \in Calls \ {c} : call'[d] = call[d]
         /\ \/ call'[c].pc = "idle"
            \/ /\ call'[c].pc = "move"
               /\ call'[c].verdict = Advance(steps, call[c].seen.current)
               /\ \/ call'[c].verdict.status # "pending"
                  \/ call'[c].verdict.current # call[c].seen.current
  <1> DEFINE v == Advance(steps, call[c].seen.current)
             new == [call[c] EXCEPT !.pc = "move", !.verdict = v]
  <1>1. call[c] \in CallState /\ call[c].seen.current \in Orders
    BY DEF TypeOK, CallState, Row
  <1>2. v \in Row
    BY <1>1, AdvanceConcludes DEF TypeOK, RowsAreAPrefix
  <1>3. CASE v.status # "pending" \/ v.current # call[c].seen.current
    <2>1. call' = [call EXCEPT ![c] = new]
      BY <1>3 DEF DecideAdvance
    <2> HIDE DEF v
    <2>2. new \in CallState /\ new.pc = "move" /\ new.verdict = v
      BY <1>1, <1>2 DEF CallState, PC
    <2> HIDE DEF new
    <2>3. QED
      BY <1>3, <2>1, <2>2 DEF TypeOK, v
  <1>4. CASE ~(v.status # "pending" \/ v.current # call[c].seen.current)
    BY <1>4, ReturnEffect DEF TypeOK, DecideAdvance
  <1>5. QED
    BY <1>3, <1>4

LEMMA NextTypeOK == TypeOK /\ VerbFits /\ RowsAreAPrefix /\ [Next]_vars => TypeOK'
  <1> SUFFICES ASSUME TypeOK, VerbFits, RowsAreAPrefix, [Next]_vars
               PROVE  TypeOK'
    OBVIOUS
  <1> USE DEF ledger, notices, history
  <1>1. ASSUME NEW c \in Calls, NEW label \in PC, NEW k \in Orders, NEW verb \in Verbs,
               Begin(c, label, k, verb)
        PROVE  TypeOK'
    <2>1. call' \in [Calls -> CallState]
      <3>1. ThisRow \in Row
        BY DEF TypeOK, ThisRow, Row
      <3>2. QED
        BY <1>1, <3>1, EnterEffect DEF TypeOK, Begin
    <2>2. QED
      BY <1>1, <2>1 DEF TypeOK, Begin
  <1>2. ASSUME NEW c \in Calls, SubmitRequest(c)
      PROVE  TypeOK'
    <2>1. call' \in [Calls -> CallState]
      <3>1. NoRow \in Row /\ 1 \in Orders /\ "insert" \in PC /\ "none" \in Verbs
        BY NAssumption DEF NoRow, Row, RequestStatus, Orders, PC, Verbs
      <3>2. QED
        BY <1>2, <3>1, EnterEffect DEF TypeOK, SubmitRequest
    <2>2. QED
      BY <1>2, <2>1, NAssumption DEF TypeOK, SubmitRequest, RequestStatus, Orders
  <1>3. ASSUME NEW c \in Calls, SubmitStep(c)
      PROVE  TypeOK'
    <2>1. call' \in [Calls -> CallState]
      BY <1>3, SubmitStepEffect
    <2>2. QED
      BY <1>3, <2>1 DEF TypeOK, SubmitStep, OpenedAs, StepStatus, CallState
  <1>4. ASSUME NEW c \in Calls, SubmitAnnounce(c)
      PROVE  TypeOK'
    <2>1. call' \in [Calls -> CallState]
      BY <1>4, ReturnEffect DEF TypeOK, SubmitAnnounce
    <2>2. QED
      BY <1>4, <2>1 DEF TypeOK, SubmitAnnounce, Bump
  <1>5. ASSUME NEW c \in Calls, DecideCheck(c)
      PROVE  TypeOK'
    <2>1. call' \in [Calls -> CallState]
      BY <1>5, GotoEffect, ReturnEffect DEF TypeOK, DecideCheck, PC
    <2>2. QED
      BY <1>5, <2>1 DEF TypeOK, DecideCheck
  <1>6. ASSUME NEW c \in Calls, DecideMark(c)
      PROVE  TypeOK'
    <2>1. call' \in [Calls -> CallState]
      BY <1>6, GotoEffect, ReturnEffect DEF TypeOK, DecideMark, PC
    <2>2. QED
      BY <1>6, <2>1 DEF TypeOK, VerbFits, DecideMark, Decisions, StepStatus
  <1>7. ASSUME NEW c \in Calls, DecideAdvance(c)
      PROVE  TypeOK'
    <2>1. call' \in [Calls -> CallState]
      BY <1>7, AdvanceEffect
    <2>2. QED
      BY <1>7, <2>1 DEF TypeOK, DecideAdvance
  <1>8. ASSUME NEW c \in Calls, DecideMove(c)
      PROVE  TypeOK'
    <2>1. call' \in [Calls -> CallState]
      BY <1>8, GotoEffect, ReturnEffect DEF TypeOK, DecideMove, PC
    <2>2. QED
      BY <1>8, <2>1 DEF TypeOK, DecideMove, CallState, Row
  <1>9. ASSUME NEW c \in Calls, DecideEffect(c)
      PROVE  TypeOK'
    <2>1. call' \in [Calls -> CallState]
      BY <1>9, GotoEffect DEF TypeOK, DecideEffect, PC
    <2>2. QED
      BY <1>9, <2>1, SkipRestKeepsDecisions DEF TypeOK, DecideEffect, StepStatus
  <1>10. ASSUME NEW c \in Calls, DecideHooks(c)
       PROVE  TypeOK'
    <2>1. call' \in [Calls -> CallState]
      BY <1>10, GotoEffect DEF TypeOK, DecideHooks, PC
    <2>2. QED
      BY <1>10, <2>1 DEF TypeOK, DecideHooks
  <1>11. ASSUME NEW c \in Calls, DecideTell(c)
       PROVE  TypeOK'
    <2>1. call' \in [Calls -> CallState]
      BY <1>11, ReturnEffect DEF TypeOK, DecideTell
    <2>2. QED
      BY <1>11, <2>1 DEF TypeOK, DecideTell, Bump
  <1>12. ASSUME NEW c \in Calls, CancelCheck(c)
       PROVE  TypeOK'
    <2>1. call' \in [Calls -> CallState]
      BY <1>12, GotoEffect, ReturnEffect DEF TypeOK, CancelCheck, PC
    <2>2. QED
      BY <1>12, <2>1 DEF TypeOK, CancelCheck
  <1>13. ASSUME NEW c \in Calls, CancelSkip(c)
       PROVE  TypeOK'
    <2>1. call' \in [Calls -> CallState]
      BY <1>13, GotoEffect DEF TypeOK, CancelSkip, PC
    <2>2. QED
      BY <1>13, <2>1, SkipRestKeepsDecisions DEF TypeOK, CancelSkip
  <1>14. ASSUME NEW c \in Calls, CancelClose(c)
       PROVE  TypeOK'
    <2>1. call' \in [Calls -> CallState]
      BY <1>14, GotoEffect DEF TypeOK, CancelClose, PC
    <2>2. QED
      BY <1>14, <2>1 DEF TypeOK, VerbFits, CancelClose, RequestStatus
  <1>15. ASSUME NEW c \in Calls, CancelHooks(c)
       PROVE  TypeOK'
    <2>1. call' \in [Calls -> CallState]
      BY <1>15, ReturnEffect DEF TypeOK, CancelHooks
    <2>2. QED
      BY <1>15, <2>1 DEF TypeOK, CancelHooks
  <1>16. ASSUME NEW c \in Calls, Die(c)
       PROVE  TypeOK'
    <2>1. call' \in [Calls -> CallState]
      BY <1>16, ReturnEffect DEF TypeOK, Die
    <2>2. QED
      BY <1>16, <2>1 DEF TypeOK, Die
  <1>17. CASE UNCHANGED vars
    BY <1>17 DEF TypeOK, vars
  <1>18. ASSUME NEW c \in Calls, Submit(c)
         PROVE  TypeOK'
    BY <1>2, <1>3, <1>4, <1>18 DEF Submit
  <1>19. ASSUME NEW c \in Calls, Decide(c)
         PROVE  TypeOK'
    <2>1. "check" \in PC /\ Decisions \subseteq Verbs
      BY DEF PC, Decisions, Verbs
    <2>2. QED
      BY <1>1, <1>5, <1>6, <1>7, <1>8, <1>9, <1>10, <1>11, <1>19, <2>1 DEF Decide, DecideRead
  <1>20. ASSUME NEW c \in Calls, Cancel(c)
         PROVE  TypeOK'
    <2>1. "recheck" \in PC /\ {"requester", "system"} \subseteq Verbs /\ 1 \in Orders
      BY NAssumption DEF PC, Verbs, Orders
    <2>2. QED
      BY <1>1, <1>12, <1>13, <1>14, <1>15, <1>20, <2>1 DEF Cancel, CancelRead
  <1>21. QED
    BY <1>16, <1>17, <1>18, <1>19, <1>20 DEF Next

-----------------------------------------------------------------------------
(* The inductive invariant: one lemma per action.                          *)

\* What a call still remembers when it goes on.
Remembers(c) ==
  /\ call'[c].verb = call[c].verb
  /\ call'[c].seen = call[c].seen
  /\ call'[c].verdict = call[c].verdict

\* No row comes or goes and nobody's decision changes.
RowsStay ==
  \A k \in Orders : /\ steps'[k] = "absent" <=> steps[k] = "absent"
                    /\ steps[k] \in Decisions => steps'[k] = steps[k]

LEMMA GotoOrReturn ==
  ASSUME call \in [Calls -> CallState], NEW c \in Calls, NEW label \in PC,
         Goto(c, label) \/ Return(c)
  PROVE  /\ \A d \in Calls \ {c} : call'[d] = call[d]
         /\ \/ call'[c].pc = "idle"
            \/ call'[c].pc = label /\ Remembers(c)
  <1>1. CASE Goto(c, label)
    BY <1>1, GotoEffect DEF Remembers
  <1>2. CASE Return(c)
    <2>1. call'[c].pc = "idle" /\ \A d \in Calls \ {c} : call'[d] = call[d]
      BY <1>2, ReturnEffect
    <2>2. QED
      BY <2>1
  <1>3. QED
    BY <1>1, <1>2


\* A verdict that is being carried out rests on decisions, and those stay.
LEMMA VerdictsStay ==
  ASSUME TypeOK, VerdictHolds, UNCHANGED early,
         \A k \in Orders : steps[k] \in Decisions => steps'[k] = steps[k],
         \A d \in Calls : call'[d].pc \in {"move", "effect"} => call'[d] = call[d]
  PROVE  VerdictHolds'
  <1> SUFFICES ASSUME NEW d \in Calls, call'[d].pc \in {"move", "effect"}, call'[d] = call[d]
               PROVE  LET verdict == call[d].verdict
                      IN  /\ verdict.status \in {"pending", "approved", "rejected"}
                          /\ verdict.status = "rejected" => \E k \in Orders : steps'[k] = "rejected"
                          /\ verdict.status = "approved" /\ ~early => steps'[N] = "approved"
                          /\ verdict.status = "pending" =>
                               \E k \in Orders : verdict.current = k + 1 /\ steps'[k] = "approved"
    BY DEF VerdictHolds
  <1>1. N \in Orders
    BY NAssumption DEF Orders
  <1>2. QED
    BY <1>1 DEF VerdictHolds, Decisions

\* A notice changes nothing but the call.
LEMMA SubmitAnnounceKeeps ==
  ASSUME IInv, TypeOK', NEW c \in Calls, SubmitAnnounce(c)
  PROVE  IInv'
  <1> USE DEF IInv
  <1>1. /\ \A d \in Calls \ {c} : call'[d] = call[d]
        /\ call'[c].pc = "idle"
    BY ReturnEffect DEF TypeOK, SubmitAnnounce
  <1>2. /\ RowsAreAPrefix'
        /\ LineOrder'
        /\ OutcomeHasItsDecisions'
        /\ HooksSeeTheOutcome'
    BY DEF RowsAreAPrefix, LineOrder, OutcomeHasItsDecisions, HooksSeeTheOutcome,
       SubmitAnnounce, ledger, notices, history
  <1>3. /\ VerbFits'
        /\ Insertion'
        /\ LineWasComplete'
    BY <1>1 DEF VerbFits, Insertion, LineWasComplete, SubmitAnnounce, TypeOK, ledger,
       notices, history
  <1>4. /\ VerdictHolds'
        /\ ClosedAsDecided'
    BY <1>1 DEF VerdictHolds, ClosedAsDecided, SubmitAnnounce, TypeOK, Remembers,
       ledger, notices, history
  <1>5. QED
    BY <1>2, <1>3, <1>4

\* Nor do the checks of engine.decide.
LEMMA DecideCheckKeeps ==
  ASSUME IInv, TypeOK', NEW c \in Calls, DecideCheck(c)
  PROVE  IInv'
  <1> USE DEF IInv
  <1>1. Goto(c, "mark") \/ Return(c)
    BY DEF DecideCheck
  <1>2. /\ \A d \in Calls \ {c} : call'[d] = call[d]
        /\ \/ call'[c].pc = "idle"
           \/ call'[c].pc = "mark" /\ Remembers(c)
    BY <1>1, GotoOrReturn DEF TypeOK, PC
  <1>3. call[c].pc = "check" /\ UNCHANGED <<ledger, handed, early>>
    BY DEF DecideCheck, notices, history
  <1>4. /\ RowsAreAPrefix'
        /\ LineOrder'
        /\ OutcomeHasItsDecisions'
        /\ HooksSeeTheOutcome'
    BY <1>3 DEF RowsAreAPrefix, LineOrder, OutcomeHasItsDecisions, HooksSeeTheOutcome,
       ledger
  <1>5. /\ VerbFits'
        /\ Insertion'
    BY <1>2, <1>3 DEF VerbFits, Insertion, TypeOK, Remembers, ledger
  <1>6. LineWasComplete'
    BY <1>2, <1>3 DEF LineWasComplete, TypeOK, ledger
  <1>7. /\ VerdictHolds'
        /\ ClosedAsDecided'
    BY <1>2, <1>3 DEF VerdictHolds, ClosedAsDecided, TypeOK, ledger
  <1>8. QED
    BY <1>4, <1>5, <1>6, <1>7

\* The conditional UPDATE decides a step that has the turn, nothing else.
LEMMA DecideMarkKeeps ==
  ASSUME IInv, TypeOK', NEW c \in Calls, DecideMark(c)
  PROVE  IInv'
  <1> USE DEF IInv
  <1>1. Goto(c, "reread") \/ Return(c)
    BY DEF DecideMark
  <1>2. /\ \A d \in Calls \ {c} : call'[d] = call[d]
        /\ \/ call'[c].pc = "idle"
           \/ call'[c].pc = "reread" /\ Remembers(c)
    BY <1>1, GotoOrReturn DEF TypeOK, PC
  <1>3. \A k \in Orders : \/ steps'[k] = steps[k]
                          \/ steps[k] = "pending" /\ steps'[k] \in Decisions
    BY DEF DecideMark, TypeOK, VerbFits, CallState
  <1>4. RowsStay
    BY <1>3 DEF RowsStay, Decisions
  <1>5. call[c].pc = "mark" /\ UNCHANGED <<status, handed, early>>
    BY DEF DecideMark, notices, history
  <1>6. VerbFits'
    BY <1>2, <1>5 DEF VerbFits, TypeOK, Remembers
  <1>7. /\ RowsAreAPrefix'
        /\ Insertion'
    BY <1>2, <1>4, <1>5 DEF RowsAreAPrefix, Insertion, RowsStay, TypeOK
  <1>8. LineWasComplete'
    BY <1>2, <1>4, <1>5 DEF LineWasComplete, RowsStay, TypeOK
  <1>9. VerdictHolds'
    BY <1>2, <1>4, <1>5, VerdictsStay DEF TypeOK, RowsStay
  <1>10. ClosedAsDecided'
    BY <1>2, <1>5 DEF ClosedAsDecided, TypeOK, Remembers
  <1>11. LineOrder'
    BY <1>4, <1>3 DEF LineOrder, RowsStay, Decisions, TypeOK, Orders
  <1>12. OutcomeHasItsDecisions'
    BY <1>4, <1>5 DEF OutcomeHasItsDecisions, RowsStay, Decisions
  <1>13. HooksSeeTheOutcome'
    BY <1>5 DEF HooksSeeTheOutcome
  <1>14. QED
    BY <1>6, <1>7, <1>8, <1>9, <1>10, <1>11, <1>12, <1>13

\* The request closes on decisions that are in the ledger, or goes on.
LEMMA DecideMoveKeeps ==
  ASSUME IInv, TypeOK', NEW c \in Calls, DecideMove(c)
  PROVE  IInv'
  <1> USE DEF IInv
  <1>1. Goto(c, "effect") \/ Return(c)
    BY DEF DecideMove
  <1>2. /\ \A d \in Calls \ {c} : call'[d] = call[d]
        /\ \/ call'[c].pc = "idle"
           \/ call'[c].pc = "effect" /\ Remembers(c)
    BY <1>1, GotoOrReturn DEF TypeOK, PC
  <1>3. \/ UNCHANGED <<status, current>>
        \/ /\ status = "pending" /\ call[c].pc = "move"
           /\ status' = call[c].verdict.status /\ status' \in {"pending"} \cup Decisions
    BY DEF DecideMove, VerdictHolds, Decisions
  <1>4. UNCHANGED <<steps, handed, early>>
    BY DEF DecideMove, ledger, notices, history
  <1>5. call'[c].pc = "effect" => call[c].pc = "move" /\ status = "pending"
                                /\ status' = call[c].verdict.status
    BY ReturnEffect DEF DecideMove, TypeOK
  <1>6. VerbFits'
    BY <1>2 DEF VerbFits, TypeOK
  <1>7. /\ RowsAreAPrefix'
        /\ LineOrder'
    BY <1>4 DEF RowsAreAPrefix, LineOrder
  <1>8. /\ Insertion'
        /\ LineWasComplete'
    BY <1>2, <1>3, <1>4 DEF Insertion, LineWasComplete, TypeOK, Decisions, DecideMove
  <1>9. VerdictHolds'
    BY <1>2, <1>4 DEF VerdictHolds, TypeOK, Remembers, DecideMove
  <1>10. ClosedAsDecided'
    BY <1>2, <1>3, <1>5 DEF ClosedAsDecided, TypeOK, Remembers, Decisions, Terminal
  <1>11. OutcomeHasItsDecisions'
    BY <1>3, <1>4, NAssumption DEF OutcomeHasItsDecisions, VerdictHolds, LineOrder,
       Orders, TypeOK
  <1>12. HooksSeeTheOutcome'
    BY <1>3, <1>4 DEF HooksSeeTheOutcome, Terminal, Decisions
  <1>13. QED
    BY <1>6, <1>7, <1>8, <1>9, <1>10, <1>11, <1>12

\* The rest is skipped, or the step behind an approved one gets the turn.
LEMMA DecideEffectKeeps ==
  ASSUME IInv, TypeOK', NEW c \in Calls, DecideEffect(c)
  PROVE  IInv'
  <1> USE DEF IInv
  <1>1. /\ \A d \in Calls \ {c} : call'[d] = call[d]
        /\ call'[c].pc \in {"tell", "hooks"}
        /\ call'[c].pc = "hooks" => call[c].verdict.status # "pending"
        /\ Remembers(c)
    BY GotoEffect DEF TypeOK, DecideEffect, PC, Remembers
  <1>2. \A k \in Orders : \/ steps'[k] = steps[k]
                          \/ steps[k] \in {"waiting", "pending"} /\ steps'[k] = "skipped"
                          \/ /\ steps[k] = "waiting" /\ steps'[k] = "pending"
                             /\ k = call[c].verdict.current /\ call[c].verdict.status = "pending"
    <2>1. steps \in [Orders -> StepStatus]
      BY DEF TypeOK
    <2>2. CASE steps' = SkipRest(steps)
      BY <2>1, <2>2, SkipRestKeepsDecisions
    <2>3. CASE /\ call[c].verdict.status = "pending"
               /\ steps' = [steps EXCEPT ![call[c].verdict.current] = IF @ = "waiting" THEN "pending" ELSE @]
      BY <2>1, <2>3
    <2>4. QED
      BY <2>2, <2>3 DEF DecideEffect
  <1>3. RowsStay
    BY <1>2 DEF RowsStay, Decisions
  <1>4. call[c].pc = "effect" /\ UNCHANGED <<status, handed, early>>
    BY DEF DecideEffect, notices, history
  <1>5. VerbFits'
    BY <1>1, <1>4 DEF VerbFits, TypeOK, Remembers
  <1>6. /\ RowsAreAPrefix'
        /\ Insertion'
    BY <1>1, <1>3, <1>4 DEF RowsAreAPrefix, Insertion, RowsStay, TypeOK
  <1>7. LineWasComplete'
    BY <1>1, <1>3, <1>4 DEF LineWasComplete, RowsStay, TypeOK
  <1>8. VerdictHolds'
    BY <1>1, <1>3, <1>4, VerdictsStay DEF TypeOK, RowsStay
  <1>9. ClosedAsDecided'
    BY <1>1, <1>4 DEF ClosedAsDecided, TypeOK, Remembers
  <1>10. LineOrder'
    <2>1. SUFFICES ASSUME NEW k \in Orders, steps'[k] \in {"pending", "approved", "rejected"},
                          NEW j \in Orders, j < k
                   PROVE  steps[j] = "approved"
      BY <1>3 DEF LineOrder, RowsStay, Decisions
    <2>2. CASE steps'[k] = steps[k]
      BY <2>1, <2>2 DEF LineOrder
    <2>3. CASE k = call[c].verdict.current /\ call[c].verdict.status = "pending"
      <3>1. PICK m \in Orders : k = m + 1 /\ steps[m] = "approved"
        BY <1>4, <2>3 DEF VerdictHolds
      <3>2. j < m \/ j = m
        BY <2>1, <3>1 DEF Orders
      <3>3. QED
        BY <3>1, <3>2 DEF LineOrder
    <2>4. QED
      BY <1>2, <2>1, <2>2, <2>3
  <1>11. OutcomeHasItsDecisions'
    BY <1>3, <1>4 DEF OutcomeHasItsDecisions, RowsStay, Decisions
  <1>12. HooksSeeTheOutcome'
    BY <1>4 DEF HooksSeeTheOutcome
  <1>13. QED
    BY <1>5, <1>6, <1>7, <1>8, <1>9, <1>10, <1>11, <1>12

\* The outcome the hooks are handed is the one the request closed with.
LEMMA DecideHooksKeeps ==
  ASSUME IInv, TypeOK', NEW c \in Calls, DecideHooks(c)
  PROVE  IInv'
  <1> USE DEF IInv
  <1>1. /\ \A d \in Calls \ {c} : call'[d] = call[d]
        /\ call'[c].pc = "tell" /\ Remembers(c)
    BY GotoEffect DEF TypeOK, DecideHooks, PC, Remembers
  <1>2. /\ RowsAreAPrefix'
        /\ LineOrder'
        /\ OutcomeHasItsDecisions'
    BY DEF RowsAreAPrefix, LineOrder, OutcomeHasItsDecisions, DecideHooks, ledger,
       notices, history
  <1>3. /\ VerbFits'
        /\ Insertion'
        /\ LineWasComplete'
    BY <1>1 DEF VerbFits, Insertion, LineWasComplete, DecideHooks, TypeOK, ledger,
       notices, history
  <1>4. /\ VerdictHolds'
        /\ ClosedAsDecided'
    BY <1>1 DEF VerdictHolds, ClosedAsDecided, DecideHooks, TypeOK, Remembers, ledger,
       notices, history
  <1>5. HooksSeeTheOutcome'
    BY DEF HooksSeeTheOutcome, ClosedAsDecided, DecideHooks, Terminal, Decisions,
       ledger, notices, history
  <1>6. QED
    BY <1>2, <1>3, <1>4, <1>5

\* The notices of a decision change nothing but the call.
LEMMA DecideTellKeeps ==
  ASSUME IInv, TypeOK', NEW c \in Calls, DecideTell(c)
  PROVE  IInv'
  <1> USE DEF IInv
  <1>1. /\ \A d \in Calls \ {c} : call'[d] = call[d]
        /\ call'[c].pc = "idle"
    BY ReturnEffect DEF TypeOK, DecideTell
  <1>2. /\ RowsAreAPrefix'
        /\ LineOrder'
        /\ OutcomeHasItsDecisions'
        /\ HooksSeeTheOutcome'
    BY DEF RowsAreAPrefix, LineOrder, OutcomeHasItsDecisions, HooksSeeTheOutcome,
       DecideTell, ledger, notices, history
  <1>3. /\ VerbFits'
        /\ Insertion'
        /\ LineWasComplete'
    BY <1>1 DEF VerbFits, Insertion, LineWasComplete, DecideTell, TypeOK, ledger,
       notices, history
  <1>4. /\ VerdictHolds'
        /\ ClosedAsDecided'
    BY <1>1 DEF VerdictHolds, ClosedAsDecided, DecideTell, TypeOK, Remembers, ledger,
       notices, history
  <1>5. QED
    BY <1>2, <1>3, <1>4

\* Nor do the checks of a withdrawal.
LEMMA CancelCheckKeeps ==
  ASSUME IInv, TypeOK', NEW c \in Calls, CancelCheck(c)
  PROVE  IInv'
  <1> USE DEF IInv
  <1>1. Goto(c, "skip") \/ Return(c)
    BY DEF CancelCheck
  <1>2. /\ \A d \in Calls \ {c} : call'[d] = call[d]
        /\ \/ call'[c].pc = "idle"
           \/ call'[c].pc = "skip" /\ Remembers(c)
    BY <1>1, GotoOrReturn DEF TypeOK, PC
  <1>3. call[c].pc = "recheck" /\ UNCHANGED <<ledger, handed, early>>
    BY DEF CancelCheck, notices, history
  <1>4. /\ RowsAreAPrefix'
        /\ LineOrder'
        /\ OutcomeHasItsDecisions'
        /\ HooksSeeTheOutcome'
    BY <1>3 DEF RowsAreAPrefix, LineOrder, OutcomeHasItsDecisions, HooksSeeTheOutcome,
       ledger
  <1>5. /\ VerbFits'
        /\ Insertion'
    BY <1>2, <1>3 DEF VerbFits, Insertion, TypeOK, Remembers, ledger
  <1>6. LineWasComplete'
    BY <1>2, <1>3 DEF LineWasComplete, TypeOK, ledger
  <1>7. /\ VerdictHolds'
        /\ ClosedAsDecided'
    BY <1>2, <1>3 DEF VerdictHolds, ClosedAsDecided, TypeOK, ledger
  <1>8. QED
    BY <1>4, <1>5, <1>6, <1>7

\* A withdrawal skips only steps nobody has decided.
LEMMA CancelSkipKeeps ==
  ASSUME IInv, TypeOK', NEW c \in Calls, CancelSkip(c)
  PROVE  IInv'
  <1> USE DEF IInv
  <1>1. /\ \A d \in Calls \ {c} : call'[d] = call[d]
        /\ call'[c].pc = "close" /\ Remembers(c)
    BY GotoEffect DEF TypeOK, CancelSkip, PC, Remembers
  <1>2. \A k \in Orders : \/ steps'[k] = steps[k]
                          \/ steps[k] \in {"waiting", "pending"} /\ steps'[k] = "skipped"
    <2>1. steps' = SkipRest(steps) /\ steps \in [Orders -> StepStatus]
      BY DEF CancelSkip, TypeOK
    <2>2. QED
      BY <2>1, SkipRestKeepsDecisions
  <1>3. RowsStay
    BY <1>2 DEF RowsStay, Decisions
  <1>4. call[c].pc = "skip" /\ UNCHANGED <<status, handed, early>>
    BY DEF CancelSkip, notices, history
  <1>5. VerbFits'
    BY <1>1, <1>4 DEF VerbFits, TypeOK, Remembers
  <1>6. /\ RowsAreAPrefix'
        /\ Insertion'
    BY <1>1, <1>3, <1>4 DEF RowsAreAPrefix, Insertion, RowsStay, TypeOK
  <1>7. LineWasComplete'
    BY <1>1, <1>3, <1>4 DEF LineWasComplete, RowsStay, TypeOK
  <1>8. VerdictHolds'
    BY <1>1, <1>3, <1>4, VerdictsStay DEF TypeOK, RowsStay
  <1>9. ClosedAsDecided'
    BY <1>1, <1>4 DEF ClosedAsDecided, TypeOK, Remembers
  <1>10. LineOrder'
    BY <1>3, <1>2 DEF LineOrder, RowsStay, Decisions, TypeOK, Orders
  <1>11. OutcomeHasItsDecisions'
    BY <1>3, <1>4 DEF OutcomeHasItsDecisions, RowsStay, Decisions
  <1>12. HooksSeeTheOutcome'
    BY <1>4 DEF HooksSeeTheOutcome
  <1>13. QED
    BY <1>5, <1>6, <1>7, <1>8, <1>9, <1>10, <1>11, <1>12

\* A withdrawal closes an open request only; what others decided stands.
LEMMA CancelCloseKeeps ==
  ASSUME IInv, TypeOK', NEW c \in Calls, CancelClose(c)
  PROVE  IInv'
  <1> USE DEF IInv
  <1>1. /\ \A d \in Calls \ {c} : call'[d] = call[d]
        /\ call'[c].pc = "cleanup" /\ Remembers(c)
    BY GotoEffect DEF TypeOK, CancelClose, PC, Remembers
  <1>2. /\ status' = IF status = "pending" THEN "canceled" ELSE status
        /\ status # "none" /\ call[c].pc = "close"
    BY DEF CancelClose, Insertion
  <1>3. UNCHANGED <<steps, handed, early>>
    BY DEF CancelClose, ledger, notices, history
  <1>4. VerbFits'
    BY <1>1 DEF VerbFits, TypeOK
  <1>5. /\ RowsAreAPrefix'
        /\ LineOrder'
    BY <1>3 DEF RowsAreAPrefix, LineOrder
  <1>6. /\ Insertion'
        /\ LineWasComplete'
    BY <1>1, <1>2, <1>3 DEF Insertion, LineWasComplete, TypeOK
  <1>7. VerdictHolds'
    BY <1>1, <1>3 DEF VerdictHolds, TypeOK, Remembers
  <1>8. ClosedAsDecided'
    BY <1>1, <1>2 DEF ClosedAsDecided, TypeOK, Remembers, RequestStatus, Terminal,
       Decisions
  <1>9. OutcomeHasItsDecisions'
    BY <1>2, <1>3 DEF OutcomeHasItsDecisions
  <1>10. HooksSeeTheOutcome'
    BY <1>2, <1>3 DEF HooksSeeTheOutcome, Terminal
  <1>11. QED
    BY <1>4, <1>5, <1>6, <1>7, <1>8, <1>9, <1>10

\* The hooks of a withdrawal get what the ledger says.
LEMMA CancelHooksKeeps ==
  ASSUME IInv, TypeOK', NEW c \in Calls, CancelHooks(c)
  PROVE  IInv'
  <1> USE DEF IInv
  <1>1. /\ \A d \in Calls \ {c} : call'[d] = call[d]
        /\ call'[c].pc = "idle"
    BY ReturnEffect DEF TypeOK, CancelHooks
  <1>2. /\ RowsAreAPrefix'
        /\ LineOrder'
        /\ OutcomeHasItsDecisions'
    BY DEF RowsAreAPrefix, LineOrder, OutcomeHasItsDecisions, CancelHooks, ledger,
       notices, history
  <1>3. /\ VerbFits'
        /\ Insertion'
        /\ LineWasComplete'
    BY <1>1 DEF VerbFits, Insertion, LineWasComplete, CancelHooks, TypeOK, ledger,
       notices, history
  <1>4. /\ VerdictHolds'
        /\ ClosedAsDecided'
    BY <1>1 DEF VerdictHolds, ClosedAsDecided, CancelHooks, TypeOK, ledger, notices,
       history
  <1>5. HooksSeeTheOutcome'
    BY DEF HooksSeeTheOutcome, ClosedAsDecided, CancelHooks, ledger, notices, history
  <1>6. QED
    BY <1>2, <1>3, <1>4, <1>5

\* A call that dies leaves the ledger as it is.
LEMMA DieKeeps ==
  ASSUME IInv, TypeOK', NEW c \in Calls, Die(c)
  PROVE  IInv'
  <1> USE DEF IInv
  <1>1. /\ \A d \in Calls \ {c} : call'[d] = call[d]
        /\ call'[c].pc = "idle"
    BY ReturnEffect DEF TypeOK, Die
  <1>2. /\ RowsAreAPrefix'
        /\ LineOrder'
        /\ OutcomeHasItsDecisions'
        /\ HooksSeeTheOutcome'
    BY DEF RowsAreAPrefix, LineOrder, OutcomeHasItsDecisions, HooksSeeTheOutcome, Die,
       ledger, notices, history
  <1>3. /\ VerbFits'
        /\ Insertion'
        /\ LineWasComplete'
    BY <1>1 DEF VerbFits, Insertion, LineWasComplete, Die, TypeOK, ledger, notices,
       history
  <1>4. /\ VerdictHolds'
        /\ ClosedAsDecided'
    BY <1>1 DEF VerdictHolds, ClosedAsDecided, Die, TypeOK, Remembers, ledger, notices,
       history
  <1>5. QED
    BY <1>2, <1>3, <1>4

\* A call begins on what it reads; whether the line was complete is remembered.
LEMMA BeginKeeps ==
  ASSUME IInv, TypeOK', NEW c \in Calls, NEW k \in Orders, NEW verb \in Verbs,
         NEW label \in {"check", "recheck"}, Begin(c, label, k, verb),
         IF label = "check" THEN verb \in Decisions ELSE verb \in {"requester", "system"}
  PROVE  IInv'
  <1> USE DEF IInv
  <1>1. /\ \A d \in Calls \ {c} : call'[d] = call[d]
        /\ call'[c].pc = label /\ call'[c].verb = verb
    BY DEF TypeOK, Begin, Enter
  <1>2. /\ status # "none"
        /\ UNCHANGED <<status, current, canceledBy, steps, handed>>
        /\ ~early' => ~early /\ \A j \in Orders : steps[j] # "absent"
    BY DEF Begin, ledger
  <1>3. VerbFits'
    BY <1>1 DEF VerbFits, TypeOK
  <1>4. /\ RowsAreAPrefix'
        /\ LineOrder'
        /\ OutcomeHasItsDecisions'
        /\ HooksSeeTheOutcome'
    BY <1>2 DEF RowsAreAPrefix, LineOrder, OutcomeHasItsDecisions, HooksSeeTheOutcome
  <1>5. /\ Insertion'
        /\ LineWasComplete'
        /\ ClosedAsDecided'
    BY <1>1, <1>2 DEF Insertion, LineWasComplete, ClosedAsDecided, TypeOK
  <1>6. VerdictHolds'
    BY <1>1, <1>2 DEF VerdictHolds, TypeOK
  <1>7. QED
    BY <1>3, <1>4, <1>5, <1>6

\* submit opens a request where there was none and no call.
LEMMA SubmitRequestKeeps ==
  ASSUME IInv, TypeOK', NEW c \in Calls, SubmitRequest(c)
  PROVE  IInv'
  <1> USE DEF IInv
  <1>1. /\ \A d \in Calls : call[d].pc = "idle"
        /\ \A d \in Calls \ {c} : call'[d] = call[d]
        /\ call'[c].pc = "insert" /\ call'[c].step = 1
    BY DEF TypeOK, Insertion, SubmitRequest, Enter
  <1>2. /\ status = "none" /\ status' = "pending"
        /\ UNCHANGED <<steps, handed, early>>
        /\ \A k \in Orders : steps[k] = "absent"
    BY DEF SubmitRequest, Insertion, history
  <1>3. /\ VerbFits'
        /\ LineWasComplete'
        /\ VerdictHolds'
        /\ ClosedAsDecided'
    BY <1>1 DEF VerbFits, LineWasComplete, VerdictHolds, ClosedAsDecided
  <1>4. /\ RowsAreAPrefix'
        /\ LineOrder'
        /\ OutcomeHasItsDecisions'
        /\ HooksSeeTheOutcome'
    BY <1>2 DEF RowsAreAPrefix, LineOrder, OutcomeHasItsDecisions, HooksSeeTheOutcome, Terminal
  <1>5. Insertion'
    BY <1>1, <1>2 DEF Insertion, Orders
  <1>6. QED
    BY <1>3, <1>4, <1>5

\* The next step is inserted behind those that have a row.
LEMMA SubmitStepKeeps ==
  ASSUME IInv, TypeOK', NEW c \in Calls, SubmitStep(c)
  PROVE  IInv'
  <1> USE DEF IInv
  <1> DEFINE at == call[c].step
  <1>1. /\ \A d \in Calls \ {c} : call'[d] = call[d]
        /\ \/ call'[c].pc = "announce"
           \/ call'[c].pc = "insert" /\ call'[c].step = at + 1
    BY SubmitStepEffect
  <1>2. /\ call[c].pc = "insert" /\ at \in Orders
        /\ UNCHANGED <<status, handed, early>>
    BY DEF SubmitStep, TypeOK, CallState, notices, history
  <1>3. /\ \A k \in Orders : k < at <=> steps[k] # "absent"
        /\ \A d \in Calls : call[d].pc = "insert" => d = c
        /\ status # "none"
    BY <1>2 DEF Insertion
  <1>4. \A k \in Orders : steps'[k] = IF k = at THEN OpenedAs(at) ELSE steps[k]
    BY <1>2 DEF SubmitStep, TypeOK
  <1>5. /\ OpenedAs(at) \in {"pending", "waiting"}
        /\ OpenedAs(at) = "pending" => at = 1
    BY DEF OpenedAs
  <1>6. \A k \in Orders : steps[k] \in Decisions => steps'[k] = steps[k]
    BY <1>2, <1>3, <1>4 DEF Orders, Decisions
  <1>7. RowsAreAPrefix' /\ Insertion'
    <2>1. \A k \in Orders : k < at + 1 <=> steps'[k] # "absent"
      <3>1. \A k \in Orders : k < at + 1 <=> k < at \/ k = at
        BY <1>2 DEF Orders
      <3> QED
        BY <1>3, <1>4, <1>5, <3>1
    <2>2. RowsAreAPrefix'
      BY <1>2, <2>1 DEF RowsAreAPrefix, Orders
    <2>3. \A d \in Calls : call'[d].pc = "insert" => d = c /\ call'[d].step = at + 1
      BY <1>1, <1>3
    <2>4. status' # "none"
      BY <1>2, <1>3
    <2> QED
      BY <2>1, <2>2, <2>3, <2>4 DEF Insertion
  <1>8. LineOrder'
    BY <1>3, <1>4, <1>5 DEF LineOrder, Orders
  <1>9. /\ VerbFits'
        /\ ClosedAsDecided'
        /\ HooksSeeTheOutcome'
    BY <1>1, <1>2 DEF VerbFits, ClosedAsDecided, HooksSeeTheOutcome, TypeOK
  <1>10. early \/ \A d \in Calls : call[d].pc \in {"idle", "insert", "announce"}
    BY <1>2, <1>3 DEF LineWasComplete, Orders, TypeOK, CallState, PC
  <1>11. LineWasComplete'
    BY <1>1, <1>2, <1>10 DEF LineWasComplete, TypeOK
  <1>12. VerdictHolds'
    BY <1>1, <1>2, <1>6, VerdictsStay
  <1>13. OutcomeHasItsDecisions'
    BY <1>2, <1>3, <1>6 DEF OutcomeHasItsDecisions, Decisions, Orders
  <1>14. QED
    BY <1>7, <1>8, <1>9, <1>11, <1>12, <1>13

\* What advance concludes from the ledger is true of the ledger.
LEMMA DecideAdvanceKeeps ==
  ASSUME IInv, TypeOK', NEW c \in Calls, DecideAdvance(c)
  PROVE  IInv'
  <1> USE DEF IInv
  <1> DEFINE cur == call[c].seen.current
             v == Advance(steps, cur)
  <1>1. /\ call[c].pc = "reread" /\ cur \in Orders
        /\ UNCHANGED <<status, current, canceledBy, steps, handed, early>>
    BY DEF DecideAdvance, ledger, history, TypeOK, CallState, Row
  <1>2. /\ \A d \in Calls \ {c} : call'[d] = call[d]
        /\ \/ call'[c].pc = "idle"
           \/ /\ call'[c].pc = "move" /\ call'[c].verdict = v
              /\ v.status # "pending" \/ v.current # cur
    BY AdvanceEffect
  <1>3. /\ v.status \in {"pending", "approved", "rejected"}
        /\ v.status = "rejected" => \E k \in Orders : steps[k] = "rejected"
        /\ v.status = "approved" =>
             steps[cur] = "approved" /\ \A k \in Orders : k > cur => steps[k] = "absent"
        /\ v.status = "pending" /\ v.current # cur =>
             steps[cur] = "approved" /\ v.current = cur + 1
    BY <1>1, AdvanceConcludes DEF TypeOK, RowsAreAPrefix
  <1> HIDE DEF v
  <1>4. v.status = "approved" /\ ~early => steps[N] = "approved"
    <2>1. SUFFICES ASSUME v.status = "approved", ~early
                   PROVE  cur = N
      BY <1>3
    <2>2. \A k \in Orders : steps[k] # "absent"
      BY <1>1, <2>1 DEF LineWasComplete
    <2>3. QED
      BY <1>1, <1>3, <2>1, <2>2, NAssumption DEF Orders
  <1>5. /\ VerbFits'
        /\ RowsAreAPrefix'
        /\ LineOrder'
        /\ OutcomeHasItsDecisions'
        /\ HooksSeeTheOutcome'
    BY <1>1, <1>2 DEF VerbFits, RowsAreAPrefix, LineOrder, OutcomeHasItsDecisions,
       HooksSeeTheOutcome, TypeOK
  <1>6. /\ Insertion'
        /\ LineWasComplete'
        /\ ClosedAsDecided'
    BY <1>1, <1>2 DEF Insertion, LineWasComplete, ClosedAsDecided, TypeOK
  <1>7. ASSUME NEW d \in Calls, call'[d].pc \in {"move", "effect"}
        PROVE  LET verdict == call'[d].verdict
               IN  /\ verdict.status \in {"pending", "approved", "rejected"}
                   /\ verdict.status = "rejected" => \E k \in Orders : steps[k] = "rejected"
                   /\ verdict.status = "approved" /\ ~early => steps[N] = "approved"
                   /\ verdict.status = "pending" =>
                        \E k \in Orders : verdict.current = k + 1 /\ steps[k] = "approved"
    <2>1. CASE d = c
      BY <1>1, <1>2, <1>3, <1>4, <1>7, <2>1
    <2>2. CASE d # c
      BY <1>2, <1>7, <2>2 DEF VerdictHolds
    <2>3. QED
      BY <2>1, <2>2
  <1>8. VerdictHolds'
    BY <1>1, <1>7 DEF VerdictHolds
  <1>9. QED
    BY <1>5, <1>6, <1>8

-----------------------------------------------------------------------------
(* The theorems.                                                           *)

LEMMA InitIInv == Init => IInv
  <1> SUFFICES ASSUME Init
               PROVE  IInv
    OBVIOUS
  <1>1. TypeOK
    BY InitTypeOK
  <1>2. /\ \A c \in Calls : call[c].pc = "idle"
        /\ \A k \in Orders : steps[k] = "absent"
        /\ status = "none" /\ handed = {}
    BY DEF Init, Idle
  <1>3. /\ VerbFits
        /\ RowsAreAPrefix
        /\ Insertion
        /\ LineWasComplete
        /\ VerdictHolds
        /\ ClosedAsDecided
    BY <1>2 DEF VerbFits, RowsAreAPrefix, Insertion, LineWasComplete, VerdictHolds,
       ClosedAsDecided
  <1>4. /\ LineOrder
        /\ OutcomeHasItsDecisions
        /\ HooksSeeTheOutcome
    BY <1>2 DEF LineOrder, OutcomeHasItsDecisions, HooksSeeTheOutcome
  <1>5. QED
    BY <1>1, <1>3, <1>4 DEF IInv

LEMMA NextIInv == IInv /\ [Next]_vars => IInv'
  <1> SUFFICES ASSUME IInv, [Next]_vars
               PROVE  IInv'
    OBVIOUS
  <1>1. TypeOK'
    BY NextTypeOK DEF IInv
  <1>2. ASSUME NEW c \in Calls, Submit(c)
        PROVE  IInv'
    BY <1>1, <1>2, SubmitRequestKeeps, SubmitStepKeeps, SubmitAnnounceKeeps DEF Submit
  <1>3. ASSUME NEW c \in Calls, Decide(c)
        PROVE  IInv'
    <2>1. ASSUME NEW k \in Orders, NEW action \in Decisions, DecideRead(c, k, action)
          PROVE  IInv'
      BY <1>1, <2>1, BeginKeeps DEF DecideRead, Decisions, Verbs
    <2>2. QED
      BY <1>1, <1>3, <2>1, DecideCheckKeeps, DecideMarkKeeps, DecideAdvanceKeeps,
         DecideMoveKeeps, DecideEffectKeeps, DecideHooksKeeps, DecideTellKeeps DEF Decide
  <1>4. ASSUME NEW c \in Calls, Cancel(c)
        PROVE  IInv'
    <2>1. ASSUME NEW by \in {"requester", "system"}, CancelRead(c, by)
          PROVE  IInv'
      <3>1. 1 \in Orders
        BY NAssumption DEF Orders
      <3>2. QED
        BY <1>1, <2>1, <3>1, BeginKeeps DEF CancelRead, Verbs
    <2>2. QED
      BY <1>1, <1>4, <2>1, CancelCheckKeeps, CancelSkipKeeps, CancelCloseKeeps,
         CancelHooksKeeps DEF Cancel
  <1>5. ASSUME NEW c \in Calls, Die(c)
        PROVE  IInv'
    BY <1>1, <1>5, DieKeeps
  <1>6. CASE UNCHANGED vars
    BY <1>6 DEF vars, IInv, TypeOK, VerbFits, RowsAreAPrefix, Insertion, LineWasComplete,
       VerdictHolds, ClosedAsDecided, LineOrder, OutcomeHasItsDecisions, HooksSeeTheOutcome
  <1>7. QED
    BY <1>2, <1>3, <1>4, <1>5, <1>6 DEF Next

\* The invariant holds however many calls interleave, die or are retried.
THEOREM Invariance == Spec => []IInv
  BY InitIInv, NextIInv, PTL DEF Spec

\* Every state of the ledger and of the calls is one the code can name.
THEOREM TypeCorrect == Spec => []TypeOK
  <1>1. IInv => TypeOK
    BY DEF IInv
  <1>2. QED
    BY <1>1, Invariance, PTL

\* On a line of any length nobody acts before everyone ahead has approved.
THEOREM LineOrderHolds == Spec => []LineOrder
  <1>1. IInv => LineOrder
    BY DEF IInv
  <1>2. QED
    BY <1>1, Invariance, PTL

\* "approved" rests on the approval of a line that was complete when the calls
\* began, "rejected" on somebody's rejection.
THEOREM OutcomeIsDecided == Spec => []OutcomeHasItsDecisions
  <1>1. IInv => OutcomeHasItsDecisions
    BY DEF IInv
  <1>2. QED
    BY <1>1, Invariance, PTL

\* However many calls reach the hooks, they are handed the one outcome.
THEOREM HooksGetTheOutcome == Spec => []HooksSeeTheOutcome
  <1>1. IInv => HooksSeeTheOutcome
    BY DEF IInv
  <1>2. QED
    BY <1>1, Invariance, PTL

\* A terminal status is never overwritten, by no decision and no withdrawal.
THEOREM OutcomeIsFinal == Spec => TerminalIsFinal
  <1>1. IInv /\ [Next]_vars => ((status \in Terminal) => UNCHANGED <<status, canceledBy>>)
    <2> SUFFICES ASSUME IInv, Next, status \in Terminal
                 PROVE  UNCHANGED <<status, canceledBy>>
      BY DEF vars
    <2>1. status # "none" /\ status # "pending"
      BY DEF Terminal
    <2>2. QED
      BY <2>1 DEF Next, Submit, Decide, Cancel, DecideRead, CancelRead, Begin, SubmitRequest,
         SubmitStep, SubmitAnnounce, DecideCheck, DecideMark, DecideAdvance, DecideMove,
         DecideEffect, DecideHooks, DecideTell, CancelCheck, CancelSkip, CancelClose,
         CancelHooks, Die, ledger
  <1>2. QED
    BY <1>1, Invariance, PTL DEF Spec, TerminalIsFinal

LEMMA DecisionsStay ==
  ASSUME IInv, Next
  PROVE  \A k \in Orders : steps[k] \in Decisions => steps'[k] = steps[k]
  <1> SUFFICES ASSUME NEW k \in Orders, steps[k] \in Decisions
               PROVE  steps'[k] = steps[k]
    OBVIOUS
  <1>1. steps \in [Orders -> StepStatus] /\ steps[k] \in {"approved", "rejected"}
    BY DEF IInv, TypeOK, Decisions
  <1>2. CASE UNCHANGED steps
    BY <1>2
  <1>3. CASE steps' = SkipRest(steps)
    BY <1>1, <1>3, SkipRestKeepsDecisions
  <1>4. ASSUME NEW c \in Calls, SubmitStep(c)
        PROVE  steps'[k] = steps[k]
    <2>1. call[c].step \in Orders /\ steps[call[c].step] = "absent"
      BY <1>4 DEF IInv, TypeOK, CallState, SubmitStep, Insertion, Orders
    <2>2. QED
      BY <1>1, <1>4, <2>1 DEF SubmitStep
  <1>5. ASSUME NEW c \in Calls, DecideMark(c)
        PROVE  steps'[k] = steps[k]
    BY <1>1, <1>5 DEF DecideMark
  <1>6. ASSUME NEW c \in Calls, DecideEffect(c)
        PROVE  steps'[k] = steps[k]
    BY <1>1, <1>2, <1>3, <1>6 DEF DecideEffect
  <1>7. ASSUME NEW c \in Calls, Submit(c)
        PROVE  steps'[k] = steps[k]
    BY <1>2, <1>4, <1>7 DEF Submit, SubmitRequest, SubmitAnnounce, ledger
  <1>8. ASSUME NEW c \in Calls, Decide(c)
        PROVE  steps'[k] = steps[k]
    BY <1>2, <1>5, <1>6, <1>8 DEF Decide, DecideRead, Begin, DecideCheck, DecideAdvance,
       DecideMove, DecideHooks, DecideTell, ledger
  <1>9. ASSUME NEW c \in Calls, Cancel(c)
        PROVE  steps'[k] = steps[k]
    BY <1>2, <1>3, <1>9 DEF Cancel, CancelRead, Begin, CancelCheck, CancelSkip, CancelClose,
       CancelHooks, ledger
  <1>10. QED
    BY <1>2, <1>7, <1>8, <1>9 DEF Next, Die, ledger

\* Nobody's decision is overwritten, not even when a withdrawal races it.
THEOREM DecisionsStand == Spec => DecisionsAreFinal
  <1>1. IInv /\ [Next]_vars => \A k \in Orders : steps[k] \in Decisions => steps'[k] = steps[k]
    BY DecisionsStay DEF vars
  <1>2. QED
    BY <1>1, Invariance, PTL DEF Spec, DecisionsAreFinal

-----------------------------------------------------------------------------
(* What is told, and what is left behind, when the calls have ended.  IInv *)
(* bounds what a call in progress still has to do; the next three name it. *)

\* The call that closed the request on a decision and has not told anyone yet.
Closing(c) ==
  call[c].pc \in {"effect", "hooks", "tell"} /\ call[c].verdict.status # "pending"

\* Only one call closes the request, and it tells the requester last of all.
OneCloses ==
  /\ settledTold \in {0, 1}
  /\ status \notin Decisions => settledTold = 0
  /\ \A c \in Calls : Closing(c) => settledTold = 0 /\ \A d \in Calls : Closing(d) => d = c

\* A turn nobody was told of yet was opened by a call that is about to tell.
WillTell(c) ==
  \/ call[c].pc \in {"insert", "announce"}
  \/ call[c].pc = "tell" /\ call[c].verdict.status = "pending"
TurnWillBeTold ==
  ~died => \A k \in Orders : steps[k] = "pending" /\ turnTold[k] = 0 =>
             \E c \in Calls : WillTell(c)

\* A closed request has no step left open, or the call that closed it on a
\* rejection is about to skip what is left.
NoneOpen == \A k \in Orders : steps[k] \notin {"waiting", "pending"}
WillSkip(c) == call[c].pc = "effect" /\ call[c].verdict.status = "rejected"
RestWillBeSkipped ==
  ~early =>
    /\ status \in Terminal => \A k \in Orders : steps[k] # "absent"
    /\ \A c \in Calls : call[c].pc = "close" => NoneOpen
    /\ status = "canceled" => NoneOpen
    /\ status = "rejected" /\ ~died => NoneOpen \/ \E c \in Calls : WillSkip(c)

Acts(c) == Submit(c) \/ Decide(c) \/ Cancel(c) \/ Die(c)

\* Which query a call sends next, for the queries that matter here.
LEMMA CallMoves ==
  ASSUME IInv, NEW c \in Calls, Acts(c)
  PROVE  /\ \A d \in Calls \ {c} : call'[d] = call[d]
         /\ call'[c].pc = "effect" => DecideMove(c) /\ status = "pending" /\ Remembers(c)
                                      /\ status' = call[c].verdict.status
         /\ call'[c].pc = "hooks" => DecideEffect(c) /\ Remembers(c)
         /\ call'[c].pc = "tell" => (DecideEffect(c) \/ DecideHooks(c)) /\ Remembers(c)
         /\ call'[c].pc = "close" => CancelSkip(c)
  <1> USE DEF IInv, TypeOK
  <1> DEFINE Other == call'[c].pc \notin {"effect", "hooks", "tell", "close"}
             Goal == /\ \A d \in Calls \ {c} : call'[d] = call[d]
                     /\ call'[c].pc = "effect" =>
                          /\ DecideMove(c) /\ status = "pending" /\ Remembers(c)
                          /\ status' = call[c].verdict.status
                     /\ call'[c].pc = "hooks" => DecideEffect(c) /\ Remembers(c)
                     /\ call'[c].pc = "tell" =>
                          (DecideEffect(c) \/ DecideHooks(c)) /\ Remembers(c)
                     /\ call'[c].pc = "close" => CancelSkip(c)
  <1>1. ASSUME NEW label \in PC \ {"effect", "hooks", "tell", "close"},
               Goto(c, label) \/ Return(c)
        PROVE  Goal
    BY <1>1, GotoOrReturn
  <1>2. ASSUME NEW label \in {"insert", "check", "recheck"}, NEW k, NEW verb, NEW row,
               Enter(c, label, k, verb, row)
        PROVE  Goal
    <2>1. call'[c].pc = label /\ \A d \in Calls \ {c} : call'[d] = call[d]
      BY <1>2 DEF Enter
    <2>2. QED
      BY <2>1
  <1>3. CASE Submit(c)
    <2>1. CASE SubmitStep(c)
      BY <2>1, SubmitStepEffect
    <2>2. QED
      BY <1>1, <1>2, <1>3, <2>1 DEF Submit, SubmitRequest, SubmitAnnounce, PC
  <1>4. CASE DecideMove(c)
    <2>1. CASE Return(c)
      BY <1>1, <2>1 DEF PC
    <2>2. CASE Goto(c, "effect")
      <3>1. /\ \A d \in Calls \ {c} : call'[d] = call[d]
            /\ call'[c].pc = "effect" /\ Remembers(c)
        BY <2>2, GotoEffect DEF Remembers, PC
      <3>2. status = "pending" /\ status' = call[c].verdict.status
        BY <1>4, <3>1, ReturnEffect DEF DecideMove
      <3>3. QED
        BY <1>4, <3>1, <3>2
    <2>3. QED
      BY <1>4, <2>1, <2>2 DEF DecideMove
  <1>5. CASE DecideEffect(c)
    <2>1. /\ \A d \in Calls \ {c} : call'[d] = call[d]
          /\ call'[c].pc \in {"tell", "hooks"} /\ Remembers(c)
      BY <1>5, GotoEffect DEF DecideEffect, PC, Remembers
    <2>2. QED
      BY <1>5, <2>1
  <1>6. CASE DecideHooks(c)
    <2>1. /\ \A d \in Calls \ {c} : call'[d] = call[d]
          /\ call'[c].pc = "tell" /\ Remembers(c)
      BY <1>6, GotoEffect DEF DecideHooks, PC, Remembers
    <2>2. QED
      BY <1>6, <2>1
  <1>7. CASE DecideAdvance(c)
    BY <1>7, AdvanceEffect
  <1>8. CASE DecideCheck(c) \/ DecideMark(c) \/ DecideTell(c)
    BY <1>1, <1>8 DEF DecideCheck, DecideMark, DecideTell, PC
  <1>9. CASE \E k \in Orders, action \in Decisions : DecideRead(c, k, action)
    BY <1>2, <1>9 DEF DecideRead, Begin
  <1>10. CASE CancelSkip(c)
    <2>1. /\ \A d \in Calls \ {c} : call'[d] = call[d]
          /\ call'[c].pc = "close"
      BY <1>10, GotoEffect DEF CancelSkip, PC
    <2>2. QED
      BY <1>10, <2>1
  <1>11. CASE CancelCheck(c) \/ CancelClose(c) \/ CancelHooks(c) \/ Die(c)
    BY <1>1, <1>11 DEF CancelCheck, CancelClose, CancelHooks, Die, PC
  <1>12. CASE \E by \in {"requester", "system"} : CancelRead(c, by)
    BY <1>2, <1>12 DEF CancelRead, Begin
  <1>13. QED
    BY <1>3, <1>4, <1>5, <1>6, <1>7, <1>8, <1>9, <1>10, <1>11, <1>12 DEF Acts, Decide, Cancel

\* The status of a closed request never changes.
LEMMA ClosedStays ==
  ASSUME IInv, NEW c \in Calls, Acts(c), status \in Terminal
  PROVE  UNCHANGED <<status, canceledBy>>
  <1>1. status # "none" /\ status # "pending"
    BY DEF Terminal
  <1>2. QED
    BY <1>1 DEF Acts, Submit, Decide, Cancel, DecideRead, CancelRead, Begin, SubmitRequest,
       SubmitStep, SubmitAnnounce, DecideCheck, DecideMark, DecideAdvance, DecideMove,
       DecideEffect, DecideHooks, DecideTell, CancelCheck, CancelSkip, CancelClose,
       CancelHooks, Die, ledger

\* A second call that closes the request is impossible: the first one closed it.
LEMMA OneClosesStays ==
  ASSUME IInv, OneCloses, NEW c \in Calls, Acts(c)
  PROVE  OneCloses'
  <1>1. /\ \A d \in Calls \ {c} : call'[d] = call[d]
        /\ call'[c].pc = "effect" => DecideMove(c) /\ status = "pending" /\ Remembers(c)
        /\ call'[c].pc = "hooks" => DecideEffect(c) /\ Remembers(c)
        /\ call'[c].pc = "tell" => (DecideEffect(c) \/ DecideHooks(c)) /\ Remembers(c)
    BY CallMoves
  <1>2. status \in Decisions => status' = status
    BY ClosedStays DEF Decisions, Terminal
  <1>3. \A d \in Calls : Closing(d) => status \in Decisions
    BY DEF IInv, ClosedAsDecided, Closing
  <1>4. CASE DecideTell(c) /\ call[c].verdict.status # "pending"
    <2>1. Closing(c) /\ status' = status
      BY <1>4 DEF DecideTell, Closing, ledger
    <2>2. settledTold' = 1 /\ status \in Decisions
      BY <1>3, <1>4, <2>1 DEF DecideTell, OneCloses, Bump
    <2>3. call'[c].pc = "idle"
      BY <1>4, ReturnEffect DEF DecideTell, IInv, TypeOK
    <2>4. \A d \in Calls : ~Closing(d)'
      BY <1>1, <2>1, <2>3 DEF OneCloses, Closing
    <2>5. QED
      BY <2>1, <2>2, <2>4 DEF OneCloses
  <1>5. CASE ~(DecideTell(c) /\ call[c].verdict.status # "pending")
    <2>1. settledTold' = settledTold
      BY <1>5 DEF Acts, Submit, Decide, Cancel, DecideRead, CancelRead, Begin, SubmitRequest,
         SubmitStep, SubmitAnnounce, DecideCheck, DecideMark, DecideAdvance, DecideMove,
         DecideEffect, DecideHooks, DecideTell, CancelCheck, CancelSkip, CancelClose,
         CancelHooks, Die, notices
    <2>2. Closing(c)' => Closing(c) \/ status = "pending"
      BY <1>1 DEF Closing, Remembers, DecideEffect, DecideHooks
    <2>3. \A d \in Calls \ {c} : Closing(d)' <=> Closing(d)
      BY <1>1 DEF Closing
    <2>4. CASE status = "pending"
      <3>1. status \notin Decisions
        BY <2>4 DEF Decisions
      <3>2. settledTold = 0 /\ \A d \in Calls : ~Closing(d)
        BY <1>3, <3>1 DEF OneCloses
      <3>3. QED
        BY <2>1, <2>3, <3>2 DEF OneCloses
    <2>5. CASE status # "pending"
      BY <1>2, <2>1, <2>2, <2>3, <2>5 DEF OneCloses
    <2>6. QED
      BY <2>4, <2>5
  <1>6. QED
    BY <1>4, <1>5

\* A call that opens a turn goes on until it has told, or dies.
LEMMA TurnWillBeToldStays ==
  ASSUME IInv, IInv', TurnWillBeTold, NEW c \in Calls, Acts(c)
  PROVE  TurnWillBeTold'
  <1> USE DEF IInv, TypeOK
  <1>1. \A d \in Calls \ {c} : call'[d] = call[d]
    BY CallMoves
  <1>2. \A d \in Calls \ {c} : WillTell(d)' <=> WillTell(d)
    BY <1>1 DEF WillTell
  <1>3. CASE (DecideTell(c) /\ call[c].verdict.status = "pending") \/ SubmitAnnounce(c)
    <2>1. /\ UNCHANGED steps
          /\ \A k \in Orders : steps[k] = "pending" => turnTold'[k] = Bump(turnTold[k])
      BY <1>3 DEF DecideTell, SubmitAnnounce, ledger
    <2>2. \A n \in 0..2 : Bump(n) # 0
      BY DEF Bump
    <2>3. QED
      BY <2>1, <2>2 DEF TurnWillBeTold
  <1>4. CASE Die(c)
    BY <1>4 DEF Die, TurnWillBeTold
  <1>5. CASE SubmitStep(c)
    <2>1. WillTell(c)'
      BY <1>5, SubmitStepEffect DEF WillTell
    <2>2. QED
      BY <2>1 DEF TurnWillBeTold
  <1>6. CASE DecideEffect(c) /\ call[c].verdict.status = "pending"
    <2>1. WillTell(c)'
      BY <1>6, GotoEffect DEF WillTell, DecideEffect, PC
    <2>2. QED
      BY <2>1 DEF TurnWillBeTold
  <1>7. ASSUME ~WillTell(c), UNCHANGED <<turnTold, died>>,
               \A k \in Orders : steps'[k] = "pending" => steps[k] = "pending"
        PROVE  TurnWillBeTold'
    BY <1>2, <1>7 DEF TurnWillBeTold
  <1>8. CASE UNCHANGED <<steps, turnTold, died>> /\ ~WillTell(c)
    BY <1>7, <1>8
  <1>9. CASE SubmitRequest(c) \/ \E label \in PC, k \in Orders, verb \in Verbs : Begin(c, label, k, verb)
    BY <1>8, <1>9 DEF SubmitRequest, Begin, WillTell, ledger, notices, history
  <1>10. CASE \/ DecideCheck(c) \/ DecideAdvance(c) \/ DecideMove(c) \/ DecideHooks(c)
              \/ DecideTell(c) /\ call[c].verdict.status # "pending"
    BY <1>8, <1>10 DEF DecideCheck, DecideAdvance, DecideMove, DecideHooks, DecideTell,
       WillTell, ledger, notices, history
  <1>11. CASE CancelCheck(c) \/ CancelClose(c) \/ CancelHooks(c)
    BY <1>8, <1>11 DEF CancelCheck, CancelClose, CancelHooks, WillTell, ledger, notices,
       history
  <1>12. CASE DecideMark(c)
    <2>1. \A k \in Orders : steps'[k] = "pending" => steps[k] = "pending"
      BY <1>12 DEF DecideMark, VerbFits, Decisions
    <2>2. ~WillTell(c) /\ UNCHANGED <<turnTold, died>>
      BY <1>12 DEF DecideMark, WillTell, notices, history
    <2>3. QED
      BY <1>7, <2>1, <2>2
  <1>13. CASE CancelSkip(c)
    <2>1. \A k \in Orders : steps'[k] = "pending" => steps[k] = "pending"
      BY <1>13, SkipRestKeepsDecisions DEF CancelSkip
    <2>2. ~WillTell(c) /\ UNCHANGED <<turnTold, died>>
      BY <1>13 DEF CancelSkip, WillTell, notices, history
    <2>3. QED
      BY <1>7, <2>1, <2>2
  <1>14. CASE DecideEffect(c) /\ call[c].verdict.status # "pending"
    <2>1. \A k \in Orders : steps'[k] = "pending" => steps[k] = "pending"
      BY <1>14, SkipRestKeepsDecisions DEF DecideEffect
    <2>2. ~WillTell(c) /\ UNCHANGED <<turnTold, died>>
      BY <1>14 DEF DecideEffect, WillTell, notices, history
    <2>3. QED
      BY <1>7, <2>1, <2>2
  <1>15. CASE Submit(c)
    BY <1>3, <1>5, <1>9, <1>15 DEF Submit
  <1>16. CASE Decide(c)
    <2>1. ASSUME NEW k \in Orders, NEW action \in Decisions, DecideRead(c, k, action)
          PROVE  TurnWillBeTold'
      BY <1>9, <2>1 DEF DecideRead, PC, Verbs, Decisions
    <2>2. QED
      BY <1>3, <1>6, <1>10, <1>12, <1>14, <1>16, <2>1 DEF Decide
  <1>17. CASE Cancel(c)
    <2>1. ASSUME NEW by \in {"requester", "system"}, CancelRead(c, by)
          PROVE  TurnWillBeTold'
      <3>1. 1 \in Orders
        BY NAssumption DEF Orders
      <3>2. QED
        BY <1>9, <2>1, <3>1 DEF CancelRead, PC, Verbs
    <2>2. QED
      BY <1>11, <1>13, <1>17, <2>1 DEF Cancel
  <1>18. QED
    BY <1>4, <1>15, <1>16, <1>17 DEF Acts

\* Where nothing is open, nothing is opened: a step gets the turn from "waiting".
LEMMA NoneOpenStays ==
  ASSUME IInv, NoneOpen, NEW c \in Calls, Acts(c), \A k \in Orders : steps[k] # "absent"
  PROVE  NoneOpen'
  <1> USE DEF IInv, TypeOK
  <1>1. CASE UNCHANGED steps
    BY <1>1 DEF NoneOpen
  <1>2. CASE steps' = SkipRest(steps)
    BY <1>2, SkipRestKeepsDecisions DEF NoneOpen
  <1>3. ~SubmitStep(c)
    BY DEF SubmitStep, Insertion, CallState, Orders
  <1>4. CASE DecideMark(c)
    BY <1>4 DEF DecideMark, NoneOpen, VerbFits, Decisions
  <1>5. CASE DecideEffect(c)
    BY <1>1, <1>2, <1>5 DEF DecideEffect, NoneOpen
  <1>6. QED
    BY <1>1, <1>2, <1>3, <1>4, <1>5 DEF Acts, Submit, Decide, Cancel, DecideRead, CancelRead,
       Begin, SubmitRequest, SubmitAnnounce, DecideCheck, DecideAdvance, DecideMove,
       DecideHooks, DecideTell, CancelCheck, CancelSkip, CancelClose, CancelHooks, Die, ledger

\* The steps of a complete line stay in the ledger.
LEMMA RowsRemain ==
  ASSUME IInv, IInv', NEW c \in Calls, Acts(c), NEW k \in Orders, steps[k] # "absent"
  PROVE  steps'[k] # "absent"
  <1> USE DEF IInv, TypeOK
  <1>1. CASE UNCHANGED steps
    BY <1>1
  <1>2. CASE steps' = SkipRest(steps)
    BY <1>2, SkipRestKeepsDecisions
  <1>3. CASE SubmitStep(c)
    BY <1>3 DEF SubmitStep, OpenedAs
  <1>4. CASE DecideMark(c)
    BY <1>4 DEF DecideMark, VerbFits, Decisions
  <1>5. CASE DecideEffect(c)
    BY <1>1, <1>2, <1>5 DEF DecideEffect
  <1>6. QED
    BY <1>1, <1>2, <1>3, <1>4, <1>5 DEF Acts, Submit, Decide, Cancel, DecideRead, CancelRead,
       Begin, SubmitRequest, SubmitAnnounce, DecideCheck, DecideAdvance, DecideMove,
       DecideHooks, DecideTell, CancelCheck, CancelSkip, CancelClose, CancelHooks, Die, ledger

\* A call ends the request only after it, or before it, the rest is skipped.
LEMMA RestWillBeSkippedStays ==
  ASSUME IInv, IInv', RestWillBeSkipped, NEW c \in Calls, Acts(c)
  PROVE  RestWillBeSkipped'
  <1> USE DEF IInv
  <1>1. CASE early'
    BY <1>1 DEF RestWillBeSkipped
  <1> SUFFICES ASSUME ~early'
               PROVE  RestWillBeSkipped'
    BY <1>1
  <1>2. ~early
    BY DEF Acts, Submit, Decide, Cancel, DecideRead, CancelRead, Begin, SubmitRequest,
       SubmitStep, SubmitAnnounce, DecideCheck, DecideMark, DecideAdvance, DecideMove,
       DecideEffect, DecideHooks, DecideTell, CancelCheck, CancelSkip, CancelClose,
       CancelHooks, Die, history
  <1>3. /\ \A d \in Calls \ {c} : call'[d] = call[d]
        /\ call'[c].pc = "close" => CancelSkip(c)
        /\ call'[c].pc = "effect" => DecideMove(c) /\ Remembers(c)
    BY CallMoves
  <1>4. call[c].pc \in {"move", "close", "skip"} => \A k \in Orders : steps[k] # "absent"
    BY <1>2 DEF LineWasComplete
  <1>5. \/ status' = status
        \/ status = "none" /\ status' = "pending"
        \/ DecideMove(c) /\ call[c].pc = "move" /\ status' = call[c].verdict.status
                         /\ call'[c].pc = "effect" /\ call'[c].verdict = call[c].verdict
        \/ call[c].pc = "close" /\ status' = "canceled"
    <2>1. CASE DecideMove(c)
      <3>1. CASE Return(c) /\ UNCHANGED status
        BY <3>1
      <3>2. CASE Goto(c, "effect") /\ status' = call[c].verdict.status
        BY <2>1, <3>2, GotoEffect DEF DecideMove, TypeOK, PC
      <3>3. QED
        BY <2>1, <3>1, <3>2 DEF DecideMove
    <2>2. QED
      BY <2>1 DEF Acts, Submit, Decide, Cancel, DecideRead, CancelRead, Begin, SubmitRequest,
         SubmitStep, SubmitAnnounce, DecideCheck, DecideMark, DecideAdvance,
         DecideEffect, DecideHooks, DecideTell, CancelCheck, CancelSkip, CancelClose,
         CancelHooks, Die, ledger
  <1>6. status' \in Terminal => \A k \in Orders : steps'[k] # "absent"
    <2>1. ASSUME status' \in Terminal
          PROVE  \A k \in Orders : steps[k] # "absent"
      BY <1>2, <1>4, <1>5, <2>1 DEF RestWillBeSkipped, Terminal
    <2>2. QED
      BY <2>1, RowsRemain
  <1>7. ASSUME NEW d \in Calls, call'[d].pc = "close"
        PROVE  NoneOpen'
    <2>1. CASE d = c
      BY <1>3, <1>7, <2>1, SkipRestKeepsDecisions DEF CancelSkip, NoneOpen, TypeOK
    <2>2. CASE d # c
      <3>1. call[d].pc = "close" /\ NoneOpen
        BY <1>2, <1>3, <1>7, <2>2 DEF RestWillBeSkipped
      <3>2. \A k \in Orders : steps[k] # "absent"
        BY <1>2, <3>1 DEF LineWasComplete
      <3>3. QED
        BY <3>1, <3>2, NoneOpenStays
    <2>3. QED
      BY <2>1, <2>2
  <1>8. ASSUME status' = "canceled"
        PROVE  NoneOpen'
    <2>1. \/ status = "canceled"
          \/ call[c].pc = "close"
      BY <1>5, <1>8 DEF VerdictHolds
    <2>2. NoneOpen /\ \A k \in Orders : steps[k] # "absent"
      BY <1>2, <1>4, <2>1 DEF RestWillBeSkipped, Terminal
    <2>3. QED
      BY <2>2, NoneOpenStays
  <1>9. ASSUME status' = "rejected", ~died'
        PROVE  NoneOpen' \/ \E d \in Calls : WillSkip(d)'
    <2>1. ~Die(c) /\ ~died
      BY <1>9 DEF Acts, Submit, Decide, Cancel, DecideRead, CancelRead, Begin, SubmitRequest,
         SubmitStep, SubmitAnnounce, DecideCheck, DecideMark, DecideAdvance, DecideMove,
         DecideEffect, DecideHooks, DecideTell, CancelCheck, CancelSkip, CancelClose,
         CancelHooks, Die, history
    <2>2. CASE status # "rejected"
      BY <1>5, <1>9, <2>2 DEF WillSkip
    <2>3. CASE status = "rejected" /\ NoneOpen
      <3>1. \A k \in Orders : steps[k] # "absent"
        BY <1>2, <2>3 DEF RestWillBeSkipped, Terminal
      <3>2. QED
        BY <2>3, <3>1, NoneOpenStays
    <2>4. ASSUME NEW d \in Calls, WillSkip(d), d # c
          PROVE  NoneOpen' \/ \E e \in Calls : WillSkip(e)'
      BY <1>3, <2>4 DEF WillSkip
    <2>5. CASE WillSkip(c)
      <3>1. call[c].pc = "effect" /\ call[c].verdict.status = "rejected"
        BY <2>5 DEF WillSkip
      <3>2. DecideEffect(c)
        BY <2>1, <3>1 DEF Acts, Submit, Decide, Cancel, DecideRead, CancelRead, Begin,
           SubmitRequest, SubmitStep, SubmitAnnounce, DecideCheck, DecideMark, DecideAdvance,
           DecideMove, DecideHooks, DecideTell, CancelCheck, CancelSkip, CancelClose,
           CancelHooks
      <3>3. QED
        BY <3>1, <3>2, SkipRestKeepsDecisions DEF DecideEffect, NoneOpen, TypeOK
    <2>6. QED
      BY <1>2, <2>1, <2>2, <2>3, <2>4, <2>5 DEF RestWillBeSkipped
  <1>10. QED
    BY <1>6, <1>7, <1>8, <1>9 DEF RestWillBeSkipped

TInv == OneCloses /\ TurnWillBeTold /\ RestWillBeSkipped

\* Every call that ran to its end has told and skipped what it had to.
THEOREM NothingIsForgotten == Spec => []TInv
  <1>1. Init => TInv
    BY DEF Init, Idle, NoRow, TInv, OneCloses, Closing, TurnWillBeTold, RestWillBeSkipped,
       Decisions, Terminal
  <1>2. IInv /\ IInv' /\ TInv /\ [Next]_vars => TInv'
    <2> SUFFICES ASSUME IInv, IInv', TInv, [Next]_vars
                 PROVE  TInv'
      OBVIOUS
    <2>1. CASE Next
      <3>1. PICK c \in Calls : Acts(c)
        BY <2>1 DEF Next, Acts
      <3>2. QED
        BY <3>1, OneClosesStays, TurnWillBeToldStays, RestWillBeSkippedStays DEF TInv
    <2>2. CASE UNCHANGED vars
      BY <2>2 DEF vars, TInv, OneCloses, Closing, TurnWillBeTold, WillTell,
         RestWillBeSkipped, WillSkip, NoneOpen
    <2>3. QED
      BY <2>1, <2>2
  <1>3. QED
    BY <1>1, <1>2, Invariance, PTL DEF Spec

\* The requester is told of the end once, by the one call that closed the
\* request, however many decisions and retries reach the last query.
THEOREM RequesterIsToldOnce == Spec => []SettledToldOnce
  <1>1. TInv => SettledToldOnce
    BY DEF TInv, OneCloses, SettledToldOnce
  <1>2. QED
    BY <1>1, NothingIsForgotten, PTL

\* Once no call is in progress and none died, a closed request has no open step
\* and every turn was announced, on a line of any length.
THEOREM QuietLedgerTidied == Spec => []QuietLedgerIsTidy
  <1>1. IInv /\ TInv => QuietLedgerIsTidy
    <2> SUFFICES ASSUME IInv, TInv, AllIdle, ~died, ~early, NEW k \in Orders
                 PROVE  /\ status \in Terminal => steps[k] \notin {"waiting", "pending"}
                        /\ steps[k] = "pending" => turnTold[k] >= 1
      BY DEF QuietLedgerIsTidy
    <2>1. /\ \A c \in Calls : ~WillTell(c) /\ ~WillSkip(c)
      BY DEF AllIdle, WillTell, WillSkip
    <2>2. status \in Terminal => steps[k] \notin {"waiting", "pending"}
      <3>1. status = "approved" => steps[k] = "approved"
        BY DEF IInv, OutcomeHasItsDecisions
      <3>2. status \in {"canceled", "rejected"} => NoneOpen
        BY <2>1 DEF TInv, RestWillBeSkipped
      <3>3. QED
        BY <3>1, <3>2 DEF NoneOpen, Terminal
    <2>3. steps[k] = "pending" => turnTold[k] # 0
      BY <2>1 DEF TInv, TurnWillBeTold
    <2>4. turnTold[k] \in 0..2
      BY DEF IInv, TypeOK
    <2>5. QED
      BY <2>2, <2>3, <2>4
  <1>2. QED
    BY <1>1, Invariance, NothingIsForgotten, PTL

=============================================================================
