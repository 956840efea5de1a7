---------------------------- MODULE ApprovalStore ----------------------------
(***************************************************************************)
(* approval/store.py: submit, decide, cancel and system_cancel of a        *)
(* request without a follow-up line.  Every query the code sends is a      *)
(* transaction of its own, so every query is a step of its own here, and   *)
(* calls that run in different requests or pods interleave between them.   *)
(*                                                                         *)
(* plan_steps numbers the line 1..N and refuses a repeated approver, so a  *)
(* step's order also names its approver.                                   *)
(***************************************************************************)
EXTENDS ApprovalEngine

CONSTANTS
  N,      \* number of steps of the submitted line
  Calls   \* handler invocations that can be in progress at once

ASSUME NAssumption == N \in Nat \ {0}

Orders == 1..N

VARIABLES
  status,      \* approval_requests.status, "none" before the INSERT
  current,     \* approval_requests.current_step_order
  canceledBy,  \* approval_requests.canceled_by
  steps,       \* approval_request_steps: order -> status
  call,        \* the calls in progress
  handed,      \* outcomes handed to the settlement hooks
  turnTold,    \* "your turn" notices per step, counted up to 2
  settledTold, \* "settled" notices to the requester, counted up to 2
  early,       \* some call read a line whose steps were not all inserted
  died         \* some call ended before its last query

ledger == <<status, current, canceledBy, steps>>
notices == <<turnTold, settledTold>>
history == <<early, died>>
vars == <<status, current, canceledBy, steps, call, handed, turnTold, settledTold, early, died>>

PC == {"idle", "insert", "announce",
       "check", "mark", "reread", "move", "effect", "hooks", "tell",
       "recheck", "skip", "close", "cleanup"}
Verbs == {"none", "approved", "rejected", "requester", "system"}
Row == [status : RequestStatus \cup {"none"}, current : Orders]
NoRow == [status |-> "none", current |-> 1]
CallState == [pc : PC, step : Orders, verb : Verbs, seen : Row, verdict : Row]
Idle == [pc |-> "idle", step |-> 1, verb |-> "none", seen |-> NoRow, verdict |-> NoRow]

Bump(n) == IF n < 2 THEN n + 1 ELSE n
ThisRow == [status |-> status, current |-> current]

Enter(c, label, k, verb, row) ==
  call' = [call EXCEPT ![c] = [pc |-> label, step |-> k, verb |-> verb,
                               seen |-> row, verdict |-> NoRow]]
Goto(c, label) == call' = [call EXCEPT ![c].pc = label]
Return(c) == call' = [call EXCEPT ![c] = Idle]

-----------------------------------------------------------------------------
(* Every call starts by reading the request row: the first query of get(). *)
Begin(c, label, k, verb) ==
  /\ call[c].pc = "idle"
  /\ status # "none"
  /\ Enter(c, label, k, verb, ThisRow)
  /\ early' = (early \/ \E j \in Orders : steps[j] = "absent")
  /\ UNCHANGED <<ledger, handed, notices, died>>

\* submit: the request row is inserted, open and at step 1 ...
SubmitRequest(c) ==
  /\ call[c].pc = "idle"
  /\ status = "none"
  /\ status' = "pending"
  /\ current' = 1
  /\ Enter(c, "insert", 1, "none", NoRow)
  /\ UNCHANGED <<canceledBy, steps, handed, notices, history>>

\* ... then the steps, one INSERT each, in order ...
SubmitStep(c) ==
  /\ call[c].pc = "insert"
  /\ steps' = [steps EXCEPT ![call[c].step] = OpenedAs(call[c].step)]
  /\ IF call[c].step = N
     THEN Goto(c, "announce")
     ELSE call' = [call EXCEPT ![c].step = @ + 1]
  /\ UNCHANGED <<status, current, canceledBy, handed, notices, history>>

\* ... and whoever has the turn by then is told.
SubmitAnnounce(c) ==
  /\ call[c].pc = "announce"
  /\ turnTold' = [k \in Orders |-> IF steps[k] = "pending" THEN Bump(turnTold[k])
                                                           ELSE turnTold[k]]
  /\ Return(c)
  /\ UNCHANGED <<ledger, handed, settledTold, history>>

-----------------------------------------------------------------------------
DecideRead(c, k, action) == Begin(c, "check", k, action)

\* The second query of get() reads the steps; engine.decide judges both reads.
DecideCheck(c) ==
  /\ call[c].pc = "check"
  /\ IF MayDecide(call[c].seen.status, steps, call[c].step)
     THEN Goto(c, "mark")
     ELSE Return(c)
  /\ UNCHANGED <<ledger, handed, notices, history>>

DecideMarkWrong(c) ==   \* writes without WHERE status = 'pending'
  /\ call[c].pc = "mark"
  /\ steps' = [steps EXCEPT ![call[c].step] = call[c].verb]
  /\ Goto(c, "reread")
  /\ UNCHANGED <<status, current, canceledBy, handed, notices, history>>

\* (2) my step, only while it is pending.
DecideMark(c) ==
  /\ call[c].pc = "mark"
  /\ IF steps[call[c].step] = "pending"
     THEN /\ steps' = [steps EXCEPT ![call[c].step] = call[c].verb]
          /\ Goto(c, "reread")
     ELSE /\ Return(c)
          /\ UNCHANGED steps
  /\ UNCHANGED <<status, current, canceledBy, handed, notices, history>>

\* (3) the steps are read again; the order is the one read at the start.
DecideAdvance(c) ==
  /\ call[c].pc = "reread"
  /\ LET verdict == Advance(steps, call[c].seen.current)
     IN  IF verdict.status # "pending" \/ verdict.current # call[c].seen.current
         THEN call' = [call EXCEPT ![c].pc = "move", ![c].verdict = verdict]
         ELSE Return(c)
  /\ UNCHANGED <<ledger, handed, notices, history>>

\* (4) the request moves only if it still is where the call saw it.
DecideMove(c) ==
  /\ call[c].pc = "move"
  /\ IF status = "pending" /\ current = call[c].seen.current
     THEN /\ status' = call[c].verdict.status
          /\ current' = call[c].verdict.current
          /\ Goto(c, "effect")
     ELSE /\ Return(c)
          /\ UNCHANGED <<status, current>>
  /\ UNCHANGED <<canceledBy, steps, handed, notices, history>>

\* The winner of (4) skips the rest of a rejected line or opens the next step.
DecideEffect(c) ==
  LET verdict == call[c].verdict
  IN  /\ call[c].pc = "effect"
      /\ \/ verdict.status = "rejected" /\ steps' = SkipRest(steps)
         \/ verdict.status = "approved" /\ UNCHANGED steps
         \/ /\ verdict.status = "pending"
            /\ steps' = [steps EXCEPT ![verdict.current] = IF @ = "waiting" THEN "pending" ELSE @]
      /\ Goto(c, IF verdict.status = "pending" THEN "tell" ELSE "hooks")
      /\ UNCHANGED <<status, current, canceledBy, handed, notices, history>>

DecideHooksWrong(c) ==   \* the hooks get the snapshot the call began with
  /\ call[c].pc = "hooks"
  /\ handed' = handed \cup {call[c].seen.status}
  /\ Goto(c, "tell")
  /\ UNCHANGED <<ledger, notices, history>>

\* The ledger is read once more and the hooks get the outcome it shows.
DecideHooks(c) ==
  /\ call[c].pc = "hooks"
  /\ handed' = handed \cup {status}
  /\ Goto(c, "tell")
  /\ UNCHANGED <<ledger, notices, history>>

DecideTellWrong(c) ==   \* reports what the ledger says now, not what this call did
  /\ call[c].pc = "tell"
  /\ IF status = "pending"
     THEN /\ turnTold' = [k \in Orders |-> IF steps[k] = "pending" THEN Bump(turnTold[k])
                                                                   ELSE turnTold[k]]
          /\ UNCHANGED settledTold
     ELSE /\ settledTold' = IF status \in Decisions THEN Bump(settledTold) ELSE settledTold
          /\ UNCHANGED turnTold
  /\ Return(c)
  /\ UNCHANGED <<ledger, handed, history>>

\* The winner tells the approvers whose turn it is, or the requester.
DecideTell(c) ==
  /\ call[c].pc = "tell"
  /\ IF call[c].verdict.status = "pending"
     THEN /\ turnTold' = [k \in Orders |-> IF steps[k] = "pending" THEN Bump(turnTold[k])
                                                                   ELSE turnTold[k]]
          /\ UNCHANGED settledTold
     ELSE /\ settledTold' = IF status \in Decisions THEN Bump(settledTold) ELSE settledTold
          /\ UNCHANGED turnTold
  /\ Return(c)
  /\ UNCHANGED <<ledger, handed, history>>

-----------------------------------------------------------------------------
CancelRead(c, by) == Begin(c, "recheck", 1, by)

\* The requester may withdraw what nobody approved, the system what is open.
CancelCheck(c) ==
  /\ call[c].pc = "recheck"
  /\ IF IF call[c].verb = "requester" THEN MayCancel(call[c].seen.status, steps)
                                      ELSE call[c].seen.status = "pending"
     THEN Goto(c, "skip")
     ELSE Return(c)
  /\ UNCHANGED <<ledger, handed, notices, history>>

\* _close_as_canceled: first the steps that are not decided yet ...
CancelSkip(c) ==
  /\ call[c].pc = "skip"
  /\ steps' = SkipRest(steps)
  /\ Goto(c, "close")
  /\ UNCHANGED <<status, current, canceledBy, handed, notices, history>>

CancelCloseWrong(c) ==   \* closes whatever the request has become meanwhile
  /\ call[c].pc = "close"
  /\ status' = "canceled"
  /\ canceledBy' = call[c].verb
  /\ Goto(c, "cleanup")
  /\ UNCHANGED <<current, steps, handed, notices, history>>

\* ... then the request, if it is still open ...
CancelClose(c) ==
  /\ call[c].pc = "close"
  /\ IF status = "pending"
     THEN /\ status' = "canceled"
          /\ canceledBy' = call[c].verb
     ELSE UNCHANGED <<status, canceledBy>>
  /\ Goto(c, "cleanup")
  /\ UNCHANGED <<current, steps, handed, notices, history>>

\* ... and the hooks get what the ledger says now.
CancelHooks(c) ==
  /\ call[c].pc = "cleanup"
  /\ handed' = handed \cup {status}
  /\ Return(c)
  /\ UNCHANGED <<ledger, notices, history>>

-----------------------------------------------------------------------------
(* The pod dies, a query raises, or a query that committed is retried and  *)
(* finds nothing to update: the call ends where it is.                     *)
Die(c) ==
  /\ call[c].pc # "idle"
  /\ died' = TRUE
  /\ Return(c)
  /\ UNCHANGED <<ledger, handed, notices, early>>

Init ==
  /\ status = "none"
  /\ current = 1
  /\ canceledBy = "none"
  /\ steps = [k \in Orders |-> "absent"]
  /\ call = [c \in Calls |-> Idle]
  /\ handed = {}
  /\ turnTold = [k \in Orders |-> 0]
  /\ settledTold = 0
  /\ early = FALSE
  /\ died = FALSE

Submit(c) == SubmitRequest(c) \/ SubmitStep(c) \/ SubmitAnnounce(c)
Decide(c) ==
  \/ \E k \in Orders, action \in Decisions : DecideRead(c, k, action)
  \/ DecideCheck(c) \/ DecideMark(c) \/ DecideAdvance(c) \/ DecideMove(c)
  \/ DecideEffect(c) \/ DecideHooks(c) \/ DecideTell(c)
Cancel(c) ==
  \/ \E by \in {"requester", "system"} : CancelRead(c, by)
  \/ CancelCheck(c) \/ CancelSkip(c) \/ CancelClose(c) \/ CancelHooks(c)

Next == \E c \in Calls : Submit(c) \/ Decide(c) \/ Cancel(c) \/ Die(c)

Spec == Init /\ [][Next]_vars

-----------------------------------------------------------------------------
TypeOK ==
  /\ status \in RequestStatus \cup {"none"}
  /\ current \in Orders
  /\ canceledBy \in {"none", "requester", "system"}
  /\ steps \in [Orders -> StepStatus]
  /\ call \in [Calls -> CallState]
  /\ handed \in SUBSET (RequestStatus \cup {"none"})
  /\ turnTold \in [Orders -> 0..2]
  /\ settledTold \in 0..2
  /\ early \in BOOLEAN
  /\ died \in BOOLEAN

\* A step has the turn or a decision only after everyone before it approved:
\* "A must approve before it goes to B" (engine.py), whatever calls race or die.
LineOrder ==
  \A k \in Orders : steps[k] \in {"pending", "approved", "rejected"} =>
    \A j \in Orders : j < k => steps[j] = "approved"

\* An approved request was approved by the whole line (if nobody acted before
\* submit had written all of it), a rejected one was rejected by someone on it.
OutcomeHasItsDecisions ==
  /\ status = "approved" /\ ~early => \A k \in Orders : steps[k] = "approved"
  /\ status = "rejected" => \E k \in Orders : steps[k] = "rejected"

\* The hooks are handed the outcome of the request and no other: no reject hook
\* on an approved request, nothing handed over while it is open.
HooksSeeTheOutcome == handed # {} => handed = {status} /\ status \in Terminal

\* The requester hears of the end at most once, and only of an end that came.
SettledToldOnce ==
  /\ settledTold <= 1
  /\ settledTold = 1 => status \in Decisions

AllIdle == \A c \in Calls : call[c].pc = "idle"

\* When every call ran to its end, a closed request has no step left open
\* and whoever has the turn has been told so.
QuietLedgerIsTidy ==
  AllIdle /\ ~died /\ ~early =>
    \A k \in Orders :
      /\ status \in Terminal => steps[k] \notin {"waiting", "pending"}
      /\ steps[k] = "pending" => turnTold[k] >= 1

\* The outcome of a closed request never changes.
TerminalIsFinal == [][(status \in Terminal) => UNCHANGED <<status, canceledBy>>]_vars

\* A decision someone made is never overwritten, not even by a withdrawal.
DecisionsAreFinal ==
  [][\A k \in Orders : steps[k] \in Decisions => steps'[k] = steps[k]]_vars
=============================================================================
