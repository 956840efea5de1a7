-------------------------- MODULE FollowupDecision --------------------------
(***************************************************************************)
(* approval/followup.py: decisions on a request whose line may be continued *)
(* by a second one.  decision and cancel hold the request's rows (SELECT   *)
(* ... FOR UPDATE) for one transaction, connecting a line also holds the   *)
(* configuration tables, so what they write becomes visible at once; the   *)
(* reads, hooks and notices after the commit interleave freely.            *)
(***************************************************************************)
EXTENDS ApprovalEngine, Sequences

CONSTANTS
  Approvers,  \* users who stand on a line
  FirstLine,  \* the submitted line: a sequence of distinct approvers
  Lines,      \* the follow-up lines allowed at submission
  MaxVersion, \* bound on the edits of a follow-up line
  LineSteps,  \* LineSteps[l][v]: approvers of line l as edited; <<>> is unusable
  LongestLine, \* bound on the length of a follow-up line
  Calls,      \* handler invocations that can be in progress at once
  None        \* no line, no approver, nobody holding a lock

ASSUME FollowupAssumption ==
  /\ FirstLine \in Seq(Approvers) /\ Len(FirstLine) > 0
  /\ MaxVersion \in Nat \ {0}
  /\ LineSteps \in [Lines -> [1..MaxVersion -> Seq(Approvers)]]
  /\ LongestLine \in Nat
  /\ \A l \in Lines, v \in 1..MaxVersion : Len(LineSteps[l][v]) <= LongestLine
  /\ None \notin Approvers \cup Lines \cup Calls

First == Len(FirstLine)
Versions == 1..MaxVersion
Orders == 1..(First + LongestLine)
Choices == Lines \cup {None, "finalize"}

VARIABLES
  status, current, steps,  \* the ledger rows, as in ApprovalStore
  who,         \* approval_request_steps.approver_id
  required,    \* the snapshot taken at submission demands a follow-up (version 1)
  selection,   \* followup_selection: the connected line, None before
  lock,        \* the call whose transaction holds the request's rows
  configLock,  \* the call whose transaction holds the configuration tables
  version,     \* current edit of each follow-up line
  call,        \* the calls in progress
  handed,      \* outcomes handed to the settlement hooks
  turnTold, settledTold,  \* notices, counted up to 2
  shown,       \* per decided step, the turn its decider was looking at (0: none)
  reviewed,    \* the line and the edit its connector was looking at
  died         \* some call ended before its last query

ledger == <<status, current, steps, who, required, selection>>
locks == <<lock, configLock>>
notices == <<turnTold, settledTold>>
history == <<shown, reviewed>>
vars == <<status, current, steps, who, required, selection, lock, configLock,
          version, call, handed, turnTold, settledTold, shown, reviewed, died>>

Idle == [pc |-> "idle", actor |-> None, action |-> "approved",
         choice |-> None, expected |-> 1, rev |-> 1]

Bump(n) == IF n < 2 THEN n + 1 ELSE n
Goto(c, label) == call' = [call EXCEPT ![c].pc = label]
Return(c) == call' = [call EXCEPT ![c] = Idle]
Release(c) == /\ lock' = IF lock = c THEN None ELSE lock
              /\ configLock' = IF configLock = c THEN None ELSE configLock

\* needs_selection: the last turn of a line that has not been continued yet.
NeedsSelection ==
  /\ status = "pending"
  /\ selection = None
  /\ \A k \in Present(steps) : k <= current

-----------------------------------------------------------------------------
\* An approver with the turn opens the request (and previews a follow-up line)
\* and sends a decision on what is on the screen.
Click(c, a, action, choice) ==
  /\ call[c].pc = "idle"
  /\ \E k \in Present(steps) : who[k] = a /\ steps[k] = "pending"
  /\ choice # None => NeedsSelection /\ action = "approved"
  /\ call' = [call EXCEPT ![c] =
                [pc |-> "lock", actor |-> a, action |-> action, choice |-> choice,
                 expected |-> current,
                 rev |-> IF choice \in Lines THEN version[choice] ELSE 1]]
  /\ UNCHANGED <<ledger, locks, version, handed, notices, history, died>>

LockRequestWrong(c, from, to) ==   \* reads without FOR UPDATE
  /\ call[c].pc = from
  /\ lock' = c
  /\ Goto(c, to)
  /\ UNCHANGED <<ledger, configLock, version, handed, notices, history, died>>

\* locked_request: the rows are read only once they are locked.
LockRequest(c, from, to) ==
  /\ call[c].pc = from
  /\ lock = None
  /\ lock' = c
  /\ Goto(c, to)
  /\ UNCHANGED <<ledger, configLock, version, handed, notices, history, died>>

AcceptableWrongTurn(c) ==   \* expected_step_order is not looked at
  LET choosing == NeedsSelection /\ call[c].action = "approved"
  IN  /\ MayDecide(status, steps, StepOf(steps, who, call[c].actor))
      /\ choosing <=> call[c].choice # None
      /\ call[c].choice = "finalize" => ~required

AcceptableWrongEnd(c) ==   \* any request may be finalized
  /\ call[c].expected = current
  /\ MayDecide(status, steps, StepOf(steps, who, call[c].actor))
  /\ (NeedsSelection /\ call[c].action = "approved") <=> call[c].choice # None

\* The turn on the screen, the rules of engine.decide, and the choice that the
\* last approval of a first line has to make.
Acceptable(c) ==
  LET mine == StepOf(steps, who, call[c].actor)
      choosing == NeedsSelection /\ call[c].action = "approved"
  IN  /\ call[c].expected = current
      /\ MayDecide(status, steps, mine)
      /\ choosing <=> call[c].choice # None
      /\ call[c].choice = "finalize" => ~required

DecisionJudge(c) ==
  /\ call[c].pc = "judge"
  /\ IF Acceptable(c)
     THEN /\ Goto(c, IF call[c].choice \in Lines THEN "connect" ELSE "commit")
          /\ UNCHANGED locks
     ELSE Return(c) /\ Release(c)
  /\ UNCHANGED <<ledger, version, handed, notices, history, died>>

DecisionConnectWrong(c) ==   \* connects the line as it is now, previewed or not
  /\ call[c].pc = "connect"
  /\ configLock = None
  /\ IF LineSteps[call[c].choice][version[call[c].choice]] # <<>>
     THEN Goto(c, "commit") /\ configLock' = c /\ UNCHANGED lock
     ELSE Return(c) /\ Release(c)
  /\ UNCHANGED <<ledger, version, handed, notices, history, died>>

\* locked_configuration, then the line must still be the one previewed.
DecisionConnect(c) ==
  /\ call[c].pc = "connect"
  /\ configLock = None
  /\ LET line == call[c].choice
     IN  IF /\ version[line] = call[c].rev
            /\ LineSteps[line][version[line]] # <<>>
         THEN /\ configLock' = c
              /\ Goto(c, "commit")
              /\ UNCHANGED lock
         ELSE Return(c) /\ Release(c)
  /\ UNCHANGED <<ledger, version, handed, notices, history, died>>

\* The appended steps and the decision commit together.
DecisionCommit(c) ==
  /\ call[c].pc = "commit"
  /\ LET chosen == call[c].choice
         added == IF chosen \in Lines THEN LineSteps[chosen][version[chosen]] ELSE <<>>
         last == CHOOSE n \in Present(steps) : \A k \in Present(steps) : k <= n
         New(k) == k \in (last + 1)..(last + Len(added))
         grown == [k \in Orders |-> IF New(k) THEN "waiting" ELSE steps[k]]
         mine == StepOf(steps, who, call[c].actor)
         next == Decided(current, grown, mine, call[c].action)
     IN  /\ status' = next.status
         /\ current' = next.current
         /\ steps' = next.steps
         /\ who' = [k \in Orders |-> IF New(k) THEN added[k - last] ELSE who[k]]
         /\ selection' = IF chosen \in Lines THEN chosen ELSE selection
         /\ shown' = [shown EXCEPT ![mine] = call[c].expected]
         /\ reviewed' = IF chosen \in Lines
                        THEN [line |-> chosen, rev |-> call[c].rev] ELSE reviewed
  /\ Goto(c, "report")
  /\ Release(c)
  /\ UNCHANGED <<required, version, handed, notices, died>>

DecisionReportWrong(c) ==   \* nobody tells the next approver
  /\ call[c].pc = "report"
  /\ handed' = IF status \in Decisions THEN handed \cup {status} ELSE handed
  /\ settledTold' = IF status \in Decisions THEN Bump(settledTold) ELSE settledTold
  /\ Return(c)
  /\ UNCHANGED <<ledger, locks, version, turnTold, history, died>>

\* After the commit the ledger is read again; what it shows decides whether the
\* hooks and the requester hear of the end, or the next approver of the turn.
DecisionReport(c) ==
  /\ call[c].pc = "report"
  /\ IF status \in Decisions
     THEN /\ handed' = handed \cup {status}
          /\ settledTold' = Bump(settledTold)
          /\ UNCHANGED turnTold
     ELSE /\ turnTold' = [k \in Orders |-> IF steps[k] = "pending" THEN Bump(turnTold[k])
                                                                   ELSE turnTold[k]]
          /\ UNCHANGED <<handed, settledTold>>
  /\ Return(c)
  /\ UNCHANGED <<ledger, locks, version, history, died>>

-----------------------------------------------------------------------------
CancelClick(c, by) ==
  /\ call[c].pc = "idle"
  /\ call' = [call EXCEPT ![c] = [Idle EXCEPT !.pc = "clock", !.action = by]]
  /\ UNCHANGED <<ledger, locks, version, handed, notices, history, died>>

\* Steps and request close in the same transaction, or nothing is written.
CancelCommit(c) ==
  /\ call[c].pc = "close"
  /\ IF IF call[c].action = "requester" THEN MayCancel(status, steps) ELSE status = "pending"
     THEN /\ steps' = SkipRest(steps)
          /\ status' = "canceled"
          /\ Goto(c, "told")
     ELSE Return(c) /\ UNCHANGED <<steps, status>>
  /\ Release(c)
  /\ UNCHANGED <<current, who, required, selection, version, handed, notices, history, died>>

CancelHooks(c) ==
  /\ call[c].pc = "told"
  /\ handed' = handed \cup {status}
  /\ Return(c)
  /\ UNCHANGED <<ledger, locks, version, notices, history, died>>

-----------------------------------------------------------------------------
\* save_line: an administrator edits a follow-up line in one transaction.
EditLine(l) ==
  /\ configLock = None
  /\ version[l] + 1 \in Versions
  /\ version' = [version EXCEPT ![l] = @ + 1]
  /\ UNCHANGED <<ledger, locks, call, handed, notices, history, died>>

\* A dead pod or a failed query: an open transaction rolls back.
Die(c) ==
  /\ call[c].pc # "idle"
  /\ died' = TRUE
  /\ Return(c)
  /\ Release(c)
  /\ UNCHANGED <<ledger, version, handed, notices, history>>

Init ==
  /\ status = "pending"
  /\ current = 1
  /\ steps = OpenSteps(Orders, First)
  /\ who = [k \in Orders |-> IF k <= First THEN FirstLine[k] ELSE None]
  /\ required \in BOOLEAN
  /\ selection = None
  /\ lock = None
  /\ configLock = None
  /\ version = [l \in Lines |-> 1]
  /\ call = [c \in Calls |-> Idle]
  /\ handed = {}
  /\ turnTold = [k \in Orders |-> IF k = 1 THEN 1 ELSE 0]
  /\ settledTold = 0
  /\ shown = [k \in Orders |-> 0]
  /\ reviewed = [line |-> None, rev |-> 1]
  /\ died = FALSE

Decision(c) ==
  \/ \E a \in Approvers, action \in Decisions, choice \in Choices : Click(c, a, action, choice)
  \/ LockRequest(c, "lock", "judge")
  \/ DecisionJudge(c) \/ DecisionConnect(c) \/ DecisionCommit(c) \/ DecisionReport(c)
Cancel(c) ==
  \/ \E by \in {"requester", "system"} : CancelClick(c, by)
  \/ LockRequest(c, "clock", "close")
  \/ CancelCommit(c) \/ CancelHooks(c)

Next ==
  \/ \E c \in Calls : Decision(c) \/ Cancel(c) \/ Die(c)
  \/ \E l \in Lines : EditLine(l)

Spec == Init /\ [][Next]_vars

-----------------------------------------------------------------------------
PC == {"idle", "lock", "judge", "connect", "commit", "report", "clock", "close", "told"}
CallState == [pc : PC, actor : Approvers \cup {None},
              action : Decisions \cup {"requester", "system"},
              choice : Choices, expected : Orders, rev : Versions]

\* Every variable holds a value the ledger, the locks or a handler can name.
TypeOK ==
  /\ status \in RequestStatus
  /\ current \in Orders
  /\ steps \in [Orders -> StepStatus]
  /\ who \in [Orders -> Approvers \cup {None}]
  /\ required \in BOOLEAN
  /\ selection \in Lines \cup {None}
  /\ lock \in Calls \cup {None}
  /\ configLock \in Calls \cup {None}
  /\ version \in [Lines -> Versions]
  /\ call \in [Calls -> CallState]
  /\ handed \in SUBSET RequestStatus
  /\ turnTold \in [Orders -> 0..2]
  /\ settledTold \in 0..2
  /\ shown \in [Orders -> Orders \cup {0}]
  /\ reviewed \in [line : Lines \cup {None}, rev : Versions]
  /\ died \in BOOLEAN

\* The ledger is an abstract request at every moment: the line is the steps
\* that have a row.  (decision and cancel are atomic, whatever interleaves.)
Request == INSTANCE ApprovalRequest WITH
  First <- Len(FirstLine),
  Extras <- {Len(LineSteps[l][v]) : l \in Lines, v \in Versions} \ {0},
  line <- [k \in 1..Cardinality(Present(steps)) |-> steps[k]]

\* And so an open request is a run of approvals, one turn and a run that waits, and a
\* closed one leaves no step open and rests on its decisions.
IsARequest == Request!Spec /\ [](Request!OneTurn /\ Request!ClosedLine)

\* A request that demands a follow-up is not approved without one.
RequiredFollowupIsMade ==
  required /\ status = "approved" => selection # None

\* A decision lands on the step its maker was looking at, even if the same
\* person also stands on the follow-up line and clicked twice.
ClickDecidesItsStep ==
  \A k \in Orders : /\ shown[k] # 0 => shown[k] = k
                    /\ steps[k] \in Decisions <=> shown[k] # 0

\* The line that was connected is the edit that was previewed, step by step.
PreviewedLineIsConnected ==
  selection # None =>
    LET previewed == LineSteps[reviewed.line][reviewed.rev]
    IN  /\ selection = reviewed.line
        /\ Present(steps) = 1..(First + Len(previewed))
        /\ \A i \in DOMAIN previewed : who[First + i] = previewed[i]

\* When every call ran to its end: one turn, its holder told; or an outcome,
\* handed to the hooks, and the requester told of a decision.
AllIdle == \A c \in Calls : call[c].pc = "idle"
QuietRequestIsReported ==
  AllIdle /\ ~died =>
    /\ status = "pending" => \A k \in Orders : steps[k] = "pending" => turnTold[k] >= 1
    /\ status \in Terminal => handed = {status}
    /\ status \in Decisions <=> settledTold >= 1
=============================================================================
