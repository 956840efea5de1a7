----------------------------- MODULE FormBlocks -----------------------------
(***************************************************************************)
(* approval/store.py fill_block and approval/blocks.py: the blocks of one  *)
(* request.  Block 0 is the draft, block k belongs to the approver of step *)
(* k.  fill_block checks, then writes what it checked for, each a query of *)
(* its own; a request with a follow-up line takes the row locks instead.   *)
(* Decisions are those of ApprovalEngine, with the check of required       *)
(* blocks; ApprovalStore has their queries one by one.                     *)
(***************************************************************************)
EXTENDS ApprovalEngine

CONSTANTS
  N,        \* approvers
  Calls,    \* calls in progress at once
  Required, \* the blocks the form requires, a subset of 0 .. N
  MaxFills  \* bound on values written

ASSUME FormBlocksAssumption == N \in Nat \ {0} /\ Required \subseteq 0 .. N /\ MaxFills \in Nat

VARIABLES
  status, current, steps, \* the request and its line
  blocks,     \* approval_request_blocks: whether the value is complete, and which it is
  locked,     \* the request has a followup_config: decisions and fills take its locks
  submitting, \* submit has not yet written the draft values it was given
  calls,
  signed,     \* history: the blocks each approver had when he approved
  raced,      \* history: a value was on its way while an approval was made
  fills

ledger == <<status, current, steps>>
vars == <<ledger, blocks, locked, submitting, calls, signed, raced, fills>>

Orders == 1 .. N
Idle == [pc |-> "idle"]
Return(c) == calls' = [calls EXCEPT ![c] = Idle]

\* A value as its kind judges it: text that is not blank, files, an evaluation
\* without gaps.  Clearing a block writes an empty value.
Filled(value) == value.complete

\* validate_data and _with_server_options change or refuse a value, they never
\* make one complete; values here are those that pass.
Values == {[complete |-> b, n |-> fills + 1] : b \in BOOLEAN}

UnfilledUptoWrong(k) == {b \in Required : b = k /\ ~Filled(blocks[b])}   \* his own only
\* unfilled_upto
UnfilledUpto(k) == {b \in Required : b <= k /\ ~Filled(blocks[b])}

\* fill_block may write: the draft by the requester while nobody has approved, a
\* later block by its approver while he has the turn.
MayFillWrong(b) == IF b = 0 THEN TRUE ELSE steps[b] = "pending"   \* whoever has approved
MayFill(b) ==
  IF b = 0 THEN \A k \in Orders : steps[k] # "approved" ELSE steps[b] = "pending"

Deciding == {c \in Calls : calls[c].pc = "mark"}
Filling == {c \in Calls : calls[c].pc = "write"}

Write(b, value) ==
  /\ blocks' = [blocks EXCEPT ![b] = value]
  /\ fills' = fills + 1
  /\ raced' = (raced \/ Deciding # {})

-----------------------------------------------------------------------------
\* _apply_draft_values, after the steps and blocks of the request are there.
SubmitDraft ==
  /\ submitting
  /\ submitting' = FALSE
  /\ \/ \E v \in Values : Write(0, v)
     \/ UNCHANGED <<blocks, fills, raced>>
  /\ UNCHANGED <<ledger, locked, calls, signed>>

\* fill_block without locks: the request is open ...
FillRead(c, b) ==
  /\ ~locked
  /\ calls[c] = Idle
  /\ status = "pending"
  /\ fills + Cardinality(Filling) < MaxFills
  /\ calls' = [calls EXCEPT ![c] = [pc |-> "check", block |-> b]]
  /\ UNCHANGED <<ledger, blocks, locked, submitting, signed, raced, fills>>

\* ... it is the actor's to fill ...
FillCheck(c) ==
  /\ calls[c].pc = "check"
  /\ IF MayFill(calls[c].block)
     THEN calls' = [calls EXCEPT ![c].pc = "write"]
     ELSE Return(c)
  /\ UNCHANGED <<ledger, blocks, locked, submitting, signed, raced, fills>>

\* ... and the value is written whatever has happened since.
FillWrite(c) ==
  /\ calls[c].pc = "write"
  /\ \E v \in Values : Write(calls[c].block, v)
  /\ Return(c)
  /\ UNCHANGED <<ledger, locked, submitting, signed>>

\* Under locked_request the whole of it is one transaction.
FillLocked(b) ==
  /\ locked
  /\ fills < MaxFills
  /\ status = "pending"
  /\ MayFill(b)
  /\ \E v \in Values : Write(b, v)
  /\ UNCHANGED <<ledger, locked, submitting, calls, signed>>

-----------------------------------------------------------------------------
\* An approval needs every required block up to the approver's own step; a
\* rejection needs none.
Judged(k, action) == action = "approved" => UnfilledUpto(k) = {}

Sign(k, action) ==
  /\ signed' = IF action = "approved" THEN [signed EXCEPT ![k] = blocks] ELSE signed
  /\ raced' = (raced \/ submitting \/ Filling # {})

\* decide: get, then the blocks, and the rules on both.
DecideRead(c, k, action) ==
  /\ ~locked
  /\ calls[c] = Idle
  /\ MayDecide(status, steps, k)
  /\ calls' = [calls EXCEPT ![c] = [pc |-> "judge", k |-> k, action |-> action,
                                    current |-> current]]
  /\ UNCHANGED <<ledger, blocks, locked, submitting, signed, raced, fills>>

DecideJudge(c) ==
  /\ calls[c].pc = "judge"
  /\ IF Judged(calls[c].k, calls[c].action)
     THEN calls' = [calls EXCEPT ![c].pc = "mark"]
     ELSE Return(c)
  /\ UNCHANGED <<ledger, blocks, locked, submitting, signed, raced, fills>>

\* The approver's step, if it is still pending.
DecideMark(c) ==
  LET k == calls[c].k
  IN /\ calls[c].pc = "mark"
     /\ IF steps[k] = "pending"
        THEN /\ steps' = [steps EXCEPT ![k] = calls[c].action]
             /\ Sign(k, calls[c].action)
             /\ calls' = [calls EXCEPT ![c].pc = "move"]
        ELSE Return(c) /\ UNCHANGED <<steps, signed, raced>>
     /\ UNCHANGED <<status, current, blocks, locked, submitting, fills>>

\* advance on what the steps are now, and the conditional transition with its effect.
DecideMove(c) ==
  LET verdict == Advance(steps, calls[c].current)
      won == status = "pending" /\ current = calls[c].current
  IN /\ calls[c].pc = "move"
     /\ IF won
        THEN /\ status' = verdict.status
             /\ current' = verdict.current
             /\ steps' = CASE verdict.status = "rejected" -> SkipRest(steps)
                           [] verdict.status = "approved" -> steps
                           [] OTHER -> [steps EXCEPT ![verdict.current] =
                                          IF @ = "waiting" THEN "pending" ELSE @]
        ELSE UNCHANGED ledger
     /\ Return(c)
     /\ UNCHANGED <<blocks, locked, submitting, signed, raced, fills>>

\* followup.decision without a follow-up line to connect: one transaction.
DecideLocked(k, action) ==
  LET new == Decided(current, steps, k, action)
  IN /\ locked
     /\ MayDecide(status, steps, k)
     /\ Judged(k, action)
     /\ status' = new.status
     /\ current' = new.current
     /\ steps' = new.steps
     /\ Sign(k, action)
     /\ UNCHANGED <<blocks, locked, submitting, calls, fills>>

\* cancel and system_cancel (their queries are in ApprovalStore).
Withdraw ==
  /\ MayCancel(status, steps)
  /\ status' = "canceled"
  /\ steps' = SkipRest(steps)
  /\ UNCHANGED <<current, blocks, locked, submitting, calls, signed, raced, fills>>

-----------------------------------------------------------------------------
Init ==
  /\ status = "pending"
  /\ current = 1
  /\ steps = OpenSteps(Orders, N)
  /\ blocks = [b \in 0 .. N |-> [complete |-> FALSE, n |-> 0]]
  /\ locked \in BOOLEAN
  /\ submitting = TRUE
  /\ calls = [c \in Calls |-> Idle]
  /\ signed = [k \in Orders |-> blocks]
  /\ raced = FALSE
  /\ fills = 0

Call(c) ==
  \/ \E b \in 0 .. N : FillRead(c, b)
  \/ FillCheck(c) \/ FillWrite(c)
  \/ \E k \in Orders, action \in Decisions : DecideRead(c, k, action)
  \/ DecideJudge(c) \/ DecideMark(c) \/ DecideMove(c)

Next ==
  \/ SubmitDraft \/ Withdraw
  \/ \E c \in Calls : Call(c)
  \/ \E b \in 0 .. N : FillLocked(b)
  \/ \E k \in Orders, action \in Decisions : DecideLocked(k, action)

Spec == Init /\ [][Next]_vars

-----------------------------------------------------------------------------
\* What an approver had before him stays as it was: nobody swaps the draft, or
\* fills an earlier step again, under an approval.  (A value that was on its way
\* while the approval was made can: fill_block writes without looking again.)
SignedBlocksStand ==
  ~raced => \A k \in Orders : steps[k] = "approved" =>
    \A b \in 0 .. k : blocks[b] = signed[k][b]

\* An approved request has every block its form requires, the draft included,
\* which nobody approves.
ApprovedIsFilled ==
  ~raced /\ status = "approved" => \A b \in Required : Filled(blocks[b])
=============================================================================
