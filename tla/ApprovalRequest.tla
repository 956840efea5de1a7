--------------------------- MODULE ApprovalRequest ---------------------------
(***************************************************************************)
(* What an approval request promises, as engine.py states its rules: one   *)
(* line, one turn at a time, every decision atomic.  A request with a      *)
(* follow-up line may grow once, at the last approval of its first line.   *)
(***************************************************************************)
EXTENDS Integers, Sequences

CONSTANTS
  First,   \* length of the submitted line, at least 1
  Extras   \* lengths a follow-up line may have, at least 1 each

VARIABLES
  status,  \* pending, approved, rejected or canceled
  line     \* sequence of step states, in the order of the turns

vars == <<status, line>>

HasTurn(k) == k \in DOMAIN line /\ line[k] = "pending"
Skipped(seq) ==
  [k \in DOMAIN seq |-> IF seq[k] \in {"waiting", "pending"} THEN "skipped" ELSE seq[k]]
Opened(n) == [k \in 1..n |-> IF k = 1 THEN "pending" ELSE "waiting"]

Init == status = "pending" /\ line = Opened(First)

\* An approval passes the turn to the next one on the line ...
PassOn(k) ==
  /\ status = "pending" /\ HasTurn(k) /\ k < Len(line)
  /\ line' = [line EXCEPT ![k] = "approved", ![k + 1] = "pending"]
  /\ UNCHANGED status

\* ... and the last approval is the final one ...
Finish(k) ==
  /\ status = "pending" /\ HasTurn(k) /\ k = Len(line)
  /\ line' = [line EXCEPT ![k] = "approved"]
  /\ status' = "approved"

\* ... unless it connects a follow-up line behind the first.
Connect(k, n) ==
  /\ status = "pending" /\ HasTurn(k) /\ k = First /\ Len(line) = First
  /\ line' = [line EXCEPT ![k] = "approved"] \o Opened(n)
  /\ UNCHANGED status

Reject(k) ==
  /\ status = "pending" /\ HasTurn(k)
  /\ line' = Skipped([line EXCEPT ![k] = "rejected"])
  /\ status' = "rejected"

\* The requester may withdraw while nobody approved, the system at any time.
Withdraw ==
  /\ status = "pending"
  /\ \A k \in DOMAIN line : line[k] # "approved"
  /\ line' = Skipped(line)
  /\ status' = "canceled"

SystemWithdraw ==
  /\ status = "pending"
  /\ line' = Skipped(line)
  /\ status' = "canceled"

Next ==
  \/ \E k \in DOMAIN line :
       PassOn(k) \/ Finish(k) \/ Reject(k) \/ \E n \in Extras : Connect(k, n)
  \/ Withdraw
  \/ SystemWithdraw

Spec == Init /\ [][Next]_vars

-----------------------------------------------------------------------------
StepState == {"waiting", "pending", "approved", "rejected", "skipped"}

TypeOK ==
  /\ status \in {"pending", "approved", "rejected", "canceled"}
  /\ line \in Seq(StepState)

\* An open request is a run of approvals, the one turn, and a run that waits.
OneTurn ==
  status = "pending" =>
    \E k \in DOMAIN line :
      /\ line[k] = "pending"
      /\ \A j \in DOMAIN line : j < k => line[j] = "approved"
      /\ \A j \in DOMAIN line : j > k => line[j] = "waiting"

\* A closed request leaves no step open, and its outcome rests on its steps.
ClosedLine ==
  /\ status # "pending" => \A k \in DOMAIN line : line[k] \notin {"waiting", "pending"}
  /\ status = "approved" => \A k \in DOMAIN line : line[k] = "approved"
  /\ status = "rejected" => \E k \in DOMAIN line : line[k] = "rejected"

\* Nothing moves after the end, and nobody's decision is ever taken back.
OutcomeIsFinal ==
  [][/\ status = "pending"
     /\ \A k \in DOMAIN line :
          line[k] \in {"approved", "rejected"} => k \in DOMAIN line' /\ line'[k] = line[k]]_vars
=============================================================================
