--------------------------- MODULE ApprovalEngine ---------------------------
(***************************************************************************)
(* The rules of approval/engine.py: pure functions from a request and its  *)
(* line of steps to a new request and a new line.  Neither the ledger nor  *)
(* time is known here.                                                     *)
(*                                                                         *)
(* A line is a function from step orders to step states.  The domain is    *)
(* fixed; an order that has no row in approval_request_steps is "absent".  *)
(***************************************************************************)
EXTENDS Integers, FiniteSets

\* The status vocabulary of a step and of a request.
StepStatus == {"absent", "waiting", "pending", "approved", "rejected", "skipped"}
RequestStatus == {"pending", "approved", "rejected", "canceled"}
Terminal == {"approved", "rejected", "canceled"}
Decisions == {"approved", "rejected"}

Present(steps) == {k \in DOMAIN steps : steps[k] # "absent"}
Later(steps, order) == {k \in Present(steps) : k > order}
Least(S) == CHOOSE k \in S : \A j \in S : k <= j

(* A definition whose name ends in ..Wrong is the next one with a mistake a *)
(* maintainer could make; it is used to show that a property notices.      *)

OpenedAsWrong(order) == "pending"   \* everybody has the turn at once

\* open_steps: at submission the first step has the turn, the others wait.
OpenedAs(order) == IF order = 1 THEN "pending" ELSE "waiting"
OpenSteps(orders, n) ==
  [k \in orders |-> IF k <= n THEN OpenedAs(k) ELSE "absent"]

SkipRestWrong(steps) ==   \* the step that has the turn is forgotten
  [k \in DOMAIN steps |-> IF steps[k] = "waiting" THEN "skipped" ELSE steps[k]]

\* Steps whose turn has not come when a request closes become "skipped".
SkipRest(steps) ==
  [k \in DOMAIN steps |->
     IF steps[k] \in {"waiting", "pending"} THEN "skipped" ELSE steps[k]]

\* _step_of: the actor's pending step, else the first one, 0 for none.
StepOf(steps, who, actor) ==
  LET held == {k \in Present(steps) : who[k] = actor}
      turn == {k \in held : steps[k] = "pending"}
  IN  CASE turn # {} -> Least(turn)
        [] turn = {} /\ held # {} -> Least(held)
        [] OTHER -> 0

\* The checks decide makes before it changes anything (k is StepOf(...)).
MayDecide(status, steps, k) ==
  /\ status \notin Terminal
  /\ k \in Present(steps)
  /\ steps[k] = "pending"

\* What decide returns: the decided step, and the turn passed on or the end.
Decided(current, steps, k, action) ==
  LET marked == [steps EXCEPT ![k] = action]
      later  == Later(marked, current)
  IN  CASE action = "rejected" ->
             [status |-> "rejected", current |-> current, steps |-> SkipRest(marked)]
        [] action # "rejected" /\ later = {} ->
             [status |-> "approved", current |-> current, steps |-> marked]
        [] OTHER ->
             [status |-> "pending", current |-> Least(later),
              steps |-> [marked EXCEPT ![Least(later)] = "pending"]]

AdvanceWrong(steps, current) ==   \* any approval is the final one
  LET rejected == \E k \in Present(steps) : steps[k] = "rejected"
      done     == current \in Present(steps) /\ steps[current] = "approved"
  IN  [status  |-> IF rejected THEN "rejected" ELSE IF done THEN "approved" ELSE "pending",
       current |-> current]

\* advance: the request's state recomputed from steps that are already written.
Advance(steps, current) ==
  LET rejected == \E k \in Present(steps) : steps[k] = "rejected"
      done     == current \in Present(steps) /\ steps[current] = "approved"
      later    == Later(steps, current)
  IN  [status  |-> IF rejected THEN "rejected"
                   ELSE IF done /\ later = {} THEN "approved" ELSE "pending",
       current |-> IF ~rejected /\ done /\ later # {} THEN Least(later) ELSE current]

\* cancel: only an open request that nobody has approved can be withdrawn.
MayCancel(status, steps) ==
  /\ status \notin Terminal
  /\ \A k \in Present(steps) : steps[k] # "approved"
=============================================================================
