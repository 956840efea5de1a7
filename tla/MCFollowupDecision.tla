------------------------- MODULE MCFollowupDecision -------------------------
(* A line of two, and one follow-up line edited twice: it starts with the  *)
(* approver who closes the first line, then changes, then is deactivated.  *)
EXTENDS FollowupDecision, TLC

CONSTANTS a, b, d, l1

MCFirstLine == <<a, b>>
MCLineSteps == [l \in {l1} |-> <<<<b>>, <<d, b>>, <<>>>>]
CallSymmetry == Permutations(Calls)
=============================================================================
