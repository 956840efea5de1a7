--------------------------- MODULE MCApprovalStore ---------------------------
(* Small instances of ApprovalStore; the calls are interchangeable.        *)
EXTENDS ApprovalStore, TLC

CallSymmetry == Permutations(Calls)
=============================================================================
