-------------------------- MODULE MCApprovalWatcher --------------------------
(* Instances of ApprovalWatcher for TLC.                                   *)
EXTENDS ApprovalWatcher, TLC

QuestionSymmetry == Permutations(Question)
=============================================================================
