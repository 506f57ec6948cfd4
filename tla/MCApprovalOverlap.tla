-------------------------- MODULE MCApprovalOverlap --------------------------
(* Instances of ApprovalOverlap for TLC: the roles and the symmetry are     *)
(* those of the workflow.                                                  *)
EXTENDS ApprovalOverlap, MCApprovalWorkflow
=============================================================================
