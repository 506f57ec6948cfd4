------------------------- MODULE MCApprovalWorkflow -------------------------
(* Instances of ApprovalWorkflow for TLC.                                  *)
EXTENDS ApprovalWorkflow, TLC

CONSTANTS m1, m2, e1, x1

\* A manager and a member.
ManagerAndMember == m1 :> "manager" @@ e1 :> "member"

\* The same and a user who is in no membership of the organization.
WithOutsider == m1 :> "manager" @@ e1 :> "member" @@ x1 :> None

\* Two who may decide, of different ranks.
TwoReviewers == m1 :> "manager" @@ m2 :> "admin"

\* A reviewer alone.
OneReviewer == m1 :> "owner"

\* A member alone.
MemberAlone == e1 :> "member"

\* Ids carry no order and no property names one.
Symmetry == Permutations(Requests) \cup Permutations(Approvals) \cup Permutations(Tasks)
=============================================================================
