---------------------------- MODULE ApprovalGate ----------------------------
(***************************************************************************)
(* What the approval workflow promises: every handler as one indivisible   *)
(* step on the tasks and approvals tables, and Done reachable only by      *)
(* approve.  This is the protocol of the README ("Approval workflow") and  *)
(* of the docstrings of Approval, DirectDoneTransitionError and the two    *)
(* errors of approval_service.  How far ApprovalWorkflow keeps to it when   *)
(* requests overlap is said in ApprovalOverlap.                            *)
(***************************************************************************)
EXTENDS ApprovalRecords

VARIABLES taskStatus,  \* tasks.status
          approvals    \* the approvals table

gateVars == <<taskStatus, approvals>>

Exists(t) == taskStatus[t] # "absent"

Init == /\ taskStatus = [t \in Tasks |-> "absent"]
        /\ approvals = [a \in Approvals |-> NoRow]

CreateTask(t, s) ==
    /\ ~Exists(t)
    /\ s # "done"
    /\ taskStatus' = [taskStatus EXCEPT ![t] = s]
    /\ UNCHANGED approvals

UpdateTask(t, s) ==
    /\ Exists(t)
    /\ s # "done"
    /\ taskStatus' = [taskStatus EXCEPT ![t] = s]
    /\ UNCHANGED approvals

RequestApproval(t, u, a) ==
    /\ Exists(t)
    /\ HasRole(u, "member")
    /\ PendingOf(approvals, t) = {}
    /\ approvals[a].status = "absent"
    /\ approvals' = [approvals EXCEPT ![a] = Opened(t, u)]
    /\ taskStatus' = [taskStatus EXCEPT ![t] = "in_review"]

Decide(decision, t, u, a, note) ==
    /\ HasRole(u, "manager")
    /\ a \in PendingOf(approvals, t)
    /\ approvals' = [approvals EXCEPT ![a] = Decided(@, u, Outcome[decision], note)]
    /\ taskStatus' = [taskStatus EXCEPT ![t] = DecidedTaskStatus[decision]]

Next ==
    \E t \in Tasks :
      \/ \E s \in TaskStatus : CreateTask(t, s) \/ UpdateTask(t, s)
      \/ \E u \in Users, a \in Approvals :
           \/ RequestApproval(t, u, a)
           \/ \E decision \in Decisions, note \in {None, u} : Decide(decision, t, u, a, note)

Spec == Init /\ [][Next]_gateVars

-----------------------------------------------------------------------------

TypeOK == /\ taskStatus \in [Tasks -> TaskRow]
          /\ approvals \in [Approvals -> ApprovalRow]

\* Task t has been approved by a manager or above.
HasApprover(t) ==
    \E a \in Approvals : /\ approvals[a].task = t
                         /\ approvals[a].status = "approved"
                         /\ approvals[a].reviewed_by \in Users
                         /\ HasRole(approvals[a].reviewed_by, "manager")

AtMostOnePending(t) == \A a, b \in PendingOf(approvals, t) : a = b

(***************************************************************************)
(* README, "This guarantees every task that reaches Done has an auditable  *)
(* approver on record": a task that is Done has an approved approval, and  *)
(* its reviewer has the manager role or a higher one.                      *)
(***************************************************************************)
DoneHasApprover == \A t \in Tasks : taskStatus[t] = "done" => HasApprover(t)

(***************************************************************************)
(* ApprovalAlreadyPendingError: a task never has two approvals pending.    *)
(***************************************************************************)
OnePending == \A t \in Tasks : AtMostOnePending(t)

(***************************************************************************)
(* NoPendingApprovalError and the audit trail: a decision is recorded once *)
(* and no later request alters it.                                         *)
(***************************************************************************)
DecisionsStand ==
    [][\A a \in Approvals :
          approvals[a].status \in {"approved", "rejected"} => approvals'[a] = approvals[a]]_gateVars
=============================================================================
