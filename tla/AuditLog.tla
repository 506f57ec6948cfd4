------------------------------ MODULE AuditLog ------------------------------
(***************************************************************************)
(* What the approval workflow keeps even when requests overlap, lose their *)
(* answer or act on stale reads: approval rows are never removed, never    *)
(* change their task or requester and never return to pending; only a      *)
(* manager or above decides, and every decided row names its reviewer; an  *)
(* existing task moves to Done only together with a row approved for it,   *)
(* and it leaves Done only by a patch, a new request for approval, or a    *)
(* rejection.  Beside ApprovalGate it lets a decision be overwritten and   *)
(* the task status lag behind the row, which is what the races can do.     *)
(***************************************************************************)
EXTENDS ApprovalRecords

CONSTANT CreateStatuses  \* the statuses a task may be created with

VARIABLES taskStatus,  \* tasks.status
          approvals    \* the approvals table

auditVars == <<taskStatus, approvals>>

\* A stale read may have left the status out of the UPDATE.
MayStore(t, s) == taskStatus' \in {taskStatus, [taskStatus EXCEPT ![t] = s]}

Init == /\ taskStatus = [t \in Tasks |-> "absent"]
        /\ approvals = [a \in Approvals |-> NoRow]

CreateTask(t, s) ==
    /\ taskStatus[t] = "absent"
    /\ taskStatus' = [taskStatus EXCEPT ![t] = s]
    /\ UNCHANGED approvals

UpdateTask(t, s) ==
    /\ taskStatus[t] # "absent"
    /\ s # "done"
    /\ taskStatus' = [taskStatus EXCEPT ![t] = s]
    /\ UNCHANGED approvals

OpenApproval(t, u, a) ==
    /\ taskStatus[t] # "absent"
    /\ HasRole(u, "member")
    /\ approvals[a].status = "absent"
    /\ approvals' = [approvals EXCEPT ![a] = Opened(t, u)]
    /\ MayStore(t, "in_review")

Decide(decision, u, a, note) ==
    /\ HasRole(u, "manager")
    /\ approvals[a].status # "absent"
    /\ approvals' = [approvals EXCEPT ![a] = Decided(@, u, Outcome[decision], note)]
    /\ MayStore(approvals[a].task, DecidedTaskStatus[decision])

Next ==
    \/ \E t \in Tasks : \/ \E s \in CreateStatuses : CreateTask(t, s)
                        \/ \E s \in TaskStatus : UpdateTask(t, s)
                        \/ \E u \in Users, a \in Approvals : OpenApproval(t, u, a)
    \/ \E decision \in Decisions, u \in Users, a \in Approvals : \E note \in {None, u} :
         Decide(decision, u, a, note)

Spec == Init /\ [][Next]_auditVars
=============================================================================
