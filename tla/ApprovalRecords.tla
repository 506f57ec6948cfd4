-------------------------- MODULE ApprovalRecords ---------------------------
(***************************************************************************)
(* The rows of the tasks and approvals tables, as far as the approval      *)
(* workflow reads and writes them, and the column updates the handlers     *)
(* make.  Shared by the abstract specifications (ApprovalGate, AuditLog)   *)
(* and by the statement-level one (ApprovalWorkflow).                      *)
(*                                                                         *)
(* All tasks belong to one organization, whose memberships are RoleOf: the *)
(* API only ever adds memberships, and a caller without one is refused     *)
(* without effect, so a fixed table shows the workflow every caller it can *)
(* meet.  A note is represented by the user who wrote it; reviewed_at is   *)
(* written with reviewed_by and is left out.                               *)
(***************************************************************************)
EXTENDS Rbac

CONSTANTS Users,      \* registered, active users
          Tasks,      \* the task ids Postgres may generate
          Approvals,  \* the approval ids Postgres may generate
          None,       \* SQL NULL
          RoleOf      \* each user's role in the organization, None for outsiders

ASSUME RecordsAssumption ==
    /\ None \notin Users             \* a reviewer is told from "no reviewer"
    /\ None \notin Tasks             \* a row's task is told from "no task"
    /\ None \notin Approvals         \* an approval is told from "none chosen"
    /\ None \notin OrgRole           \* a role is told from "no membership"
    /\ RoleOf \in [Users -> OrgRole \cup {None}]

-----------------------------------------------------------------------------

TaskStatus == {"backlog", "todo", "in_progress", "in_review", "done"}

\* The status column of a task row, "absent" while the row does not exist.
TaskRow == TaskStatus \cup {"absent"}

ApprovalStatus == {"pending", "approved", "rejected"}

ApprovalRow == [task         : Tasks \cup {None},
                requested_by : Users \cup {None},
                status       : ApprovalStatus \cup {"absent"},
                reviewed_by  : Users \cup {None},
                notes        : Users \cup {None}]

NoRow == [task |-> None, requested_by |-> None, status |-> "absent",
          reviewed_by |-> None, notes |-> None]

-----------------------------------------------------------------------------

\* The membership lookup and rank test that end require_task_role.
HasRole(u, minimum) == RoleOf[u] # None /\ RoleSatisfies(RoleOf[u], minimum)

PendingOf_AnyTask(rows, t) == {a \in Approvals : rows[a].status = "pending"}

PendingOf_AnyStatus(rows, t) == {a \in Approvals : rows[a].task = t}

\* The rows _get_pending_approval selects from.
PendingOf(rows, t) == {a \in Approvals : rows[a].task = t /\ rows[a].status = "pending"}

\* The row request_approval inserts.
Opened(t, u) == [task |-> t, requested_by |-> u, status |-> "pending",
                 reviewed_by |-> None, notes |-> None]

\* The columns approve_task and reject_task set.  A decision sent without a
\* note assigns None over the None that was loaded: no change, so the UPDATE
\* leaves the notes column out.
Decided(row, u, outcome, note) ==
    [row EXCEPT !.status      = outcome,
                !.reviewed_by = u,
                !.notes       = IF note = None THEN @ ELSE note]

Outcome == [approve |-> "approved", reject |-> "rejected"]

\* The status a decision gives the task.
DecidedTaskStatus == [approve |-> "done", reject |-> "in_progress"]

Decisions == {"approve", "reject"}
=============================================================================
