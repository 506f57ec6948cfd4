-------------------------- MODULE ApprovalWorkflow --------------------------
(***************************************************************************)
(* The approval workflow of the tasks API, at the grain of SQL statements. *)
(*                                                                         *)
(* A request runs its handler in one database session: the dependency      *)
(* chain loads the task row and checks the caller's role, the service      *)
(* reads the pending approval, assigns attributes of the loaded objects,   *)
(* and commit() flushes the changed columns (approvals before tasks, the   *)
(* order in which the session's unit of work sorts the mappers), commits,  *)
(* and refreshes.  Postgres runs at its default READ COMMITTED level:      *)
(* every SELECT sees the rows committed so far, an UPDATE waits for the    *)
(* row lock and writes only the columns it names, and the locks last until *)
(* COMMIT or ROLLBACK.  Between any two statements other requests run.     *)
(*                                                                         *)
(* taskStatus and approvals are the committed tables; everything else is   *)
(* the state of the requests in flight.  An uncommitted write is visible   *)
(* to its own transaction only and no handler reads one back before        *)
(* commit(), so the writes are applied at the commit.                      *)
(***************************************************************************)
EXTENDS ApprovalRecords, FiniteSets

CONSTANTS Requests,        \* requests that can be in flight at the same time
          CreateStatuses,  \* the values clients put in TaskCreate.status
          PatchStatuses    \* the values clients put in TaskUpdate.status

ASSUME WorkflowAssumption ==
    /\ None \notin Requests              \* a lock owner is told from "free"
    /\ CreateStatuses \subseteq TaskStatus
    \* "unset": the field is missing (another one is set); "null": JSON null
    /\ PatchStatuses \subseteq TaskStatus \cup {"unset", "null"}

VARIABLES taskStatus,    \* tasks.status, committed
          approvals,     \* the approvals table, committed
          pc,            \* the statement each request runs next
          req,           \* what the client asked for
          seen,          \* tasks.status as the request's session loaded it
          row,           \* the approval row the request loaded or inserted
          approvalLock,  \* the request whose UPDATE holds the approval row
          taskLock       \* the request whose UPDATE holds the task row

tables == <<taskStatus, approvals>>
locks  == <<approvalLock, taskLock>>
vars   == <<taskStatus, approvals, pc, req, seen, row, approvalLock, taskLock>>

-----------------------------------------------------------------------------
(* The requests.                                                           *)

Kinds == {"create", "patch", "request", "approve", "reject"}

\* status is what a create or patch body carries, "none" for other requests;
\* note is the author of the note a decision carries, None without one.
Request == [kind : Kinds, user : Users, task : Tasks,
            status : TaskStatus \cup {"unset", "null", "none"}, note : Users \cup {None}]

NoRequest == [kind |-> "none", user |-> None, task |-> None,
              status |-> "none", note |-> None]

BodyStatuses(kind) == CASE kind = "create" -> CreateStatuses
                        [] kind = "patch"  -> PatchStatuses
                        [] OTHER           -> {"none"}

MinimumRole_Member(kind) == "member"

\* The role each route asks of its caller.
MinimumRole(kind) == IF kind \in Decisions THEN "manager" ELSE "member"

\* The statements a handler runs, in order: "load" is the dependency chain,
\* "query" _get_pending_approval, "approval" and "task" the flush of the two
\* tables, then "commit" and "refresh".
After_RejectTaskFirst(kind, at) ==
    CASE at = "load"     -> IF kind \in {"create", "patch"} THEN "task" ELSE "query"
      [] at = "query"    -> IF kind = "reject" THEN "task" ELSE "approval"
      [] at = "approval" -> IF kind = "reject" THEN "commit" ELSE "task"
      [] at = "task"     -> IF kind = "reject" THEN "approval" ELSE "commit"
      [] at = "commit"   -> "refresh"

After(kind, at) ==
    CASE at = "load"     -> IF kind \in {"create", "patch"} THEN "task" ELSE "query"
      [] at = "query"    -> "approval"
      [] at = "approval" -> "task"
      [] at = "task"     -> "commit"
      [] at = "commit"   -> "refresh"

Steps == {"idle", "load", "query", "approval", "task", "commit", "refresh"}

Advance(r) == pc' = [pc EXCEPT ![r] = After(req[r].kind, pc[r])]

-----------------------------------------------------------------------------
(* What a request assigns, and which of it reaches the database.           *)

NewStatus(r) == CASE req[r].kind \in {"create", "patch"} -> req[r].status
                  [] req[r].kind = "request"             -> "in_review"
                  [] OTHER                               -> DecidedTaskStatus[req[r].kind]

\* The unit of work leaves an attribute out of the UPDATE when its value
\* equals the one loaded, however stale that value is by now.
WritesStatus(r) == NewStatus(r) \notin {seen[r], "unset"}

\* Whether any column changes: an "unset" patch changes another one.  (A
\* patch of unchanged values is here a patch to the status that was loaded,
\* and one that changes a title beside an unchanged status is an "unset" one.)
WritesTask(r) == NewStatus(r) # seen[r]

FreeRows == {a \in Approvals : approvals[a].status = "absent" /\ \A q \in Requests : row[q] # a}

-----------------------------------------------------------------------------
(* Actions.                                                                *)

Init ==
    /\ taskStatus   = [t \in Tasks |-> "absent"]
    /\ approvals    = [a \in Approvals |-> NoRow]
    /\ pc           = [r \in Requests |-> "idle"]
    /\ req          = [r \in Requests |-> NoRequest]
    /\ seen         = [r \in Requests |-> "absent"]
    /\ row          = [r \in Requests |-> None]
    /\ approvalLock = [a \in Approvals |-> None]
    /\ taskLock     = [t \in Tasks |-> None]

\* Bound of the model: approval ids are finite, so a request for approval
\* starts only while an id is left for it.
IdLeft == Cardinality({r \in Requests : req[r].kind = "request"})
            < Cardinality({a \in Approvals : approvals[a].status = "absent"})

\* A created task gets an id no row has.
FreshTask(t) == /\ taskStatus[t] = "absent"
                /\ \A q \in Requests : ~(req[q].kind = "create" /\ req[q].task = t)

\* A client sends a request.
Begin(r) ==
    /\ pc[r] = "idle"
    /\ \E kind \in Kinds, u \in Users, t \in Tasks :
         \E s \in BodyStatuses(kind), note \in {None, u} :
           /\ kind = "create" => FreshTask(t)
           /\ kind = "request" => IdLeft
           /\ note # None => kind \in Decisions
           /\ req' = [req EXCEPT ![r] = [kind |-> kind, user |-> u, task |-> t,
                                         status |-> s, note |-> note]]
    /\ pc' = [pc EXCEPT ![r] = "load"]
    /\ UNCHANGED <<tables, seen, row, locks>>

\* COMMIT and ROLLBACK release the row locks of the transaction.
FreeLocks(r) ==
    /\ approvalLock' = [a \in Approvals |-> IF approvalLock[a] = r THEN None ELSE approvalLock[a]]
    /\ taskLock' = [t \in Tasks |-> IF taskLock[t] = r THEN None ELSE taskLock[t]]

Finish_SessionLeftOpen(r) ==
    /\ pc'   = [pc EXCEPT ![r] = "idle"]
    /\ req'  = [req EXCEPT ![r] = NoRequest]
    /\ seen' = [seen EXCEPT ![r] = "absent"]
    /\ row'  = [row EXCEPT ![r] = None]
    /\ UNCHANGED <<tables, locks>>

\* The request is answered: its session closes, rolling back what is open.
Finish(r) ==
    /\ pc'   = [pc EXCEPT ![r] = "idle"]
    /\ req'  = [req EXCEPT ![r] = NoRequest]
    /\ seen' = [seen EXCEPT ![r] = "absent"]
    /\ row'  = [row EXCEPT ![r] = None]
    /\ FreeLocks(r)
    /\ UNCHANGED tables

Admitted_AnyPatch(r) ==
    /\ req[r].kind # "create" => taskStatus[req[r].task] # "absent"
    /\ HasRole(req[r].user, MinimumRole(req[r].kind))

\* require_task_role (require_project_role for a create), and for a patch
\* ensure_not_direct_done_transition.
Admitted(r) ==
    /\ req[r].kind # "create" => taskStatus[req[r].task] # "absent"
    /\ HasRole(req[r].user, MinimumRole(req[r].kind))
    /\ ~(req[r].kind = "patch" /\ req[r].status = "done")

\* The dependency chain ends in 404 or 403, or the patch guard in 400.
Refuse(r) ==
    /\ pc[r] = "load"
    /\ ~Admitted(r)
    /\ Finish(r)

\* The dependency chain passes and leaves the task loaded in the session.
LoadTask(r) ==
    /\ pc[r] = "load"
    /\ Admitted(r)
    /\ seen' = [seen EXCEPT ![r] = taskStatus[req[r].task]]
    /\ Advance(r)
    /\ UNCHANGED <<tables, req, row, locks>>

QueryForRequest_NoCheck(r) ==
    /\ pc[r] = "query"
    /\ req[r].kind = "request"
    /\ Advance(r)
    /\ UNCHANGED <<tables, req, seen, row, locks>>

\* request_approval finds no pending approval of the task.
QueryForRequest(r) ==
    /\ pc[r] = "query"
    /\ req[r].kind = "request"
    /\ PendingOf(approvals, req[r].task) = {}
    /\ Advance(r)
    /\ UNCHANGED <<tables, req, seen, row, locks>>

\* approve_task and reject_task load a pending approval of the task; with
\* several, the query has no order and any may come first.
QueryForDecision(r) ==
    /\ pc[r] = "query"
    /\ req[r].kind \in Decisions
    /\ \E a \in PendingOf(approvals, req[r].task) : row' = [row EXCEPT ![r] = a]
    /\ Advance(r)
    /\ UNCHANGED <<tables, req, seen, locks>>

\* ApprovalAlreadyPendingError or NoPendingApprovalError: 409.
Conflict(r) ==
    /\ pc[r] = "query"
    /\ (req[r].kind = "request") # (PendingOf(approvals, req[r].task) = {})
    /\ Finish(r)

\* INSERT INTO approvals; Postgres generates the id.
InsertApproval(r) ==
    /\ pc[r] = "approval"
    /\ req[r].kind = "request"
    /\ \E a \in FreeRows : row' = [row EXCEPT ![r] = a]
    /\ Advance(r)
    /\ UNCHANGED <<tables, req, seen, locks>>

\* UPDATE approvals, once no other transaction holds the row.
UpdateApproval(r) ==
    /\ pc[r] = "approval"
    /\ req[r].kind \in Decisions
    /\ approvalLock[row[r]] = None
    /\ approvalLock' = [approvalLock EXCEPT ![row[r]] = r]
    /\ Advance(r)
    /\ UNCHANGED <<tables, req, seen, row, taskLock>>

\* UPDATE tasks, once no other transaction holds the row.
UpdateTask(r) ==
    /\ pc[r] = "task"
    /\ req[r].kind # "create"
    /\ WritesTask(r)
    /\ NewStatus(r) # "null"
    /\ taskLock[req[r].task] = None
    /\ taskLock' = [taskLock EXCEPT ![req[r].task] = r]
    /\ Advance(r)
    /\ UNCHANGED <<tables, req, seen, row, approvalLock>>

\* INSERT INTO tasks, which waits for nobody, or no statement at all because
\* no attribute of the loaded task changed.
InsertOrSkipTask(r) ==
    /\ pc[r] = "task"
    /\ req[r].kind = "create" \/ ~WritesTask(r)
    /\ Advance(r)
    /\ UNCHANGED <<tables, req, seen, row, locks>>

\* A JSON null status passes the patch guard and violates NOT NULL: 500.
NotNullViolation(r) ==
    /\ pc[r] = "task"
    /\ NewStatus(r) = "null"
    /\ Finish(r)

StoreStatus_WholeRow(r) ==
    taskStatus' = [taskStatus EXCEPT ![req[r].task] =
                      IF NewStatus(r) = "unset" THEN seen[r] ELSE NewStatus(r)]

StoreStatus_UnsetWritten(r) == taskStatus' = [taskStatus EXCEPT ![req[r].task] = NewStatus(r)]

\* The status column, if the INSERT or UPDATE names it.
StoreStatus(r) ==
    taskStatus' = IF WritesStatus(r) THEN [taskStatus EXCEPT ![req[r].task] = NewStatus(r)]
                                     ELSE taskStatus

\* COMMIT of create_task or update_task.
CommitTask(r) ==
    /\ pc[r] = "commit"
    /\ req[r].kind \in {"create", "patch"}
    /\ StoreStatus(r)
    /\ FreeLocks(r)
    /\ Advance(r)
    /\ UNCHANGED <<approvals, req, seen, row>>

\* COMMIT of request_approval.
CommitRequest(r) ==
    /\ pc[r] = "commit"
    /\ req[r].kind = "request"
    /\ approvals' = [approvals EXCEPT ![row[r]] = Opened(req[r].task, req[r].user)]
    /\ StoreStatus(r)
    /\ FreeLocks(r)
    /\ Advance(r)
    /\ UNCHANGED <<req, seen, row>>

CommitDecision_BeforeStatus(r) ==
    /\ pc[r] = "commit"
    /\ req[r].kind \in Decisions
    /\ approvals' = [approvals EXCEPT ![row[r]] =
                        Decided(@, req[r].user, Outcome[req[r].kind], req[r].note)]
    /\ FreeLocks(r)
    /\ Advance(r)
    /\ UNCHANGED <<taskStatus, req, seen, row>>

\* COMMIT of approve_task or reject_task.
CommitDecision(r) ==
    /\ pc[r] = "commit"
    /\ req[r].kind \in Decisions
    /\ approvals' = [approvals EXCEPT ![row[r]] =
                        Decided(@, req[r].user, Outcome[req[r].kind], req[r].note)]
    /\ StoreStatus(r)
    /\ FreeLocks(r)
    /\ Advance(r)
    /\ UNCHANGED <<req, seen, row>>

\* db.refresh() reads the row back in a new transaction; the answer is sent.
Refresh(r) ==
    /\ pc[r] = "refresh"
    /\ Finish(r)

\* The connection, the process or a statement fails: what is not committed
\* is rolled back, what is committed stays and only the answer is lost.
Fail(r) ==
    /\ pc[r] # "idle"
    /\ Finish(r)

Handle(r) ==
    \/ Refuse(r) \/ LoadTask(r)
    \/ QueryForRequest(r) \/ QueryForDecision(r) \/ Conflict(r)
    \/ InsertApproval(r) \/ UpdateApproval(r)
    \/ UpdateTask(r) \/ InsertOrSkipTask(r) \/ NotNullViolation(r)
    \/ CommitTask(r) \/ CommitRequest(r) \/ CommitDecision(r)
    \/ Refresh(r)

Next == \E r \in Requests : Begin(r) \/ Handle(r) \/ Fail(r)

Spec == Init /\ [][Next]_vars

\* The event loop and Postgres run every statement that can run; waiters for
\* a row lock are queued, so one that is free again and again is granted.
\* Clients and failures are under no obligation.
Fairness == \A r \in Requests : /\ WF_vars(Handle(r))
                                /\ SF_vars(UpdateApproval(r))
                                /\ SF_vars(UpdateTask(r))

FairSpec == Spec /\ Fairness

-----------------------------------------------------------------------------
(* The inductive invariant and its parts.                                  *)

(***************************************************************************)
(* Type correctness of the tables and of the requests in flight.           *)
(***************************************************************************)
TypeOK ==
    /\ taskStatus \in [Tasks -> TaskRow]
    /\ approvals \in [Approvals -> ApprovalRow]
    /\ pc \in [Requests -> Steps]
    /\ req \in [Requests -> Request \cup {NoRequest}]
    /\ seen \in [Requests -> TaskRow]
    /\ row \in [Requests -> Approvals \cup {None}]
    /\ approvalLock \in [Approvals -> Requests \cup {None}]
    /\ taskLock \in [Tasks -> Requests \cup {None}]

(***************************************************************************)
(* The audit trail: an approval that was decided names a reviewer who is   *)
(* manager or above, a pending one names its requester and no reviewer,    *)
(* and either belongs to a task that exists (approval_service, the role    *)
(* gates of /approve and /reject).                                         *)
(***************************************************************************)
AuditTrail ==
    \A a \in Approvals :
        /\ approvals[a].status = "absent" => approvals[a] = NoRow
        /\ approvals[a].status # "absent" =>
              /\ approvals[a].task \in Tasks
              /\ taskStatus[approvals[a].task] # "absent"
              /\ approvals[a].requested_by \in Users
              /\ HasRole(approvals[a].requested_by, "member")
        /\ approvals[a].status = "pending" =>
              approvals[a].reviewed_by = None /\ approvals[a].notes = None
        /\ approvals[a].status \in {"approved", "rejected"} =>
              approvals[a].reviewed_by \in Users /\ HasRole(approvals[a].reviewed_by, "manager")

\* A request past the dependency chain, whose guards held when it was there.
Accepted(r) == pc[r] \notin {"idle", "load"}

\* What ties request r to the tables.
Bound(r) ==
    /\ pc[r] = "idle" => req[r] = NoRequest
    /\ pc[r] # "idle" => /\ req[r] \in Request
                         /\ req[r].status \in BodyStatuses(req[r].kind)
                         /\ req[r].note \in {None, req[r].user}
    /\ Accepted(r) =>
          /\ HasRole(req[r].user, MinimumRole(req[r].kind))
          /\ req[r].kind # "create" => taskStatus[req[r].task] # "absent"
          /\ ~(req[r].kind = "patch" /\ req[r].status = "done")
    /\ req[r].kind = "create" =>
          /\ pc[r] # "refresh" => taskStatus[req[r].task] = "absent"
          /\ \A q \in Requests \ {r} : ~(req[q].kind = "create" /\ req[q].task = req[r].task)
    /\ pc[r] \in {"query", "approval"} => req[r].kind \in Decisions \cup {"request"}
    /\ pc[r] = "commit" => NewStatus(r) # "null"
    /\ req[r].kind \in Decisions /\ pc[r] \in {"approval", "task", "commit"} =>
          /\ row[r] \in Approvals
          /\ approvals[row[r]].status # "absent"
          /\ approvals[row[r]].task = req[r].task
    /\ req[r].kind = "request" /\ pc[r] \in {"task", "commit"} =>
          /\ row[r] \in Approvals
          /\ approvals[row[r]].status = "absent"
          /\ \A q \in Requests \ {r} : row[q] # row[r]

(***************************************************************************)
(* What was true when a request read the database and must still be true   *)
(* when it writes, any number of foreign commits later: its caller has the *)
(* role, its task exists, and the approval a decision loaded is a row of   *)
(* the very task it decides; the id of a row one request inserts is nobody *)
(* else's.                                                                 *)
(***************************************************************************)
RequestBinding == \A r \in Requests : Bound(r)

\* Request r has updated approval a, or task t, and its transaction is open.
Updated(r, a) == req[r].kind \in Decisions /\ pc[r] \in {"task", "commit"} /\ row[r] = a

UpdatedTask(r, t) == /\ pc[r] = "commit"
                     /\ req[r].kind # "create"
                     /\ req[r].task = t
                     /\ WritesTask(r)

(***************************************************************************)
(* A row lock is held exactly between the UPDATE that took it and the end  *)
(* of that transaction, so an answered or failed request leaves none       *)
(* behind and two writers of one row never overlap.                        *)
(***************************************************************************)
LockDiscipline ==
    \A r \in Requests : /\ \A a \in Approvals : approvalLock[a] = r <=> Updated(r, a)
                        /\ \A t \in Tasks : taskLock[t] = r <=> UpdatedTask(r, t)

IInv == TypeOK /\ AuditTrail /\ RequestBinding /\ LockDiscipline

-----------------------------------------------------------------------------
(* Properties that hold however requests overlap.                          *)

\* r waits for a row lock that q holds.
WaitsFor(r, q) ==
    \/ /\ pc[r] = "approval"
       /\ req[r].kind \in Decisions
       /\ approvalLock[row[r]] = q
    \/ /\ pc[r] = "task"
       /\ req[r].kind # "create"
       /\ WritesTask(r)
       /\ taskLock[req[r].task] = q

(***************************************************************************)
(* No deadlock on row locks: in every set of requests one waits for none   *)
(* of the others, because all handlers write approvals before tasks.       *)
(***************************************************************************)
NoWaitCycle ==
    \A S \in SUBSET Requests : S # {} => \E r \in S : \A q \in S : ~WaitsFor(r, q)

\* This step commits the approval of task t by r, a manager or above.
ApprovesNow(r, t) ==
    /\ pc[r] = "commit" /\ pc'[r] = "refresh"
    /\ req[r].kind = "approve" /\ req[r].task = t
    /\ HasRole(req[r].user, "manager")
    /\ approvals'[row[r]].task = t
    /\ approvals'[row[r]].status = "approved"
    /\ approvals'[row[r]].reviewed_by = req[r].user

(***************************************************************************)
(* "the only code path that can set this" (approve_task): an existing task *)
(* moves to Done only in the commit of an approve, which in the same       *)
(* transaction stamps an approval of that task with its own caller.        *)
(***************************************************************************)
MoveToDoneIsAnApproval ==
    [][\A t \in Tasks :
          taskStatus[t] \notin {"absent", "done"} /\ taskStatus'[t] = "done"
            => \E r \in Requests : ApprovesNow(r, t)]_vars

Audit == INSTANCE AuditLog

(***************************************************************************)
(* Whatever overlaps, fails or is stale, the committed tables evolve as    *)
(* AuditLog says.                                                          *)
(***************************************************************************)
ImplementsAuditLog == Audit!Spec

(***************************************************************************)
(* Every request is answered, refused or failed: none waits for ever.      *)
(***************************************************************************)
EveryRequestAnswered == \A r \in Requests : pc[r] # "idle" ~> pc[r] = "idle"

-----------------------------------------------------------------------------
(* What the documentation says of every task.  The code breaks it when     *)
(* requests overlap, or when a task is created as Done.                    *)

Gate == INSTANCE ApprovalGate

(***************************************************************************)
(* README: "every task that reaches Done has an auditable approver on      *)
(* record".                                                                *)
(***************************************************************************)
DoneHasApprover == Gate!DoneHasApprover

(***************************************************************************)
(* ApprovalAlreadyPendingError: "Raised when requesting approval on a task *)
(* that already has one pending", so a task never has two.                 *)
(***************************************************************************)
OnePending == Gate!OnePending
=============================================================================
