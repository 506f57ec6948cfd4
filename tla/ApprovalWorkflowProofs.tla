------------------------ MODULE ApprovalWorkflowProofs ----------------------
(***************************************************************************)
(* The invariants of ApprovalWorkflow, what follows from them, and the     *)
(* contract of ApprovalOverlap, for every number of requests, users, tasks *)
(* and approvals, every assignment of roles and every set of statuses the  *)
(* clients send.                                                           *)
(***************************************************************************)
EXTENDS ApprovalOverlap, ApprovalRecordsProofs

-----------------------------------------------------------------------------
(* Where a handler goes next, and what it writes.                          *)

(***************************************************************************)
(* The statements of a handler follow each other as After says.            *)
(***************************************************************************)
LEMMA AfterFacts ==
    ASSUME NEW kind
    PROVE  /\ After(kind, "load") = IF kind \in {"create", "patch"} THEN "task" ELSE "query"
           /\ After(kind, "query") = "approval"
           /\ After(kind, "approval") = "task"
           /\ After(kind, "task") = "commit"
           /\ After(kind, "commit") = "refresh"
  BY DEF After

(***************************************************************************)
(* The request in flight is a request, with its fields in their types.     *)
(***************************************************************************)
LEMMA InFlight ==
    ASSUME IInv, NEW r \in Requests, pc[r] # "idle"
    PROVE  /\ req[r] \in Request
           /\ req[r].kind \in Kinds /\ req[r].user \in Users /\ req[r].task \in Tasks
           /\ req[r].note \in Users \cup {None}
           /\ req[r].status \in BodyStatuses(req[r].kind)
  BY DEF IInv, RequestBinding, Bound, Request

(***************************************************************************)
(* At its commit a request stores a status of the enum, and Done only if   *)
(* it approves or creates.                                                 *)
(***************************************************************************)
LEMMA StoredStatus ==
    ASSUME IInv, NEW r \in Requests, pc[r] = "commit", WritesStatus(r)
    PROVE  /\ NewStatus(r) \in TaskStatus
           /\ NewStatus(r) = "done" => req[r].kind \in {"approve", "create"}
  <1>1. /\ req[r].kind \in Kinds
        /\ req[r].status \in BodyStatuses(req[r].kind)
        /\ NewStatus(r) \notin {"null", "unset"}
        /\ ~(req[r].kind = "patch" /\ req[r].status = "done")
    BY InFlight DEF IInv, RequestBinding, Bound, Accepted, WritesStatus
  <1>2. CASE req[r].kind \in {"create", "patch"}
    <2>1. NewStatus(r) = req[r].status
      BY <1>2 DEF NewStatus
    <2> QED
      BY <1>1, <1>2, <2>1, WorkflowAssumption DEF BodyStatuses
  <1>3. CASE req[r].kind = "request"
    <2>1. NewStatus(r) = "in_review"
      BY <1>3 DEF NewStatus
    <2> QED
      BY <1>3, <2>1 DEF TaskStatus
  <1>4. CASE req[r].kind \in Decisions
    <2>1. NewStatus(r) = DecidedTaskStatus[req[r].kind]
      BY <1>4 DEF NewStatus, Decisions
    <2> QED
      BY <1>4, <2>1, DecidedStatus
  <1> QED
    BY <1>1, <1>2, <1>3, <1>4 DEF Kinds, Decisions

(***************************************************************************)
(* What the commit of r does to the tasks table: it touches the row of its *)
(* own task only, and never makes a row disappear.                         *)
(***************************************************************************)
LEMMA StoreRows ==
    ASSUME IInv, NEW r \in Requests, pc[r] = "commit", StoreStatus(r)
    PROVE  /\ taskStatus' \in [Tasks -> TaskRow]
           /\ req[r].task \in Tasks
           /\ \A t \in Tasks \ {req[r].task} : taskStatus'[t] = taskStatus[t]
           /\ \A t \in Tasks : taskStatus[t] # "absent" => taskStatus'[t] # "absent"
           /\ taskStatus'[req[r].task] # taskStatus[req[r].task] =>
                 /\ taskStatus'[req[r].task] = NewStatus(r)
                 /\ NewStatus(r) = "done" => req[r].kind \in {"approve", "create"}
  <1>1. req[r].task \in Tasks /\ taskStatus \in [Tasks -> TaskRow]
    BY InFlight DEF IInv, TypeOK
  <1>2. CASE WritesStatus(r)
    <2>1. /\ NewStatus(r) \in TaskStatus
          /\ NewStatus(r) = "done" => req[r].kind \in {"approve", "create"}
      BY <1>2, StoredStatus
    <2>2. taskStatus' = [taskStatus EXCEPT ![req[r].task] = NewStatus(r)]
      BY <1>2 DEF StoreStatus
    <2> QED
      BY <1>1, <2>1, <2>2 DEF TaskRow, TaskStatus
  <1>3. CASE ~WritesStatus(r)
    BY <1>1, <1>3 DEF StoreStatus
  <1> QED
    BY <1>2, <1>3

-----------------------------------------------------------------------------
(* What a step of one request leaves to the others.                        *)

\* The step changes nothing of request q.
Untouched(q) == /\ pc'[q] = pc[q] /\ req'[q] = req[q]
                /\ seen'[q] = seen[q] /\ row'[q] = row[q]

OthersUntouched(r) == \A q \in Requests \ {r} : Untouched(q)

\* Request q owns the id it inserts.
OwnsRow(q) == req[q].kind = "request" /\ pc[q] \in {"task", "commit"}

(***************************************************************************)
(* A step that leaves a request alone, keeps the rows that exist and stays *)
(* off the ids it inserts preserves what binds the request to the tables.  *)
(***************************************************************************)
LEMMA StillBound ==
    ASSUME IInv, NEW q \in Requests, Untouched(q),
           \A t \in Tasks : taskStatus[t] # "absent" => taskStatus'[t] # "absent",
           \A a \in Approvals : approvals[a].status # "absent" =>
               approvals'[a].status # "absent" /\ approvals'[a].task = approvals[a].task,
           req[q].kind = "create" =>
               /\ pc[q] # "refresh" => taskStatus'[req[q].task] = "absent"
               /\ \A p \in Requests \ {q} : ~(req'[p].kind = "create" /\ req'[p].task = req[q].task),
           OwnsRow(q) =>
               /\ approvals'[row[q]].status = "absent"
               /\ \A p \in Requests \ {q} : row'[p] # row[q]
    PROVE  Bound(q)'
  <1>1. Bound(q)
    BY DEF IInv, RequestBinding
  <1>2. NewStatus(q)' = NewStatus(q)
    BY DEF Untouched, NewStatus
  <1>3. Accepted(q)' = Accepted(q)
    BY DEF Untouched, Accepted
  <1>4. pc[q] # "idle" => req[q].task \in Tasks
    BY InFlight
  <1> QED
    BY <1>1, <1>2, <1>3, <1>4 DEF Bound, Untouched, OwnsRow, Accepted, HasRole

(***************************************************************************)
(* The same for a step that leaves the tables alone as well.               *)
(***************************************************************************)
LEMMA OthersStillBound ==
    ASSUME IInv, NEW r \in Requests, UNCHANGED tables, OthersUntouched(r),
           req'[r].kind = "create" => req'[r] = req[r] \/ FreshTask(req'[r].task),
           row'[r] \in {row[r], None} \/ \A q \in Requests \ {r} : OwnsRow(q) => row'[r] # row[q]
    PROVE  \A q \in Requests \ {r} : Bound(q)'
  <1> SUFFICES ASSUME NEW q \in Requests \ {r}
               PROVE  Bound(q)'
    OBVIOUS
  <1>1. Untouched(q) /\ Bound(q)
    BY DEF OthersUntouched, IInv, RequestBinding
  <1>2. req[q].kind = "create" =>
          /\ pc[q] # "refresh" => taskStatus'[req[q].task] = "absent"
          /\ \A p \in Requests \ {q} : ~(req'[p].kind = "create" /\ req'[p].task = req[q].task)
    <2> SUFFICES ASSUME req[q].kind = "create"
                 PROVE  /\ pc[q] # "refresh" => taskStatus'[req[q].task] = "absent"
                        /\ \A p \in Requests \ {q} : ~(req'[p].kind = "create" /\ req'[p].task = req[q].task)
      OBVIOUS
    <2>1. \A p \in Requests \ {q} : ~(req[p].kind = "create" /\ req[p].task = req[q].task)
      BY <1>1 DEF Bound
    <2>2. ~(req'[r].kind = "create" /\ req'[r].task = req[q].task)
      BY <2>1 DEF FreshTask
    <2> QED
      BY <1>1, <2>1, <2>2 DEF Bound, tables, OthersUntouched, Untouched
  <1>3. OwnsRow(q) => /\ approvals'[row[q]].status = "absent"
                      /\ \A p \in Requests \ {q} : row'[p] # row[q]
    <2> SUFFICES ASSUME OwnsRow(q)
                 PROVE  /\ approvals'[row[q]].status = "absent"
                        /\ \A p \in Requests \ {q} : row'[p] # row[q]
      OBVIOUS
    <2>1. /\ row[q] \in Approvals /\ approvals[row[q]].status = "absent"
          /\ \A p \in Requests \ {q} : row[p] # row[q]
      BY <1>1 DEF Bound, OwnsRow
    <2>2. row'[r] # row[q]
      BY <2>1, RecordsAssumption
    <2> QED
      BY <2>1, <2>2 DEF tables, OthersUntouched, Untouched
  <1> QED
    BY <1>1, <1>2, <1>3, StillBound DEF tables

(***************************************************************************)
(* A request that is left alone, with the locks it has, is where it was    *)
(* among the row locks.                                                    *)
(***************************************************************************)
LEMMA StillLocked ==
    ASSUME IInv, NEW q \in Requests, Untouched(q),
           \A a \in Approvals : approvalLock'[a] = q <=> approvalLock[a] = q,
           \A t \in Tasks : taskLock'[t] = q <=> taskLock[t] = q
    PROVE  /\ \A a \in Approvals : approvalLock'[a] = q <=> Updated(q, a)'
           /\ \A t \in Tasks : taskLock'[t] = q <=> UpdatedTask(q, t)'
  <1>1. \A a \in Approvals : Updated(q, a)' = Updated(q, a)
    BY DEF Untouched, Updated
  <1>2. \A t \in Tasks : UpdatedTask(q, t)' = UpdatedTask(q, t)
    BY DEF Untouched, UpdatedTask, WritesTask, NewStatus
  <1> QED
    BY <1>1, <1>2 DEF IInv, LockDiscipline

(***************************************************************************)
(* The rows of the tables, when no statement of the step writes them.      *)
(***************************************************************************)
LEMMA TablesUntouched ==
    ASSUME IInv, UNCHANGED tables
    PROVE  AuditTrail'
  BY DEF IInv, AuditTrail, tables

-----------------------------------------------------------------------------
(* Every action preserves the inductive invariant.                         *)

(***************************************************************************)
(* The end of a request: answered, refused, or failed and rolled back.     *)
(***************************************************************************)
LEMMA FinishStep ==
    ASSUME IInv, NEW r \in Requests, Finish(r)
    PROVE  IInv'
  <1>1. TypeOK'
    BY DEF IInv, TypeOK, Finish, FreeLocks, tables, Steps, TaskRow
  <1>2. AuditTrail'
    BY TablesUntouched DEF Finish
  <1>3. /\ pc'[r] = "idle" /\ req'[r] = NoRequest /\ row'[r] = None
        /\ OthersUntouched(r)
    BY DEF IInv, TypeOK, Finish, OthersUntouched, Untouched
  <1>4. RequestBinding'
    <2>1. Bound(r)'
      BY <1>3 DEF Bound, Accepted, NoRequest, Decisions
    <2>2. \A q \in Requests \ {r} : Bound(q)'
      BY <1>3, OthersStillBound DEF Finish, NoRequest
    <2> QED
      BY <2>1, <2>2 DEF RequestBinding
  <1>5. LockDiscipline'
    <2>1. /\ \A a \in Approvals : approvalLock'[a] # r
          /\ \A t \in Tasks : taskLock'[t] # r
          /\ \A q \in Requests \ {r} :
               /\ \A a \in Approvals : approvalLock'[a] = q <=> approvalLock[a] = q
               /\ \A t \in Tasks : taskLock'[t] = q <=> taskLock[t] = q
      BY WorkflowAssumption DEF IInv, TypeOK, Finish, FreeLocks
    <2>2. \A a \in Approvals : ~Updated(r, a)'
      BY <1>3 DEF Updated
    <2>3. \A t \in Tasks : ~UpdatedTask(r, t)'
      BY <1>3 DEF UpdatedTask
    <2> QED
      BY <1>3, <2>1, <2>2, <2>3, StillLocked DEF LockDiscipline, OthersUntouched
  <1> QED
    BY <1>1, <1>2, <1>4, <1>5 DEF IInv

(***************************************************************************)
(* A request begins.                                                       *)
(***************************************************************************)
LEMMA BeginStep ==
    ASSUME IInv, NEW r \in Requests, Begin(r)
    PROVE  IInv'
  <1>1. PICK kind \in Kinds, u \in Users, t \in Tasks :
          \E s \in BodyStatuses(kind), note \in {None, u} :
            /\ kind = "create" => FreshTask(t)
            /\ req' = [req EXCEPT ![r] = [kind |-> kind, user |-> u, task |-> t,
                                          status |-> s, note |-> note]]
    BY DEF Begin
  <1>2. PICK s \in BodyStatuses(kind), note \in {None, u} :
            /\ kind = "create" => FreshTask(t)
            /\ req' = [req EXCEPT ![r] = [kind |-> kind, user |-> u, task |-> t,
                                          status |-> s, note |-> note]]
    BY <1>1
  <1> DEFINE new == [kind |-> kind, user |-> u, task |-> t, status |-> s, note |-> note]
  <1>3. new \in Request
    BY WorkflowAssumption DEF BodyStatuses, Kinds, Request, TaskStatus
  <1>4. /\ pc'[r] = "load" /\ req'[r] = new
        /\ row'[r] = row[r]
        /\ OthersUntouched(r)
        /\ pc[r] = "idle"
    BY <1>2 DEF IInv, TypeOK, Begin, OthersUntouched, Untouched
  <1>5. TypeOK'
    BY <1>2, <1>3 DEF IInv, TypeOK, Begin, tables, locks, Steps
  <1>6. AuditTrail'
    BY TablesUntouched DEF Begin
  <1>7. RequestBinding'
    <2>1. Bound(r)'
      <3>1. kind = "create" =>
              /\ taskStatus'[t] = "absent"
              /\ \A q \in Requests \ {r} : ~(req'[q].kind = "create" /\ req'[q].task = t)
        BY <1>2, <1>4 DEF FreshTask, OthersUntouched, Untouched, Begin, tables
      <3> QED
        BY <1>3, <1>4, <3>1 DEF Bound, Accepted
    <2>2. \A q \in Requests \ {r} : Bound(q)'
      BY <1>2, <1>4, OthersStillBound DEF Begin
    <2> QED
      BY <2>1, <2>2 DEF RequestBinding
  <1>8. LockDiscipline'
    <2>1. /\ \A a \in Approvals : ~Updated(r, a) /\ ~Updated(r, a)'
          /\ \A d \in Tasks : ~UpdatedTask(r, d) /\ ~UpdatedTask(r, d)'
      BY <1>4 DEF Updated, UpdatedTask
    <2>2. UNCHANGED <<approvalLock, taskLock>>
      BY DEF Begin, locks
    <2> QED
      BY <1>4, <2>1, <2>2, StillLocked DEF IInv, LockDiscipline, OthersUntouched
  <1> QED
    BY <1>5, <1>6, <1>7, <1>8 DEF IInv

(***************************************************************************)
(* The dependency chain admits a request and loads its task.               *)
(***************************************************************************)
LEMMA LoadTaskStep ==
    ASSUME IInv, NEW r \in Requests, LoadTask(r)
    PROVE  IInv'
  <1>1. /\ pc[r] = "load" /\ req[r].kind \in Kinds /\ req[r].task \in Tasks
        /\ Bound(r)
    BY InFlight DEF LoadTask, IInv, RequestBinding
  <1>2. /\ pc'[r] = IF req[r].kind \in {"create", "patch"} THEN "task" ELSE "query"
        /\ req'[r] = req[r] /\ row'[r] = row[r]
        /\ OthersUntouched(r)
    BY <1>1, AfterFacts DEF IInv, TypeOK, LoadTask, Advance, OthersUntouched, Untouched
  <1>3. TypeOK'
    BY <1>1, AfterFacts DEF IInv, TypeOK, LoadTask, Advance, tables, locks, Steps
  <1>4. AuditTrail'
    BY TablesUntouched DEF LoadTask
  <1>5. RequestBinding'
    <2>1. Bound(r)'
      <3>1. req[r].kind \in Decisions \cup {"request"} => pc'[r] = "query"
        BY <1>2 DEF Decisions
      <3>2. \A q \in Requests : req'[q] = req[q]
        BY DEF LoadTask
      <3> QED
        BY <1>1, <1>2, <3>1, <3>2
        DEF Bound, Accepted, LoadTask, Admitted, Kinds, Decisions, tables, HasRole
    <2>2. \A q \in Requests \ {r} : Bound(q)'
      BY <1>2, OthersStillBound DEF LoadTask
    <2> QED
      BY <2>1, <2>2 DEF RequestBinding
  <1>6. LockDiscipline'
    <2>1. /\ \A a \in Approvals : ~Updated(r, a) /\ ~Updated(r, a)'
          /\ \A d \in Tasks : ~UpdatedTask(r, d) /\ ~UpdatedTask(r, d)'
      BY <1>1, <1>2 DEF Updated, UpdatedTask, Decisions
    <2>2. UNCHANGED <<approvalLock, taskLock>>
      BY DEF LoadTask, locks
    <2> QED
      BY <1>2, <2>1, <2>2, StillLocked DEF IInv, LockDiscipline, OthersUntouched
  <1> QED
    BY <1>3, <1>4, <1>5, <1>6 DEF IInv

(***************************************************************************)
(* _get_pending_approval, as each of the three services uses it.           *)
(***************************************************************************)
LEMMA QueryStep ==
    ASSUME IInv, NEW r \in Requests, QueryForRequest(r) \/ QueryForDecision(r)
    PROVE  IInv'
  <1>1. /\ pc[r] = "query" /\ req[r].kind \in Decisions \cup {"request"}
        /\ Bound(r) /\ req[r].task \in Tasks
    BY InFlight DEF QueryForRequest, QueryForDecision, IInv, RequestBinding
  <1>2. /\ pc'[r] = "approval" /\ req' = req
        /\ UNCHANGED <<tables, seen, locks>>
        /\ pc' \in [Requests -> Steps]
        /\ \A q \in Requests \ {r} : pc'[q] = pc[q]
    BY <1>1, AfterFacts DEF IInv, TypeOK, QueryForRequest, QueryForDecision, Advance, Steps
  <1>3. /\ row' \in [Requests -> Approvals \cup {None}]
        /\ \A q \in Requests \ {r} : row'[q] = row[q]
        /\ row'[r] # row[r] => req[r].kind \in Decisions
        /\ req[r].kind \in Decisions => row'[r] \in PendingOf(approvals, req[r].task)
    <2>1. CASE QueryForRequest(r)
      BY <2>1 DEF IInv, TypeOK, QueryForRequest, Decisions
    <2>2. CASE QueryForDecision(r)
      BY <2>2 DEF IInv, TypeOK, QueryForDecision, PendingOf
    <2> QED
      BY <2>1, <2>2
  <1>4. TypeOK'
    BY <1>2, <1>3 DEF IInv, TypeOK, tables, locks
  <1>5. AuditTrail'
    BY <1>2, TablesUntouched
  <1>6. OthersUntouched(r)
    BY <1>2, <1>3 DEF OthersUntouched, Untouched
  <1>7. RequestBinding'
    <2>1. Bound(r)'
      BY <1>1, <1>2, <1>3 DEF Bound, Accepted, Decisions, tables, PendingOf, HasRole
    <2>2. row'[r] = row[r] \/ \A q \in Requests \ {r} : OwnsRow(q) => row'[r] # row[q]
      BY <1>3 DEF PendingOf, IInv, RequestBinding, Bound, OwnsRow
    <2>3. \A q \in Requests \ {r} : Bound(q)'
      BY <1>2, <1>6, <2>2, OthersStillBound
    <2> QED
      BY <2>1, <2>3 DEF RequestBinding
  <1>8. LockDiscipline'
    <2>1. /\ \A a \in Approvals : ~Updated(r, a) /\ ~Updated(r, a)'
          /\ \A d \in Tasks : ~UpdatedTask(r, d) /\ ~UpdatedTask(r, d)'
      BY <1>1, <1>2 DEF Updated, UpdatedTask
    <2> QED
      BY <1>2, <1>6, <2>1, StillLocked DEF IInv, LockDiscipline, OthersUntouched, locks
  <1> QED
    BY <1>4, <1>5, <1>7, <1>8 DEF IInv

(***************************************************************************)
(* INSERT INTO approvals.                                                  *)
(***************************************************************************)
LEMMA InsertApprovalStep ==
    ASSUME IInv, NEW r \in Requests, InsertApproval(r)
    PROVE  IInv'
  <1>1. /\ pc[r] = "approval" /\ req[r].kind = "request" /\ Bound(r)
    BY DEF InsertApproval, IInv, RequestBinding
  <1>2. PICK a \in FreeRows : row' = [row EXCEPT ![r] = a]
    BY DEF InsertApproval
  <1>3. /\ a \in Approvals /\ approvals[a].status = "absent"
        /\ \A q \in Requests : row[q] # a
    BY DEF FreeRows
  <1>4. /\ pc'[r] = "task" /\ row'[r] = a /\ req' = req
        /\ OthersUntouched(r)
    BY <1>1, <1>2, AfterFacts
    DEF IInv, TypeOK, InsertApproval, Advance, OthersUntouched, Untouched
  <1>5. TypeOK'
    BY <1>1, <1>2, <1>3, AfterFacts
    DEF IInv, TypeOK, InsertApproval, Advance, tables, locks, Steps
  <1>6. AuditTrail'
    BY TablesUntouched DEF InsertApproval
  <1>7. RequestBinding'
    <2>1. Bound(r)'
      BY <1>1, <1>3, <1>4
      DEF Bound, Accepted, InsertApproval, Decisions, tables, HasRole, OthersUntouched, Untouched
    <2>2. \A q \in Requests \ {r} : Bound(q)'
      BY <1>3, <1>4, OthersStillBound DEF InsertApproval
    <2> QED
      BY <2>1, <2>2 DEF RequestBinding
  <1>8. LockDiscipline'
    <2>1. /\ \A b \in Approvals : ~Updated(r, b) /\ ~Updated(r, b)'
          /\ \A d \in Tasks : ~UpdatedTask(r, d) /\ ~UpdatedTask(r, d)'
      BY <1>1, <1>4 DEF Updated, UpdatedTask, Decisions
    <2>2. UNCHANGED <<approvalLock, taskLock>>
      BY DEF InsertApproval, locks
    <2> QED
      BY <1>4, <2>1, <2>2, StillLocked DEF IInv, LockDiscipline, OthersUntouched
  <1> QED
    BY <1>5, <1>6, <1>7, <1>8 DEF IInv

(***************************************************************************)
(* UPDATE approvals takes the lock of the row the decision loaded.         *)
(***************************************************************************)
LEMMA UpdateApprovalStep ==
    ASSUME IInv, NEW r \in Requests, UpdateApproval(r)
    PROVE  IInv'
  <1>1. /\ pc[r] = "approval" /\ req[r].kind \in Decisions /\ Bound(r)
        /\ row[r] \in Approvals /\ approvalLock[row[r]] = None
    BY DEF UpdateApproval, IInv, RequestBinding, Bound
  <1>2. /\ pc'[r] = "task" /\ row' = row /\ req' = req
        /\ OthersUntouched(r)
    BY <1>1, AfterFacts
    DEF IInv, TypeOK, UpdateApproval, Advance, OthersUntouched, Untouched
  <1>3. TypeOK'
    BY <1>1, AfterFacts DEF IInv, TypeOK, UpdateApproval, Advance, tables, Steps
  <1>4. AuditTrail'
    BY TablesUntouched DEF UpdateApproval
  <1>5. RequestBinding'
    <2>1. Bound(r)'
      BY <1>1, <1>2 DEF Bound, Accepted, UpdateApproval, Decisions, tables, HasRole
    <2>2. \A q \in Requests \ {r} : Bound(q)'
      BY <1>2, OthersStillBound DEF UpdateApproval
    <2> QED
      BY <2>1, <2>2 DEF RequestBinding
  <1>6. LockDiscipline'
    <2>1. /\ \A a \in Approvals : approvalLock'[a] = IF a = row[r] THEN r ELSE approvalLock[a]
          /\ taskLock' = taskLock
      BY <1>1 DEF IInv, TypeOK, UpdateApproval
    <2>2. /\ \A a \in Approvals : ~Updated(r, a) /\ (Updated(r, a)' <=> a = row[r])
          /\ \A d \in Tasks : ~UpdatedTask(r, d) /\ ~UpdatedTask(r, d)'
      BY <1>1, <1>2 DEF Updated, UpdatedTask
    <2>3. /\ \A a \in Approvals : approvalLock'[a] = r <=> Updated(r, a)'
          /\ \A t \in Tasks : taskLock'[t] = r <=> UpdatedTask(r, t)'
      BY <2>1, <2>2 DEF IInv, LockDiscipline
    <2>4. \A q \in Requests \ {r} :
            /\ \A a \in Approvals : approvalLock'[a] = q <=> approvalLock[a] = q
            /\ \A t \in Tasks : taskLock'[t] = q <=> taskLock[t] = q
      BY <1>1, <2>1, WorkflowAssumption
    <2> QED
      BY <1>2, <2>3, <2>4, StillLocked DEF LockDiscipline, OthersUntouched
  <1> QED
    BY <1>3, <1>4, <1>5, <1>6 DEF IInv

(***************************************************************************)
(* The statement on the tasks table, or none: an UPDATE takes the lock of  *)
(* the task, an INSERT and an unchanged task take none.                    *)
(***************************************************************************)
LEMMA TaskStep ==
    ASSUME IInv, NEW r \in Requests, UpdateTask(r) \/ InsertOrSkipTask(r)
    PROVE  IInv'
  <1>1. /\ pc[r] = "task" /\ Bound(r)
        /\ req[r].kind \in Kinds /\ req[r].task \in Tasks
        /\ req[r].status \in BodyStatuses(req[r].kind)
    BY InFlight DEF UpdateTask, InsertOrSkipTask, IInv, RequestBinding
  <1>2. /\ pc'[r] = "commit" /\ row' = row /\ req' = req /\ seen' = seen
        /\ UNCHANGED <<tables, approvalLock>>
        /\ pc' \in [Requests -> Steps]
        /\ OthersUntouched(r)
    BY <1>1, AfterFacts
    DEF IInv, TypeOK, UpdateTask, InsertOrSkipTask, Advance, locks, OthersUntouched, Untouched, Steps
  <1>3. \A t \in Tasks : taskLock'[t] =
           IF req[r].kind # "create" /\ WritesTask(r) /\ t = req[r].task THEN r ELSE taskLock[t]
    BY <1>1 DEF IInv, TypeOK, UpdateTask, InsertOrSkipTask, locks
  <1>4. req[r].kind # "create" /\ WritesTask(r) => taskLock[req[r].task] = None
    BY DEF UpdateTask, InsertOrSkipTask
  <1>5. taskLock' \in [Tasks -> Requests \cup {None}]
    BY <1>1 DEF IInv, TypeOK, UpdateTask, InsertOrSkipTask, locks
  <1>6. TypeOK'
    BY <1>2, <1>5 DEF IInv, TypeOK, tables
  <1>7. AuditTrail'
    BY <1>2, TablesUntouched
  <1>8. NewStatus(r) # "null"
    <2>1. CASE req[r].kind = "create"
      BY <1>1, <2>1, WorkflowAssumption DEF NewStatus, BodyStatuses, TaskStatus
    <2>2. CASE ~WritesTask(r)
      <3>1. NewStatus(r) \in TaskRow
        BY <2>2 DEF WritesTask, IInv, TypeOK
      <3> QED
        BY <3>1 DEF TaskRow, TaskStatus
    <2> QED
      BY <2>1, <2>2 DEF UpdateTask, InsertOrSkipTask
  <1>9. RequestBinding'
    <2>1. NewStatus(r)' # "null"
      BY <1>2, <1>8 DEF NewStatus
    <2>2. Bound(r)'
      BY <1>1, <1>2, <2>1 DEF Bound, Accepted, tables, HasRole
    <2>3. \A q \in Requests \ {r} : Bound(q)'
      BY <1>2, OthersStillBound
    <2> QED
      BY <2>2, <2>3 DEF RequestBinding
  <1>10. LockDiscipline'
    <2>1. \A a \in Approvals : Updated(r, a)' <=> Updated(r, a)
      BY <1>1, <1>2 DEF Updated
    <2>2. \A t \in Tasks : /\ ~UpdatedTask(r, t)
                           /\ UpdatedTask(r, t)' <=> /\ req[r].kind # "create"
                                                     /\ WritesTask(r)
                                                     /\ t = req[r].task
      BY <1>1, <1>2 DEF UpdatedTask, WritesTask, NewStatus
    <2>3. /\ \A a \in Approvals : approvalLock'[a] = r <=> Updated(r, a)'
          /\ \A t \in Tasks : taskLock'[t] = r <=> UpdatedTask(r, t)'
      BY <1>2, <1>3, <2>1, <2>2 DEF IInv, LockDiscipline
    <2>4. \A q \in Requests \ {r} : \A t \in Tasks : taskLock'[t] = q <=> taskLock[t] = q
      BY <1>3, <1>4, WorkflowAssumption
    <2> QED
      BY <1>2, <2>3, <2>4, StillLocked DEF LockDiscipline, OthersUntouched
  <1> QED
    BY <1>6, <1>7, <1>9, <1>10 DEF IInv

\* The three commits.
Commits(r) == CommitTask(r) \/ CommitRequest(r) \/ CommitDecision(r)

(***************************************************************************)
(* What a commit does to the approvals table: nothing for a create or a    *)
(* patch; the inserted row becomes pending for a request; the loaded row,  *)
(* which belongs to the request's task, is stamped for a decision.         *)
(***************************************************************************)
LEMMA CommitRows ==
    ASSUME IInv, NEW r \in Requests, Commits(r)
    PROVE  /\ approvals' \in [Approvals -> ApprovalRow]
           /\ req[r].kind \in {"create", "patch"} => approvals' = approvals
           /\ \A a \in Approvals \ {row[r]} : approvals'[a] = approvals[a]
           /\ req[r].kind = "request" =>
                 /\ row[r] \in Approvals /\ approvals[row[r]].status = "absent"
                 /\ approvals'[row[r]] = Opened(req[r].task, req[r].user)
           /\ req[r].kind \in Decisions =>
                 /\ row[r] \in Approvals /\ approvals[row[r]].status # "absent"
                 /\ approvals[row[r]].task = req[r].task
                 /\ approvals'[row[r]] = Decided(approvals[row[r]], req[r].user,
                                                 Outcome[req[r].kind], req[r].note)
                 /\ req[r].note \in {None, req[r].user}
  <1>1. /\ pc[r] = "commit" /\ Bound(r) /\ approvals \in [Approvals -> ApprovalRow]
        /\ req[r].kind \in Kinds /\ req[r].user \in Users /\ req[r].task \in Tasks
    BY InFlight DEF Commits, CommitTask, CommitRequest, CommitDecision, IInv, TypeOK, RequestBinding
  <1>2. CASE CommitTask(r)
    BY <1>1, <1>2 DEF CommitTask, Decisions
  <1>3. CASE CommitRequest(r)
    BY <1>1, <1>3, OpenedRow DEF CommitRequest, Bound, Decisions
  <1>4. CASE CommitDecision(r)
    <2>1. /\ req[r].kind \in Decisions /\ row[r] \in Approvals
          /\ approvals[row[r]].status # "absent" /\ approvals[row[r]].task = req[r].task
          /\ approvals' = [approvals EXCEPT ![row[r]] =
                             Decided(@, req[r].user, Outcome[req[r].kind], req[r].note)]
      BY <1>1, <1>4 DEF CommitDecision, Bound
    <2>2. req[r].note \in {None, req[r].user}
      BY <1>1 DEF Bound
    <2>3. Decided(approvals[row[r]], req[r].user, Outcome[req[r].kind], req[r].note) \in ApprovalRow
      BY <1>1, <2>1, <2>2, DecidedRow
    <2> QED
      BY <1>1, <2>1, <2>2, <2>3 DEF Decisions
  <1> QED
    BY <1>2, <1>3, <1>4 DEF Commits

(***************************************************************************)
(* COMMIT, and with it the release of the row locks.                       *)
(***************************************************************************)
LEMMA CommitStep ==
    ASSUME IInv, NEW r \in Requests, Commits(r)
    PROVE  IInv'
  <1>1. /\ pc[r] = "commit" /\ Bound(r) /\ Accepted(r)
        /\ req[r].kind \in Kinds /\ req[r].user \in Users /\ req[r].task \in Tasks
    BY InFlight
    DEF Commits, CommitTask, CommitRequest, CommitDecision, IInv, RequestBinding, Accepted
  <1>2. /\ StoreStatus(r) /\ FreeLocks(r) /\ Advance(r) /\ UNCHANGED <<req, seen, row>>
    BY DEF Commits, CommitTask, CommitRequest, CommitDecision
  <1>3. /\ pc'[r] = "refresh" /\ pc' \in [Requests -> Steps] /\ OthersUntouched(r)
    BY <1>1, <1>2, AfterFacts DEF IInv, TypeOK, Advance, OthersUntouched, Untouched, Steps
  <1>4. /\ taskStatus' \in [Tasks -> TaskRow]
        /\ \A t \in Tasks \ {req[r].task} : taskStatus'[t] = taskStatus[t]
        /\ \A t \in Tasks : taskStatus[t] # "absent" => taskStatus'[t] # "absent"
    BY <1>1, <1>2, StoreRows
  <1>5. /\ approvalLock' \in [Approvals -> Requests \cup {None}]
        /\ taskLock' \in [Tasks -> Requests \cup {None}]
        /\ \A a \in Approvals : approvalLock'[a] # r
        /\ \A t \in Tasks : taskLock'[t] # r
        /\ \A q \in Requests \ {r} :
             /\ \A a \in Approvals : approvalLock'[a] = q <=> approvalLock[a] = q
             /\ \A t \in Tasks : taskLock'[t] = q <=> taskLock[t] = q
    BY <1>2, WorkflowAssumption DEF IInv, TypeOK, FreeLocks
  <1>6. TypeOK'
    BY <1>2, <1>3, <1>4, <1>5, CommitRows DEF IInv, TypeOK
  <1>7. /\ req[r].kind = "request" =>
             /\ approvals'[row[r]].task = req[r].task
             /\ approvals'[row[r]].requested_by = req[r].user
             /\ approvals'[row[r]].status = "pending"
             /\ approvals'[row[r]].reviewed_by = None
             /\ approvals'[row[r]].notes = None
        /\ req[r].kind \in Decisions =>
             /\ approvals'[row[r]].task = req[r].task
             /\ approvals'[row[r]].requested_by = approvals[row[r]].requested_by
             /\ approvals'[row[r]].status \in {"approved", "rejected"}
             /\ approvals'[row[r]].reviewed_by = req[r].user
    <2>1. CASE req[r].kind = "request"
      BY <1>1, <2>1, CommitRows, OpenedRow DEF Decisions
    <2>2. CASE req[r].kind \in Decisions
      <3>1. approvals[row[r]] \in ApprovalRow
        BY <2>2, CommitRows DEF IInv, TypeOK
      <3> DEFINE new == Decided(approvals[row[r]], req[r].user, Outcome[req[r].kind], req[r].note)
      <3>2. /\ approvals'[row[r]] = new
            /\ approvals[row[r]].task = req[r].task
            /\ req[r].note \in {None, req[r].user}
        BY <2>2, CommitRows
      <3>3. /\ new.task = approvals[row[r]].task
            /\ new.requested_by = approvals[row[r]].requested_by
            /\ new.status \in {"approved", "rejected"}
            /\ new.reviewed_by = req[r].user
        BY <1>1, <2>2, <3>1, <3>2, DecidedRow
      <3> HIDE DEF new
      <3> QED
        BY <2>2, <3>2, <3>3 DEF Decisions
    <2> QED
      BY <2>1, <2>2
  <1>8. AuditTrail'
    <2> SUFFICES ASSUME NEW a \in Approvals
                 PROVE  /\ approvals'[a].status = "absent" => approvals'[a] = NoRow
                        /\ approvals'[a].status # "absent" =>
                              /\ approvals'[a].task \in Tasks
                              /\ taskStatus'[approvals'[a].task] # "absent"
                              /\ approvals'[a].requested_by \in Users
                              /\ HasRole(approvals'[a].requested_by, "member")
                        /\ approvals'[a].status = "pending" =>
                              approvals'[a].reviewed_by = None /\ approvals'[a].notes = None
                        /\ approvals'[a].status \in {"approved", "rejected"} =>
                              /\ approvals'[a].reviewed_by \in Users
                              /\ HasRole(approvals'[a].reviewed_by, "manager")
      BY DEF AuditTrail, HasRole
    <2>1. CASE approvals'[a] = approvals[a]
      BY <1>4, <2>1 DEF IInv, AuditTrail
    <2>2. CASE a = row[r] /\ req[r].kind = "request"
      <3>1. HasRole(req[r].user, "member") /\ taskStatus[req[r].task] # "absent"
        BY <1>1, <2>2 DEF Bound, MinimumRole, Decisions
      <3> QED
        BY <1>1, <1>4, <1>7, <2>2, <3>1
    <2>3. CASE a = row[r] /\ req[r].kind \in Decisions
      <3>1. HasRole(req[r].user, "manager") /\ taskStatus[req[r].task] # "absent"
        BY <1>1, <2>3 DEF Bound, MinimumRole, Decisions
      <3>2. approvals[a].requested_by \in Users /\ HasRole(approvals[a].requested_by, "member")
        BY <2>3, CommitRows DEF IInv, AuditTrail
      <3> QED
        BY <1>1, <1>4, <1>7, <2>3, <3>1, <3>2
    <2> QED
      BY <1>1, <2>1, <2>2, <2>3, CommitRows DEF Kinds, Decisions
  <1>9. RequestBinding'
    <2>1. Bound(r)'
      BY <1>1, <1>2, <1>3, <1>4 DEF Bound, Accepted, HasRole
    <2>2. ASSUME NEW q \in Requests \ {r}
          PROVE  Bound(q)'
      <3>1. Bound(q) /\ Untouched(q)
        BY <1>3 DEF IInv, RequestBinding, OthersUntouched
      <3>2. \A a \in Approvals : approvals[a].status # "absent" =>
               approvals'[a].status # "absent" /\ approvals'[a].task = approvals[a].task
        BY <1>1, <1>7, CommitRows DEF Kinds, Decisions
      <3>3. req[q].kind = "create" =>
              /\ pc[q] # "refresh" => taskStatus'[req[q].task] = "absent"
              /\ \A p \in Requests \ {q} : ~(req'[p].kind = "create" /\ req'[p].task = req[q].task)
        <4> SUFFICES ASSUME req[q].kind = "create"
                     PROVE  /\ pc[q] # "refresh" => taskStatus'[req[q].task] = "absent"
                            /\ \A p \in Requests \ {q} :
                                 ~(req'[p].kind = "create" /\ req'[p].task = req[q].task)
          OBVIOUS
        <4>1. pc[q] # "idle"
          BY <3>1 DEF Bound, NoRequest
        <4>2. req[q].task \in Tasks
          BY <4>1, InFlight
        <4>3. pc[q] # "refresh" => req[q].task # req[r].task
          BY <1>1, <3>1 DEF Bound
        <4> QED
          BY <1>2, <1>4, <3>1, <4>2, <4>3 DEF Bound
      <3>4. OwnsRow(q) => /\ approvals'[row[q]].status = "absent"
                          /\ \A p \in Requests \ {q} : row'[p] # row[q]
        BY <1>2, <3>1, CommitRows DEF OwnsRow, Bound
      <3> QED
        BY <1>4, <3>1, <3>2, <3>3, <3>4, StillBound
    <2> QED
      BY <2>1, <2>2 DEF RequestBinding
  <1>10. LockDiscipline'
    <2>1. /\ \A a \in Approvals : ~Updated(r, a)'
          /\ \A t \in Tasks : ~UpdatedTask(r, t)'
      BY <1>3 DEF Updated, UpdatedTask
    <2> QED
      BY <1>3, <1>5, <2>1, StillLocked DEF LockDiscipline, OthersUntouched
  <1> QED
    BY <1>6, <1>8, <1>9, <1>10 DEF IInv

-----------------------------------------------------------------------------
(* The theorems.                                                           *)

(***************************************************************************)
(* Every step, of whatever request, preserves the inductive invariant.     *)
(***************************************************************************)
LEMMA NextStep ==
    ASSUME IInv, [Next]_vars
    PROVE  IInv'
  <1>1. ASSUME NEW r \in Requests, Begin(r)
        PROVE  IInv'
    BY <1>1, BeginStep
  <1>2. ASSUME NEW r \in Requests,
               Refuse(r) \/ Conflict(r) \/ NotNullViolation(r) \/ Refresh(r) \/ Fail(r)
        PROVE  IInv'
    BY <1>2, FinishStep DEF Refuse, Conflict, NotNullViolation, Refresh, Fail
  <1>3. ASSUME NEW r \in Requests, LoadTask(r)
        PROVE  IInv'
    BY <1>3, LoadTaskStep
  <1>4. ASSUME NEW r \in Requests, QueryForRequest(r) \/ QueryForDecision(r)
        PROVE  IInv'
    BY <1>4, QueryStep
  <1>5. ASSUME NEW r \in Requests, InsertApproval(r)
        PROVE  IInv'
    BY <1>5, InsertApprovalStep
  <1>6. ASSUME NEW r \in Requests, UpdateApproval(r)
        PROVE  IInv'
    BY <1>6, UpdateApprovalStep
  <1>7. ASSUME NEW r \in Requests, UpdateTask(r) \/ InsertOrSkipTask(r)
        PROVE  IInv'
    BY <1>7, TaskStep
  <1>8. ASSUME NEW r \in Requests, CommitTask(r) \/ CommitRequest(r) \/ CommitDecision(r)
        PROVE  IInv'
    BY <1>8, CommitStep DEF Commits
  <1>9. CASE UNCHANGED vars
    <2>1. TypeOK'
      BY <1>9 DEF IInv, TypeOK, vars
    <2>2. AuditTrail'
      BY <1>9, TablesUntouched DEF vars, tables
    <2>3. \A q \in Requests : Untouched(q)
      BY <1>9 DEF vars, Untouched
    <2>4. RequestBinding'
      BY <1>9 DEF IInv, RequestBinding, Bound, Accepted, NewStatus, vars
    <2>5. LockDiscipline'
      BY <1>9, <2>3, StillLocked DEF LockDiscipline, vars
    <2> QED
      BY <2>1, <2>2, <2>4, <2>5 DEF IInv
  <1> QED
    BY <1>1, <1>2, <1>3, <1>4, <1>5, <1>6, <1>7, <1>8, <1>9 DEF Next, Handle

(***************************************************************************)
(* The inductive invariant holds in every reachable state.                 *)
(***************************************************************************)
THEOREM Inductive == Spec => []IInv
  <1>1. Init => IInv
    <2> SUFFICES ASSUME Init
                 PROVE  IInv
      OBVIOUS
    <2>1. TypeOK
      BY AbsentRow DEF Init, TypeOK, TaskRow, Steps
    <2>2. AuditTrail
      BY AbsentRow DEF Init, AuditTrail
    <2>3. RequestBinding
      BY DEF Init, RequestBinding, Bound, Accepted, NoRequest, Decisions
    <2>4. LockDiscipline
      BY WorkflowAssumption DEF Init, LockDiscipline, Updated, UpdatedTask
    <2> QED
      BY <2>1, <2>2, <2>3, <2>4 DEF IInv
  <1>2. IInv /\ [Next]_vars => IInv'
    BY NextStep
  <1> QED
    BY <1>1, <1>2, PTL DEF Spec

(***************************************************************************)
(* The tables and the requests in flight keep their types.                 *)
(***************************************************************************)
THEOREM TypeCorrect == Spec => []TypeOK
  <1>1. IInv => TypeOK
    BY DEF IInv
  <1> QED
    BY <1>1, Inductive, PTL

(***************************************************************************)
(* However requests overlap or fail, the audit trail names a requester of  *)
(* the organization and, once decided, a reviewer of manager rank or above *)
(* (approval_service and the role gates of its routes).                    *)
(***************************************************************************)
THEOREM AuditTrailHolds == Spec => []AuditTrail
  <1>1. IInv => AuditTrail
    BY DEF IInv
  <1> QED
    BY <1>1, Inductive, PTL

(***************************************************************************)
(* What a request read still binds it to the tables when it writes.        *)
(***************************************************************************)
THEOREM RequestBindingHolds == Spec => []RequestBinding
  <1>1. IInv => RequestBinding
    BY DEF IInv
  <1> QED
    BY <1>1, Inductive, PTL

(***************************************************************************)
(* Row locks are held from the UPDATE to the end of the transaction.       *)
(***************************************************************************)
THEOREM LockDisciplineHolds == Spec => []LockDiscipline
  <1>1. IInv => LockDiscipline
    BY DEF IInv
  <1> QED
    BY <1>1, Inductive, PTL

(***************************************************************************)
(* A request waits only for one that is further in the common order of     *)
(* statements: approvals, tasks, commit.                                   *)
(***************************************************************************)
LEMMA WaitsForLater ==
    ASSUME IInv, NEW r \in Requests, NEW q \in Requests, WaitsFor(r, q)
    PROVE  \/ pc[r] = "approval" /\ pc[q] \in {"task", "commit"}
           \/ pc[r] = "task" /\ pc[q] = "commit"
  <1>1. CASE pc[r] = "approval" /\ req[r].kind \in Decisions /\ approvalLock[row[r]] = q
    <2>1. row[r] \in Approvals
      BY <1>1 DEF IInv, RequestBinding, Bound
    <2> QED
      BY <1>1, <2>1 DEF IInv, LockDiscipline, Updated
  <1>2. CASE pc[r] = "task" /\ taskLock[req[r].task] = q
    <2>1. req[r].task \in Tasks
      BY <1>2, InFlight
    <2> QED
      BY <1>2, <2>1 DEF IInv, LockDiscipline, UpdatedTask
  <1> QED
    BY <1>1, <1>2 DEF WaitsFor

(***************************************************************************)
(* No set of requests, of whatever number, waits for each other on row     *)
(* locks (the flush order of request_approval, approve_task, reject_task). *)
(***************************************************************************)
THEOREM NoDeadlock == Spec => []NoWaitCycle
  <1>1. IInv => NoWaitCycle
    <2> SUFFICES ASSUME IInv, NEW S \in SUBSET Requests, S # {}
                 PROVE  \E r \in S : \A q \in S : ~WaitsFor(r, q)
      BY DEF NoWaitCycle
    <2>1. \A r, q \in S : WaitsFor(r, q) =>
             \/ pc[r] = "approval" /\ pc[q] \in {"task", "commit"}
             \/ pc[r] = "task" /\ pc[q] = "commit"
      BY WaitsForLater
    <2>2. CASE \E r \in S : pc[r] = "commit"
      BY <2>1, <2>2
    <2>3. CASE (\A r \in S : pc[r] # "commit") /\ \E r \in S : pc[r] = "task"
      BY <2>1, <2>3
    <2>4. CASE \A r \in S : pc[r] \notin {"task", "commit"}
      BY <2>1, <2>4
    <2> QED
      BY <2>2, <2>3, <2>4
  <1> QED
    BY <1>1, Inductive, PTL

-----------------------------------------------------------------------------
(***************************************************************************)
(* Only the commits write the tables.                                      *)
(***************************************************************************)
LEMMA TablesChangeAtCommit ==
    ASSUME IInv, [Next]_vars
    PROVE  UNCHANGED tables \/ \E r \in Requests : Commits(r)
  BY DEF Next, Handle, Commits, Begin, Fail, Refuse, LoadTask, QueryForRequest,
         QueryForDecision, Conflict, InsertApproval, UpdateApproval, UpdateTask,
         InsertOrSkipTask, NotNullViolation, Refresh, Finish, vars, tables

(***************************************************************************)
(* An existing task moves to Done only in the commit of an approve that    *)
(* stamps an approval of that task ("the only code path that can set       *)
(* this").                                                                 *)
(***************************************************************************)
THEOREM OnlyApproveMovesToDone == Spec => MoveToDoneIsAnApproval
  <1>1. IInv /\ [Next]_vars =>
          [\A t \in Tasks :
              taskStatus[t] \notin {"absent", "done"} /\ taskStatus'[t] = "done"
                => \E r \in Requests : ApprovesNow(r, t)]_vars
    <2> SUFFICES ASSUME IInv, Next, NEW t \in Tasks,
                        taskStatus[t] \notin {"absent", "done"}, taskStatus'[t] = "done"
                 PROVE  \E r \in Requests : ApprovesNow(r, t)
      OBVIOUS
    <2>1. PICK r \in Requests : Commits(r)
      BY TablesChangeAtCommit DEF tables
    <2>2. /\ pc[r] = "commit" /\ Bound(r) /\ StoreStatus(r) /\ Advance(r)
      BY <2>1 DEF Commits, CommitTask, CommitRequest, CommitDecision, IInv, RequestBinding
    <2>3. pc'[r] = "refresh" /\ req[r].user \in Users
      BY <2>2, AfterFacts, InFlight DEF Advance, IInv, TypeOK
    <2>4. t = req[r].task
      BY <2>2, StoreRows
    <2>5. req[r].kind = "approve"
      <3>1. req[r].kind \in {"approve", "create"}
        BY <2>2, <2>4, StoreRows
      <3>2. req[r].kind = "create" => taskStatus[req[r].task] = "absent"
        BY <2>2 DEF Bound
      <3> QED
        BY <2>4, <3>1, <3>2
    <2>6. HasRole(req[r].user, "manager")
      BY <2>2, <2>5 DEF Bound, Accepted, MinimumRole, Decisions
    <2>7. /\ approvals'[row[r]].task = t
          /\ approvals'[row[r]].status = "approved"
          /\ approvals'[row[r]].reviewed_by = req[r].user
      <3> DEFINE new == Decided(approvals[row[r]], req[r].user, Outcome["approve"], req[r].note)
      <3>1. req[r].kind \in Decisions /\ "approve" \in Decisions
        BY <2>5 DEF Decisions
      <3>2. /\ approvals'[row[r]] = new
            /\ row[r] \in Approvals
            /\ approvals[row[r]].task = t
            /\ req[r].note \in {None, req[r].user}
        BY <2>1, <2>4, <2>5, <3>1, CommitRows
      <3>3. approvals[row[r]] \in ApprovalRow
        BY <3>2 DEF IInv, TypeOK
      <3>4. /\ new.task = t
            /\ new.status = Outcome["approve"]
            /\ new.reviewed_by = req[r].user
        BY <2>3, <3>1, <3>2, <3>3, DecidedRow
      <3>5. Outcome["approve"] = "approved"
        BY DEF Outcome
      <3> HIDE DEF new
      <3> QED
        BY <3>2, <3>4, <3>5
    <2> QED
      BY <2>2, <2>3, <2>4, <2>5, <2>6, <2>7 DEF ApprovesNow
  <1> QED
    BY <1>1, Inductive, PTL DEF Spec, MoveToDoneIsAnApproval

(***************************************************************************)
(* AuditLog speaks of the same rows, roles and decisions.                  *)
(***************************************************************************)
LEMMA SameRecords ==
    /\ Audit!TaskStatus = TaskStatus
    /\ Audit!Decisions = Decisions
    /\ Audit!NoRow = NoRow
    /\ Audit!Outcome = Outcome
    /\ Audit!DecidedTaskStatus = DecidedTaskStatus
    /\ \A u, minimum : Audit!HasRole(u, minimum) <=> HasRole(u, minimum)
    /\ \A t, u : Audit!Opened(t, u) = Opened(t, u)
    /\ \A r, u, o, n : Audit!Decided(r, u, o, n) = Decided(r, u, o, n)
  <1>1. \A u, minimum : Audit!HasRole(u, minimum) <=> HasRole(u, minimum)
    BY DEF Audit!HasRole, HasRole, Audit!RoleSatisfies, RoleSatisfies, Audit!RoleRank, RoleRank,
           Audit!OrgRole, OrgRole
  <1>2. \A t, u : Audit!Opened(t, u) = Opened(t, u)
    BY DEF Audit!Opened, Opened
  <1>3. \A r, u, o, n : Audit!Decided(r, u, o, n) = Decided(r, u, o, n)
    BY DEF Audit!Decided, Decided
  <1> QED
    BY <1>1, <1>2, <1>3
    DEF Audit!TaskStatus, TaskStatus, Audit!Decisions, Decisions, Audit!NoRow, NoRow,
        Audit!Outcome, Outcome, Audit!DecidedTaskStatus, DecidedTaskStatus

(***************************************************************************)
(* Every COMMIT, of whatever request and however stale its reads, is one   *)
(* step of the audit log, or changes nothing.                              *)
(***************************************************************************)
LEMMA CommitKeepsLog ==
    ASSUME IInv, NEW r \in Requests, Commits(r)
    PROVE  Audit!Next \/ UNCHANGED tables
  <1>1. /\ pc[r] = "commit" /\ Bound(r) /\ StoreStatus(r)
        /\ req[r].kind \in Kinds /\ req[r].user \in Users /\ req[r].task \in Tasks
        /\ req[r].status \in BodyStatuses(req[r].kind)
    BY InFlight DEF Commits, CommitTask, CommitRequest, CommitDecision, IInv, RequestBinding
  <1> DEFINE t == req[r].task
             u == req[r].user
  <1>2. taskStatus' \in {taskStatus, [taskStatus EXCEPT ![t] = NewStatus(r)]}
    BY <1>1 DEF StoreStatus
  <1>3. taskStatus' # taskStatus => NewStatus(r) \in TaskStatus
    BY <1>1, StoredStatus DEF StoreStatus
  <1>4. ASSUME req[r].kind = "create"
        PROVE  (\E s \in CreateStatuses : Audit!CreateTask(t, s)) \/ UNCHANGED tables
    <2>1. approvals' = approvals
      BY <1>4, CommitRows
    <2>2. taskStatus[t] = "absent" /\ NewStatus(r) \in CreateStatuses
      BY <1>1, <1>4 DEF Bound, NewStatus, BodyStatuses
    <2> QED
      BY <1>2, <2>1, <2>2 DEF Audit!CreateTask, tables
  <1>5. ASSUME req[r].kind = "patch"
        PROVE  (\E s \in TaskStatus : Audit!UpdateTask(t, s)) \/ UNCHANGED tables
    <2>1. approvals' = approvals
      BY <1>5, CommitRows
    <2>2. taskStatus[t] # "absent" /\ NewStatus(r) # "done"
      BY <1>1, <1>5 DEF Bound, Accepted, NewStatus
    <2> QED
      BY <1>2, <1>3, <2>1, <2>2 DEF Audit!UpdateTask, tables
  <1>6. ASSUME req[r].kind = "request"
        PROVE  \E a \in Approvals : Audit!OpenApproval(t, u, a)
    <2>1. NewStatus(r) = "in_review"
      BY <1>6 DEF NewStatus
    <2>2. taskStatus[t] # "absent" /\ HasRole(u, "member")
      BY <1>1, <1>6 DEF Bound, Accepted, MinimumRole, Decisions
    <2>3. /\ row[r] \in Approvals /\ approvals[row[r]].status = "absent"
          /\ approvals' = [approvals EXCEPT ![row[r]] = Opened(t, u)]
      BY <1>6, CommitRows DEF Commits, CommitTask, CommitRequest, CommitDecision, Decisions
    <2> QED
      BY <1>2, <2>1, <2>2, <2>3, SameRecords DEF Audit!OpenApproval, Audit!MayStore
  <1>7. ASSUME req[r].kind \in Decisions
        PROVE  \E a \in Approvals : \E note \in {None, u} :
                 Audit!Decide(req[r].kind, u, a, note)
    <2>1. NewStatus(r) = DecidedTaskStatus[req[r].kind]
      BY <1>7 DEF NewStatus, Decisions
    <2>2. HasRole(u, "manager")
      BY <1>1, <1>7 DEF Bound, Accepted, MinimumRole
    <2>3. /\ row[r] \in Approvals /\ approvals[row[r]].status # "absent"
          /\ approvals[row[r]].task = t /\ req[r].note \in {None, u}
          /\ approvals' = [approvals EXCEPT ![row[r]] =
                              Decided(@, u, Outcome[req[r].kind], req[r].note)]
      BY <1>7, CommitRows DEF Commits, CommitTask, CommitRequest, CommitDecision, Decisions
    <2>4. Audit!Decide(req[r].kind, u, row[r], req[r].note)
      BY <1>2, <2>1, <2>2, <2>3, SameRecords DEF Audit!Decide, Audit!MayStore
    <2> QED
      BY <2>3, <2>4
  <1> QED
    BY <1>1, <1>4, <1>5, <1>6, <1>7, SameRecords DEF Audit!Next, Kinds, Decisions

(***************************************************************************)
(* The committed tables evolve as AuditLog says, whatever overlaps.        *)
(***************************************************************************)
THEOREM RefinesAuditLog == Spec => ImplementsAuditLog
  <1>1. Init => Audit!Init
    BY SameRecords DEF Init, Audit!Init
  <1>2. IInv /\ [Next]_vars => [Audit!Next]_(Audit!auditVars)
    BY TablesChangeAtCommit, CommitKeepsLog DEF Audit!auditVars, tables
  <1> QED
    BY <1>1, <1>2, Inductive, PTL DEF Spec, ImplementsAuditLog, Audit!Spec

-----------------------------------------------------------------------------
(* What requests have read, and who makes it out of date.                  *)

(***************************************************************************)
(* Watching the workflow restricts nothing of it, so its inductive         *)
(* invariant holds while it is watched.                                    *)
(***************************************************************************)
LEMMA OverlapInductive == OverlapSpec => []IInv
  <1>1. OverlapInit => Init
    BY DEF OverlapInit
  <1>2. [Next /\ Observe]_overlapVars => [Next]_vars
    BY DEF overlapVars
  <1> QED
    BY <1>1, <1>2, Inductive, PTL DEF OverlapSpec, Spec

(***************************************************************************)
(* The commit of r is the only one of its step.                            *)
(***************************************************************************)
LEMMA OneCommit ==
    ASSUME IInv, NEW r \in Requests, Commits(r)
    PROVE  /\ CommitsNow(r) /\ StoreStatus(r) /\ OthersUntouched(r)
           /\ req' = req
           /\ \A q \in Requests \ {r} : ~CommitsNow(q)
  <1>1. /\ pc[r] = "commit" /\ pc'[r] = "refresh" /\ StoreStatus(r) /\ OthersUntouched(r)
        /\ req' = req
    BY AfterFacts
    DEF Commits, CommitTask, CommitRequest, CommitDecision, Advance,
        OthersUntouched, Untouched, IInv, TypeOK
  <1> QED
    BY <1>1 DEF CommitsNow, OthersUntouched, Untouched

(***************************************************************************)
(* A commit changes the rows of its own task only.                         *)
(***************************************************************************)
LEMMA CommitInOwnTask ==
    ASSUME IInv, NEW r \in Requests, Commits(r)
    PROVE  OnlyOf(req[r].task)
  <1>1. /\ req[r].kind \in Kinds /\ req[r].task \in Tasks /\ req[r].user \in Users
        /\ pc[r] = "commit" /\ StoreStatus(r)
    BY InFlight DEF Commits, CommitTask, CommitRequest, CommitDecision
  <1>2. \A s \in Tasks \ {req[r].task} : taskStatus'[s] = taskStatus[s]
    BY <1>1, StoreRows
  <1>3. ASSUME NEW a \in Approvals, approvals'[a] # approvals[a]
        PROVE  approvals[a].task \in {None, req[r].task} /\ approvals'[a].task = req[r].task
    <2>1. a = row[r] /\ req[r].kind \in {"request"} \cup Decisions
      BY <1>1, <1>3, CommitRows DEF Kinds, Decisions
    <2>2. CASE req[r].kind = "request"
      <3>1. approvals[a] = NoRow
        BY <2>1, <2>2, CommitRows DEF IInv, AuditTrail
      <3>2. approvals'[a].task = req[r].task
        BY <1>1, <2>1, <2>2, CommitRows, OpenedRow
      <3> QED
        BY <3>1, <3>2 DEF NoRow
    <2>3. CASE req[r].kind \in Decisions
      <3> DEFINE new == Decided(approvals[a], req[r].user, Outcome[req[r].kind], req[r].note)
      <3>1. /\ approvals'[a] = new
            /\ approvals[a].task = req[r].task
            /\ req[r].note \in {None, req[r].user}
        BY <2>1, <2>3, CommitRows
      <3>2. approvals[a] \in ApprovalRow
        BY DEF IInv, TypeOK
      <3>3. new.task = approvals[a].task
        BY <1>1, <2>3, <3>1, <3>2, DecidedRow
      <3> HIDE DEF new
      <3> QED
        BY <3>1, <3>3
    <2> QED
      BY <2>1, <2>2, <2>3
  <1> QED
    BY <1>2, <1>3 DEF OnlyOf

(***************************************************************************)
(* What a request has read stays so while the step changes neither the     *)
(* request nor the rows of its task.                                       *)
(***************************************************************************)
LEMMA StillFresh ==
    ASSUME NEW q \in Requests, Fresh(q), Untouched(q),
           pc[q] # "idle" => /\ taskStatus'[req[q].task] = taskStatus[req[q].task]
                             /\ PendingOf(approvals', req[q].task) = PendingOf(approvals, req[q].task)
    PROVE  Fresh(q)'
  <1>1. /\ BeforeCommit(q)' = BeforeCommit(q)
        /\ BeforeCommit(q) => pc[q] # "idle"
    BY DEF BeforeCommit, Accepted, Untouched
  <1>2. PendingOf(approvals, req[q].task)' = PendingOf(approvals', req[q].task)
    BY DEF PendingOf, Untouched
  <1> QED
    BY <1>1, <1>2 DEF Fresh, Untouched

\* One disjunct of StaleOnlyIfOvertaken, for request q.
Excused(q) == q \in overtaken \/ req[q].kind = "patch"

(***************************************************************************)
(* A request that goes on keeps its excuse, and one whose task is          *)
(* committed by another has one; a request that does not go on needs none. *)
(***************************************************************************)
LEMMA StaysExcused ==
    ASSUME Observe, NEW q \in Requests, BeforeCommit(q)' => req'[q] = req[q],
           Excused(q) \/ \E r \in Requests : Overtakes(r, q)
    PROVE  Fresh(q)' \/ Excused(q)'
  <1>1. ~BeforeCommit(q)' => Fresh(q)'
    BY DEF BeforeCommit, Accepted, Fresh
  <1>2. ASSUME BeforeCommit(q)', req[q].kind # "patch"
        PROVE  q \in overtaken'
    BY <1>2 DEF Observe, Excused
  <1> QED
    BY <1>1, <1>2 DEF Excused

(***************************************************************************)
(* A step of r that leaves the tables alone keeps the reads of the others. *)
(***************************************************************************)
LEMMA OthersStillFresh ==
    ASSUME StaleOnlyIfOvertaken, Observe, NEW r \in Requests, OthersUntouched(r), UNCHANGED tables
    PROVE  \A q \in Requests \ {r} : Fresh(q)' \/ Excused(q)'
  <1> SUFFICES ASSUME NEW q \in Requests \ {r}
               PROVE  Fresh(q)' \/ Excused(q)'
    OBVIOUS
  <1>1. Untouched(q)
    BY DEF OthersUntouched
  <1>2. CASE Fresh(q)
    BY <1>1, <1>2, StillFresh DEF tables
  <1>3. CASE ~Fresh(q)
    <2>1. Excused(q)
      BY <1>3 DEF StaleOnlyIfOvertaken, Excused
    <2> QED
      BY <1>1, <2>1, StaysExcused DEF Untouched
  <1> QED
    BY <1>2, <1>3

(***************************************************************************)
(* A step of r on its own behalf keeps its reads, if it keeps them fresh   *)
(* when they are.                                                          *)
(***************************************************************************)
LEMMA OwnStillFresh ==
    ASSUME StaleOnlyIfOvertaken, Observe, NEW r \in Requests, BeforeCommit(r)' => req'[r] = req[r],
           Fresh(r) => Fresh(r)'
    PROVE  Fresh(r)' \/ Excused(r)'
  <1>1. CASE Fresh(r)
    BY <1>1
  <1>2. CASE ~Fresh(r)
    <2>1. Excused(r)
      BY <1>2 DEF StaleOnlyIfOvertaken, Excused
    <2> QED
      BY <2>1, StaysExcused
  <1> QED
    BY <1>1, <1>2

(***************************************************************************)
(* No step but a commit of another request on the same task makes a read   *)
(* stale.                                                                  *)
(***************************************************************************)
LEMMA FreshStep ==
    ASSUME IInv, StaleOnlyIfOvertaken, [Next /\ Observe]_overlapVars
    PROVE  StaleOnlyIfOvertaken'
  <1> DEFINE Good(q) == Fresh(q) \/ Excused(q)
  <1> SUFFICES \A q \in Requests : Good(q)'
    BY DEF StaleOnlyIfOvertaken, Excused
  <1>1. ASSUME NEW r \in Requests, Observe,
               \/ Begin(r) \/ Refuse(r) \/ Conflict(r) \/ NotNullViolation(r)
               \/ Refresh(r) \/ Fail(r)
        PROVE  \A q \in Requests : Good(q)'
    <2>1. pc'[r] \in {"idle", "load"} /\ OthersUntouched(r) /\ UNCHANGED tables
      <3>1. CASE Begin(r)
        <4>1. \A q \in Requests \ {r} : req'[q] = req[q]
          BY <3>1 DEF Begin, IInv, TypeOK
        <4> QED
          BY <3>1, <4>1 DEF Begin, OthersUntouched, Untouched, IInv, TypeOK
      <3>2. CASE Finish(r)
        BY <3>2 DEF Finish, OthersUntouched, Untouched, IInv, TypeOK
      <3> QED
        BY <1>1, <3>1, <3>2 DEF Refuse, Conflict, NotNullViolation, Refresh, Fail
    <2>2. Fresh(r)'
      BY <2>1 DEF Fresh, BeforeCommit, Accepted
    <2> QED
      BY <1>1, <2>1, <2>2, OthersStillFresh
  <1>2. ASSUME NEW r \in Requests, Observe, LoadTask(r)
        PROVE  \A q \in Requests : Good(q)'
    <2>1. /\ pc'[r] \in {"task", "query"} /\ seen'[r] = taskStatus[req[r].task] /\ req' = req
          /\ pc'[r] = "task" => req[r].kind \in {"create", "patch"}
          /\ OthersUntouched(r) /\ UNCHANGED tables
      BY <1>2, AfterFacts DEF LoadTask, Advance, OthersUntouched, Untouched, IInv, TypeOK
    <2>2. Fresh(r)'
      BY <2>1 DEF Fresh, tables, Decisions
    <2> QED
      BY <1>2, <2>1, <2>2, OthersStillFresh
  <1>3. ASSUME NEW r \in Requests, Observe, QueryForRequest(r) \/ QueryForDecision(r)
        PROVE  \A q \in Requests : Good(q)'
    <2>1. /\ pc[r] = "query" /\ pc'[r] = "approval" /\ req' = req /\ seen' = seen
          /\ OthersUntouched(r) /\ UNCHANGED tables
      BY <1>3, AfterFacts
      DEF QueryForRequest, QueryForDecision, Advance, OthersUntouched, Untouched, IInv, TypeOK
    <2>2. /\ req[r].kind = "request" => PendingOf(approvals, req[r].task) = {}
          /\ req[r].kind \in Decisions => row'[r] \in PendingOf(approvals, req[r].task)
      <3>1. CASE QueryForRequest(r)
        BY <3>1 DEF QueryForRequest, Decisions
      <3>2. CASE QueryForDecision(r)
        BY <3>2 DEF QueryForDecision, Decisions, IInv, TypeOK
      <3> QED
        BY <1>3, <3>1, <3>2
    <2>3. Fresh(r) => Fresh(r)'
      BY <2>1, <2>2 DEF Fresh, BeforeCommit, Accepted, tables, PendingOf
    <2> QED
      BY <1>3, <2>1, <2>3, OthersStillFresh, OwnStillFresh
  <1>4. ASSUME NEW r \in Requests, Observe,
               InsertApproval(r) \/ UpdateApproval(r) \/ UpdateTask(r) \/ InsertOrSkipTask(r)
        PROVE  \A q \in Requests : Good(q)'
    <2>1. /\ pc[r] \in {"approval", "task"} /\ pc'[r] \in {"task", "commit"}
          /\ req' = req /\ seen' = seen
          /\ row'[r] # row[r] => req[r].kind = "request"
          /\ OthersUntouched(r) /\ UNCHANGED tables
      BY <1>4, AfterFacts
      DEF InsertApproval, UpdateApproval, UpdateTask, InsertOrSkipTask, Advance,
          OthersUntouched, Untouched, IInv, TypeOK
    <2>2. Fresh(r) => Fresh(r)'
      BY <2>1 DEF Fresh, BeforeCommit, Accepted, tables, PendingOf, Decisions
    <2> QED
      BY <1>4, <2>1, <2>2, OthersStillFresh, OwnStillFresh
  <1>5. ASSUME NEW r \in Requests, Observe, Commits(r)
        PROVE  \A q \in Requests : Good(q)'
    <2>1. /\ CommitsNow(r) /\ OthersUntouched(r) /\ OnlyOf(req[r].task)
          /\ pc'[r] = "refresh" /\ req[r].task \in Tasks
      BY <1>5, OneCommit, CommitInOwnTask, InFlight DEF CommitsNow
    <2>2. Fresh(r)'
      BY <2>1 DEF Fresh, BeforeCommit
    <2>3. ASSUME NEW q \in Requests \ {r}, req[q].task = req[r].task
          PROVE  Good(q)'
      <3>1. Overtakes(r, q)
        BY <2>1, <2>3 DEF Overtakes
      <3> QED
        BY <1>5, <2>1, <3>1, StaysExcused DEF OthersUntouched, Untouched
    <2>4. ASSUME NEW q \in Requests \ {r}, req[q].task # req[r].task
          PROVE  Good(q)'
      <3>1. Untouched(q) /\ (pc[q] # "idle" => req[q].task \in Tasks)
        BY <2>1, InFlight DEF OthersUntouched
      <3>2. pc[q] # "idle" => taskStatus'[req[q].task] = taskStatus[req[q].task]
        BY <2>1, <2>4, <3>1 DEF OnlyOf
      <3>3. pc[q] # "idle" =>
              PendingOf(approvals', req[q].task) = PendingOf(approvals, req[q].task)
        <4> SUFFICES ASSUME pc[q] # "idle", NEW a \in Approvals
                     PROVE  (approvals'[a].task = req[q].task /\ approvals'[a].status = "pending")
                              <=> (approvals[a].task = req[q].task /\ approvals[a].status = "pending")
          BY DEF PendingOf
        <4>1. approvals'[a] # approvals[a] =>
                approvals[a].task # req[q].task /\ approvals'[a].task # req[q].task
          BY <2>1, <2>4, <3>1, RecordsAssumption DEF OnlyOf
        <4> QED
          BY <4>1
      <3>4. CASE Fresh(q)
        BY <3>1, <3>2, <3>3, <3>4, StillFresh
      <3>5. CASE ~Fresh(q)
        <4>1. Excused(q)
          BY <3>5 DEF StaleOnlyIfOvertaken, Excused
        <4> QED
          BY <1>5, <3>1, <4>1, StaysExcused DEF Untouched
      <3> QED
        BY <3>4, <3>5
    <2> QED
      BY <2>2, <2>3, <2>4
  <1>6. CASE UNCHANGED overlapVars
    <2>1. \A q \in Requests : Fresh(q) => Fresh(q)'
      BY <1>6, StillFresh DEF Untouched, overlapVars, vars
    <2>2. \A q \in Requests : Excused(q) => Excused(q)'
      BY <1>6 DEF Excused, overlapVars, vars
    <2> QED
      BY <2>1, <2>2 DEF StaleOnlyIfOvertaken, Excused
  <1> HIDE DEF Good
  <1> QED
    BY <1>1, <1>2, <1>3, <1>4, <1>5, <1>6 DEF Next, Handle, Commits

(***************************************************************************)
(* Under every interleaving and failure, what a request has read is still  *)
(* so at its COMMIT unless another request committed on its task in        *)
(* between (approval_service, task_service).                               *)
(***************************************************************************)
THEOREM StaleReadsAreOvertaken == OverlapSpec => [](IInv /\ StaleOnlyIfOvertaken)
  <1>1. OverlapInit => StaleOnlyIfOvertaken
    BY DEF OverlapInit, Init, StaleOnlyIfOvertaken, Fresh, BeforeCommit, Accepted
  <1>2. IInv /\ StaleOnlyIfOvertaken /\ [Next /\ Observe]_overlapVars => StaleOnlyIfOvertaken'
    BY FreshStep
  <1> QED
    BY <1>1, <1>2, OverlapInductive, PTL DEF OverlapSpec

(***************************************************************************)
(* ApprovalGate speaks of the same rows, roles and decisions.              *)
(***************************************************************************)
LEMMA SameGateRecords ==
    /\ Gate!TaskStatus = TaskStatus
    /\ Gate!Decisions = Decisions
    /\ Gate!NoRow = NoRow
    /\ Gate!Outcome = Outcome
    /\ Gate!DecidedTaskStatus = DecidedTaskStatus
    /\ \A u, minimum : Gate!HasRole(u, minimum) <=> HasRole(u, minimum)
    /\ \A t, u : Gate!Opened(t, u) = Opened(t, u)
    /\ \A r, u, o, n : Gate!Decided(r, u, o, n) = Decided(r, u, o, n)
    /\ \A t : Gate!PendingOf(approvals, t) = PendingOf(approvals, t)
  <1>1. \A u, minimum : Gate!HasRole(u, minimum) <=> HasRole(u, minimum)
    BY DEF Gate!HasRole, HasRole, Gate!RoleSatisfies, RoleSatisfies, Gate!RoleRank, RoleRank,
           Gate!OrgRole, OrgRole
  <1>2. \A t, u : Gate!Opened(t, u) = Opened(t, u)
    BY DEF Gate!Opened, Opened
  <1>3. \A r, u, o, n : Gate!Decided(r, u, o, n) = Decided(r, u, o, n)
    BY DEF Gate!Decided, Decided
  <1>4. \A t : Gate!PendingOf(approvals, t) = PendingOf(approvals, t)
    BY DEF Gate!PendingOf, PendingOf
  <1> QED
    BY <1>1, <1>2, <1>3, <1>4
    DEF Gate!TaskStatus, TaskStatus, Gate!Decisions, Decisions, Gate!NoRow, NoRow,
        Gate!Outcome, Outcome, Gate!DecidedTaskStatus, DecidedTaskStatus

(***************************************************************************)
(* At a COMMIT on a fresh status the column the UPDATE leaves out has the  *)
(* value already, so the row ends with the status the handler assigned.    *)
(***************************************************************************)
LEMMA FreshStore ==
    ASSUME IInv, NEW r \in Requests, pc[r] = "commit", StoreStatus(r),
           seen[r] = taskStatus[req[r].task]
    PROVE  taskStatus' = IF NewStatus(r) = "unset" THEN taskStatus
                         ELSE [taskStatus EXCEPT ![req[r].task] = NewStatus(r)]
  <1>1. taskStatus \in [Tasks -> TaskRow] /\ req[r].task \in Tasks
    BY InFlight DEF IInv, TypeOK
  <1>2. CASE NewStatus(r) = taskStatus[req[r].task]
    BY <1>1, <1>2 DEF StoreStatus, WritesStatus
  <1>3. CASE NewStatus(r) # taskStatus[req[r].task]
    BY <1>3 DEF StoreStatus, WritesStatus
  <1> QED
    BY <1>2, <1>3

(***************************************************************************)
(* A COMMIT on reads that are still so is a step of the documented         *)
(* protocol, and that of a patch is one whatever the patch has read.       *)
(***************************************************************************)
LEMMA FreshCommit ==
    ASSUME IInv, NEW r \in Requests, Commits(r), Fresh(r) \/ req[r].kind = "patch",
           ~(req[r].kind = "create" /\ req[r].status = "done")
    PROVE  Gate!Next \/ UNCHANGED tables
  <1>1. /\ pc[r] = "commit" /\ Bound(r) /\ StoreStatus(r)
        /\ req[r].kind \in Kinds /\ req[r].user \in Users /\ req[r].task \in Tasks
        /\ req[r].status \in BodyStatuses(req[r].kind)
    BY InFlight
    DEF Commits, CommitTask, CommitRequest, CommitDecision, IInv, RequestBinding
  <1> DEFINE t == req[r].task
             u == req[r].user
  <1>2. ASSUME req[r].kind # "patch"
        PROVE  taskStatus' = IF NewStatus(r) = "unset" THEN taskStatus
                             ELSE [taskStatus EXCEPT ![t] = NewStatus(r)]
    <2>1. seen[r] = taskStatus[t]
      BY <1>1, <1>2 DEF Fresh, BeforeCommit, Accepted
    <2> QED
      BY <1>1, <2>1, FreshStore
  <1>3. ASSUME req[r].kind = "create"
        PROVE  \E s \in TaskStatus : Gate!CreateTask(t, s)
    <2>1. approvals' = approvals
      BY <1>3, CommitRows
    <2>2. taskStatus[t] = "absent" /\ NewStatus(r) \in CreateStatuses /\ NewStatus(r) # "done"
      BY <1>1, <1>3 DEF Bound, NewStatus, BodyStatuses
    <2>3. NewStatus(r) \in TaskStatus /\ NewStatus(r) # "unset"
      BY <2>2, WorkflowAssumption DEF TaskStatus
    <2> QED
      BY <1>2, <1>3, <2>1, <2>2, <2>3 DEF Gate!CreateTask, Gate!Exists
  <1>4. ASSUME req[r].kind = "patch"
        PROVE  (\E s \in TaskStatus : Gate!UpdateTask(t, s)) \/ UNCHANGED tables
    <2>1. approvals' = approvals
      BY <1>4, CommitRows
    <2>2. taskStatus[t] # "absent" /\ NewStatus(r) # "done"
      BY <1>1, <1>4 DEF Bound, Accepted, NewStatus
    <2>3. CASE WritesStatus(r)
      <3>1. NewStatus(r) \in TaskStatus
        BY <1>1, <2>3, StoredStatus
      <3>2. taskStatus' = [taskStatus EXCEPT ![t] = NewStatus(r)]
        BY <1>1, <2>3 DEF StoreStatus
      <3> QED
        BY <2>1, <2>2, <3>1, <3>2 DEF Gate!UpdateTask, Gate!Exists
    <2>4. CASE ~WritesStatus(r)
      BY <1>1, <2>1, <2>4 DEF StoreStatus, tables
    <2> QED
      BY <2>3, <2>4
  <1>5. ASSUME req[r].kind = "request"
        PROVE  \E a \in Approvals : Gate!RequestApproval(t, u, a)
    <2>1. NewStatus(r) = "in_review"
      BY <1>5 DEF NewStatus
    <2>2. taskStatus[t] # "absent" /\ HasRole(u, "member")
      BY <1>1, <1>5 DEF Bound, Accepted, MinimumRole, Decisions
    <2>3. PendingOf(approvals, t) = {}
      BY <1>1, <1>5 DEF Fresh
    <2>4. /\ row[r] \in Approvals /\ approvals[row[r]].status = "absent"
          /\ approvals' = [approvals EXCEPT ![row[r]] = Opened(t, u)]
      BY <1>5, CommitRows DEF Commits, CommitTask, CommitRequest, CommitDecision, Decisions
    <2>5. taskStatus' = [taskStatus EXCEPT ![t] = "in_review"]
      BY <1>2, <1>5, <2>1
    <2> QED
      BY <2>2, <2>3, <2>4, <2>5, SameGateRecords DEF Gate!RequestApproval, Gate!Exists
  <1>6. ASSUME req[r].kind \in Decisions
        PROVE  \E a \in Approvals : \E note \in {None, u} :
                 Gate!Decide(req[r].kind, t, u, a, note)
    <2>1. /\ NewStatus(r) = DecidedTaskStatus[req[r].kind]
          /\ NewStatus(r) # "unset"
      BY <1>6, DecidedStatus DEF NewStatus, Decisions, TaskStatus
    <2>2. HasRole(u, "manager")
      BY <1>1, <1>6 DEF Bound, Accepted, MinimumRole
    <2>3. req[r].kind # "patch"
      BY <1>6 DEF Decisions
    <2>4. row[r] \in PendingOf(approvals, t)
      BY <1>1, <1>6, <2>3 DEF Fresh
    <2>5. /\ row[r] \in Approvals /\ req[r].note \in {None, u}
          /\ approvals' = [approvals EXCEPT ![row[r]] =
                              Decided(@, req[r].user, Outcome[req[r].kind], req[r].note)]
      BY <1>6, CommitRows DEF Commits, CommitTask, CommitRequest, CommitDecision, Decisions
    <2>6. Gate!Decide(req[r].kind, t, u, row[r], req[r].note)
      BY <1>2, <2>1, <2>2, <2>3, <2>4, <2>5, SameGateRecords DEF Gate!Decide
    <2> QED
      BY <2>5, <2>6
  <1> QED
    BY <1>1, <1>3, <1>4, <1>5, <1>6, SameGateRecords DEF Gate!Next, Kinds, Decisions

(***************************************************************************)
(* A step that changes the tables is one of the contract.                  *)
(***************************************************************************)
LEMMA EveryStepOfContract ==
    ASSUME IInv, StaleOnlyIfOvertaken, [Next]_vars
    PROVE  ContractStep \/ UNCHANGED tables
  <1> SUFFICES ASSUME NEW r \in Requests, Commits(r), ~UNCHANGED tables
               PROVE  ContractStep
    BY TablesChangeAtCommit
  <1>1. CommitsNow(r) /\ OnlyOf(req[r].task)
    BY OneCommit, CommitInOwnTask
  <1>2. CASE Exposes(r)
    BY <1>1, <1>2, CommitKeepsLog DEF ContractStep
  <1>3. CASE ~Exposes(r)
    <2>1. /\ Fresh(r) \/ req[r].kind = "patch"
          /\ ~(req[r].kind = "create" /\ req[r].status = "done")
      BY <1>1, <1>3 DEF Exposes, StaleOnlyIfOvertaken
    <2>2. Gate!Next
      BY <2>1, FreshCommit
    <2> QED
      BY <1>1, <2>2 DEF ContractStep
  <1> QED
    BY <1>2, <1>3

(***************************************************************************)
(* Under every interleaving and failure, whatever the clients send, each   *)
(* COMMIT is one indivisible step of the documented protocol (README,      *)
(* "Approval workflow"), except that of a request another one overtook and *)
(* that of a task created as Done; these too change their own task only    *)
(* and keep the audit log.                                                 *)
(***************************************************************************)
THEOREM ContractHolds == OverlapSpec => ImplementsContract
  <1>1. OverlapInit => Gate!Init
    BY SameGateRecords DEF OverlapInit, Init, Gate!Init
  <1>2. IInv /\ StaleOnlyIfOvertaken /\ [Next /\ Observe]_overlapVars => [ContractStep]_tables
    <2>1. [Next /\ Observe]_overlapVars => [Next]_vars
      BY DEF overlapVars
    <2> QED
      BY <2>1, EveryStepOfContract
  <1> QED
    BY <1>1, <1>2, StaleReadsAreOvertaken, PTL DEF OverlapSpec, ImplementsContract

-----------------------------------------------------------------------------
(* What the contract gives a task that is not exposed.                     *)

(***************************************************************************)
(* The theorems about the gate are about the specification that            *)
(* ApprovalWorkflow instantiates as Gate.                                  *)
(***************************************************************************)
Promises == INSTANCE ApprovalGateProofs

LEMMA SameGate ==
    /\ Promises!RecordsAssumption
    /\ TypeOK => Promises!TypeOK
    /\ Gate!Next => Promises!Next
    /\ \A t : Gate!HasApprover(t) <=> Promises!HasApprover(t)
    /\ \A t : Gate!AtMostOnePending(t) <=> Promises!AtMostOnePending(t)
  <1> USE DEF Gate!HasRole, Promises!HasRole, Gate!RoleSatisfies, Promises!RoleSatisfies,
              Gate!RoleRank, Promises!RoleRank, Gate!OrgRole, Promises!OrgRole,
              Gate!PendingOf, Promises!PendingOf
  <1>1. Promises!RecordsAssumption
    BY RecordsAssumption DEF Promises!RecordsAssumption, OrgRole
  <1>2. TypeOK => Promises!TypeOK
    BY DEF TypeOK, Promises!TypeOK, TaskRow, Promises!TaskRow, TaskStatus, Promises!TaskStatus,
           ApprovalRow, Promises!ApprovalRow, ApprovalStatus, Promises!ApprovalStatus
  <1>3. Gate!Next => Promises!Next
    BY DEF Gate!Next, Promises!Next, Gate!CreateTask, Promises!CreateTask,
           Gate!UpdateTask, Promises!UpdateTask, Gate!Decide, Promises!Decide,
           Gate!RequestApproval, Promises!RequestApproval, Gate!Exists, Promises!Exists,
           Gate!Opened, Promises!Opened, Gate!Decided, Promises!Decided,
           Gate!TaskStatus, Promises!TaskStatus, Gate!Decisions, Promises!Decisions,
           Gate!Outcome, Promises!Outcome, Gate!DecidedTaskStatus, Promises!DecidedTaskStatus
  <1>4. \A t : Gate!HasApprover(t) <=> Promises!HasApprover(t)
    BY DEF Gate!HasApprover, Promises!HasApprover
  <1>5. \A t : Gate!AtMostOnePending(t) <=> Promises!AtMostOnePending(t)
    BY DEF Gate!AtMostOnePending, Promises!AtMostOnePending
  <1> QED
    BY <1>1, <1>2, <1>3, <1>4, <1>5

\* The step touches neither the row of task t nor any of its approvals.
LeavesAlone(t) == /\ taskStatus'[t] = taskStatus[t]
                  /\ \A a \in Approvals : approvals[a].task = t \/ approvals'[a].task = t
                                            => approvals'[a] = approvals[a]

(***************************************************************************)
(* For a task that is not exposed after it, a step is one of the protocol  *)
(* or none at all, and the task was not exposed before.                    *)
(***************************************************************************)
LEMMA UnexposedStep ==
    ASSUME IInv, StaleOnlyIfOvertaken, [Next /\ Observe]_overlapVars,
           NEW t \in Tasks, t \notin exposed'
    PROVE  t \notin exposed /\ (Gate!Next \/ LeavesAlone(t))
  <1>1. t \notin exposed
    BY DEF Observe, overlapVars
  <1>2. CASE UNCHANGED overlapVars
    BY <1>1, <1>2 DEF LeavesAlone, overlapVars, vars
  <1>3. CASE Next /\ Observe
    <2>1. ContractStep \/ UNCHANGED tables
      BY <1>3, EveryStepOfContract
    <2>2. CASE UNCHANGED tables
      BY <1>1, <2>2 DEF LeavesAlone, tables
    <2>3. ASSUME NEW r \in Requests, Exposes(r), OnlyOf(req[r].task)
          PROVE  LeavesAlone(t)
      <3>1. t # req[r].task
        BY <1>3, <2>3 DEF Observe
      <3> QED
        BY <2>3, <3>1, RecordsAssumption DEF OnlyOf, LeavesAlone
    <2> QED
      BY <1>1, <2>1, <2>2, <2>3 DEF ContractStep
  <1> QED
    BY <1>2, <1>3

(***************************************************************************)
(* Under every interleaving, a task that is Done and not exposed has an    *)
(* approver of manager rank or above on record (README, "auditable         *)
(* approver on record").                                                   *)
(***************************************************************************)
THEOREM ApproverOnRecord == OverlapSpec => []UnexposedDoneHasApprover
  <1>1. OverlapInit => UnexposedDoneHasApprover
    BY DEF OverlapInit, Init, UnexposedDoneHasApprover
  <1>2. IInv /\ StaleOnlyIfOvertaken /\ UnexposedDoneHasApprover /\ [Next /\ Observe]_overlapVars
          => UnexposedDoneHasApprover'
    <2> SUFFICES ASSUME IInv, StaleOnlyIfOvertaken, UnexposedDoneHasApprover,
                        [Next /\ Observe]_overlapVars, NEW t \in Tasks, t \notin exposed'
                 PROVE  taskStatus'[t] = "done" => Gate!HasApprover(t)'
      BY DEF UnexposedDoneHasApprover
    <2>1. /\ taskStatus[t] = "done" => Gate!HasApprover(t)
          /\ Gate!Next \/ LeavesAlone(t)
      BY UnexposedStep DEF UnexposedDoneHasApprover
    <2>2. CASE Gate!Next
      <3>1. taskStatus[t] = "done" => Promises!HasApprover(t)
        BY <2>1, SameGate
      <3>2. Promises!TypeOK /\ Promises!Next /\ Promises!RecordsAssumption
        BY <2>2, SameGate DEF IInv
      <3>3. taskStatus'[t] = "done" => Promises!HasApprover(t)'
        BY <3>1, <3>2, Promises!StepKeepsApprover
      <3>4. Promises!HasApprover(t)' => Gate!HasApprover(t)'
        BY DEF Gate!HasApprover, Promises!HasApprover, Gate!HasRole, Promises!HasRole,
               Gate!RoleSatisfies, Promises!RoleSatisfies, Gate!RoleRank, Promises!RoleRank,
               Gate!OrgRole, Promises!OrgRole
      <3> QED
        BY <3>3, <3>4
    <2>3. CASE LeavesAlone(t)
      BY <2>1, <2>3 DEF LeavesAlone, Gate!HasApprover, Gate!HasRole
    <2> QED
      BY <2>1, <2>2, <2>3
  <1> QED
    BY <1>1, <1>2, StaleReadsAreOvertaken, PTL DEF OverlapSpec

(***************************************************************************)
(* Under every interleaving, a task that is not exposed never has two      *)
(* approvals pending (ApprovalAlreadyPendingError).                        *)
(***************************************************************************)
THEOREM OnePendingUnlessExposed == OverlapSpec => []UnexposedOnePending
  <1>1. OverlapInit => UnexposedOnePending
    BY DEF OverlapInit, Init, UnexposedOnePending, Gate!AtMostOnePending, Gate!PendingOf, NoRow
  <1>2. IInv /\ StaleOnlyIfOvertaken /\ UnexposedOnePending /\ [Next /\ Observe]_overlapVars
          => UnexposedOnePending'
    <2> SUFFICES ASSUME IInv, StaleOnlyIfOvertaken, UnexposedOnePending,
                        [Next /\ Observe]_overlapVars, NEW t \in Tasks, t \notin exposed'
                 PROVE  Gate!AtMostOnePending(t)'
      BY DEF UnexposedOnePending
    <2>1. Gate!AtMostOnePending(t) /\ (Gate!Next \/ LeavesAlone(t))
      BY UnexposedStep DEF UnexposedOnePending
    <2>2. CASE Gate!Next
      <3>1. Promises!AtMostOnePending(t)
        BY <2>1, SameGate
      <3>2. Promises!TypeOK /\ Promises!Next /\ Promises!RecordsAssumption
        BY <2>2, SameGate DEF IInv
      <3>3. Promises!AtMostOnePending(t)'
        BY <3>1, <3>2, Promises!StepKeepsOnePending
      <3>4. Promises!AtMostOnePending(t)' => Gate!AtMostOnePending(t)'
        BY DEF Gate!AtMostOnePending, Promises!AtMostOnePending, Gate!PendingOf, Promises!PendingOf
      <3> QED
        BY <3>3, <3>4
    <2>3. CASE LeavesAlone(t)
      BY <2>1, <2>3 DEF LeavesAlone, Gate!AtMostOnePending, Gate!PendingOf
    <2> QED
      BY <2>1, <2>2, <2>3
  <1> QED
    BY <1>1, <1>2, StaleReadsAreOvertaken, PTL DEF OverlapSpec

(***************************************************************************)
(* Under every interleaving, a decision on a task that is not exposed is   *)
(* never overwritten (NoPendingApprovalError).                             *)
(***************************************************************************)
THEOREM DecisionsStandUnlessExposed == OverlapSpec => UnexposedDecisionsStand
  <1>1. IInv /\ StaleOnlyIfOvertaken /\ [Next /\ Observe]_overlapVars =>
          [\A a \in Approvals :
              approvals[a].status \in {"approved", "rejected"} /\ approvals[a].task \notin exposed'
                => approvals'[a] = approvals[a]]_tables
    <2> SUFFICES ASSUME IInv, StaleOnlyIfOvertaken, [Next /\ Observe]_overlapVars,
                        NEW a \in Approvals,
                        approvals[a].status \in {"approved", "rejected"},
                        approvals[a].task \notin exposed'
                 PROVE  approvals'[a] = approvals[a]
      OBVIOUS
    <2>1. approvals[a].task \in Tasks
      BY DEF IInv, AuditTrail
    <2>2. Gate!Next \/ LeavesAlone(approvals[a].task)
      BY <2>1, UnexposedStep
    <2>3. CASE Gate!Next
      <3>1. Promises!TypeOK /\ Promises!Next /\ Promises!RecordsAssumption
        BY <2>3, SameGate DEF IInv
      <3> QED
        BY <3>1, Promises!StepKeepsDecision
    <2>4. CASE LeavesAlone(approvals[a].task)
      BY <2>4 DEF LeavesAlone
    <2> QED
      BY <2>2, <2>3, <2>4
  <1> QED
    BY <1>1, StaleReadsAreOvertaken, PTL DEF OverlapSpec, UnexposedDecisionsStand
=============================================================================
