-------------------------- MODULE ApprovalGateProofs ------------------------
(***************************************************************************)
(* The promises of ApprovalGate hold for every set of users, tasks and     *)
(* approvals and every assignment of roles.                                *)
(***************************************************************************)
EXTENDS ApprovalGate, ApprovalRecordsProofs

(***************************************************************************)
(* The tables keep their types (models/task.py, models/approval.py).       *)
(***************************************************************************)
THEOREM GateTypeCorrect == Spec => []TypeOK
  <1>1. Init => TypeOK
    BY AbsentRow DEF Init, TypeOK, TaskRow
  <1>2. TypeOK /\ [Next]_gateVars => TypeOK'
    <2> SUFFICES ASSUME TypeOK, [Next]_gateVars
                 PROVE  TypeOK'
      OBVIOUS
    <2> USE DEF TypeOK
    <2>1. ASSUME NEW t \in Tasks, NEW s \in TaskStatus, CreateTask(t, s)
          PROVE  TypeOK'
      BY <2>1 DEF CreateTask, TaskRow
    <2>2. ASSUME NEW t \in Tasks, NEW s \in TaskStatus, UpdateTask(t, s)
          PROVE  TypeOK'
      BY <2>2 DEF UpdateTask, TaskRow
    <2>3. ASSUME NEW t \in Tasks, NEW u \in Users, NEW a \in Approvals, RequestApproval(t, u, a)
          PROVE  TypeOK'
      BY <2>3, OpenedRow DEF RequestApproval, TaskRow, TaskStatus
    <2>4. ASSUME NEW t \in Tasks, NEW u \in Users, NEW a \in Approvals,
                 NEW decision \in Decisions, NEW note \in {None, u},
                 Decide(decision, t, u, a, note)
          PROVE  TypeOK'
      <3>1. Decided(approvals[a], u, Outcome[decision], note) \in ApprovalRow
        BY DecidedRow
      <3>2. DecidedTaskStatus[decision] \in TaskRow
        BY DecidedStatus DEF TaskRow
      <3> QED
        BY <2>4, <3>1, <3>2 DEF Decide
    <2>5. CASE UNCHANGED gateVars
      BY <2>5 DEF gateVars
    <2> QED
      BY <2>1, <2>2, <2>3, <2>4, <2>5 DEF Next
  <1> QED
    BY <1>1, <1>2, PTL DEF Spec

-----------------------------------------------------------------------------
(* What the two actions that touch the approvals table do to each row.     *)

(***************************************************************************)
(* A request for approval turns one absent row into a pending one.         *)
(***************************************************************************)
LEMMA RequestApprovalRows ==
    ASSUME TypeOK, NEW t \in Tasks, NEW u \in Users, NEW a \in Approvals,
           RequestApproval(t, u, a)
    PROVE  /\ approvals[a].status = "absent"
           /\ approvals'[a].task = t /\ approvals'[a].status = "pending"
           /\ \A b \in Approvals \ {a} : approvals'[b] = approvals[b]
           /\ taskStatus'[t] = "in_review"
           /\ \A s \in Tasks \ {t} : taskStatus'[s] = taskStatus[s]
  BY OpenedRow DEF RequestApproval, TypeOK

(***************************************************************************)
(* A decision turns one pending row of the task into a decided one.        *)
(***************************************************************************)
LEMMA DecideRows ==
    ASSUME TypeOK, NEW t \in Tasks, NEW u \in Users, NEW a \in Approvals,
           NEW decision \in Decisions, NEW note \in {None, u},
           Decide(decision, t, u, a, note)
    PROVE  /\ approvals[a].status = "pending" /\ approvals[a].task = t
           /\ approvals'[a].task = t
           /\ approvals'[a].status = Outcome[decision]
           /\ approvals'[a].status \in {"approved", "rejected"}
           /\ approvals'[a].reviewed_by = u
           /\ \A b \in Approvals \ {a} : approvals'[b] = approvals[b]
           /\ taskStatus'[t] = DecidedTaskStatus[decision]
           /\ \A s \in Tasks \ {t} : taskStatus'[s] = taskStatus[s]
  <1>1. approvals[a] \in ApprovalRow
    BY DEF TypeOK
  <1>2. approvals[a].status = "pending" /\ approvals[a].task = t
    BY DEF Decide, PendingOf
  <1>3. /\ approvals'[a] = Decided(approvals[a], u, Outcome[decision], note)
        /\ \A b \in Approvals \ {a} : approvals'[b] = approvals[b]
        /\ taskStatus'[t] = DecidedTaskStatus[decision]
        /\ \A s \in Tasks \ {t} : taskStatus'[s] = taskStatus[s]
    BY DEF Decide, TypeOK
  <1> QED
    BY <1>1, <1>2, <1>3, DecidedRow

-----------------------------------------------------------------------------
(* What a step promises each task and each row.                            *)

(***************************************************************************)
(* A task that is Done only with an approver on record stays so, whatever  *)
(* step is taken: approve is the only way to Done and it stamps one.       *)
(***************************************************************************)
LEMMA StepKeepsApprover ==
    ASSUME TypeOK, Next, NEW d \in Tasks, taskStatus[d] = "done" => HasApprover(d)
    PROVE  taskStatus'[d] = "done" => HasApprover(d)'
  <1> DEFINE OnRecord(b) == /\ approvals[b].task = d
                            /\ approvals[b].status = "approved"
                            /\ approvals[b].reviewed_by \in Users
                            /\ HasRole(approvals[b].reviewed_by, "manager")
  <1> SUFFICES ASSUME taskStatus'[d] = "done"
               PROVE  \E b \in Approvals : OnRecord(b)'
    BY DEF HasApprover, HasRole
  <1>1. taskStatus[d] = "done" => \E b \in Approvals : OnRecord(b)
    BY DEF HasApprover
  <1>2. ASSUME NEW t \in Tasks, NEW s \in TaskStatus, CreateTask(t, s) \/ UpdateTask(t, s)
        PROVE  taskStatus[d] = "done" /\ approvals' = approvals
    BY <1>2 DEF CreateTask, UpdateTask, TypeOK
  <1>3. ASSUME NEW t \in Tasks, NEW u \in Users, NEW a \in Approvals, RequestApproval(t, u, a)
        PROVE  /\ taskStatus[d] = "done"
               /\ \A b \in Approvals : approvals[b].status = "approved"
                                        => approvals'[b] = approvals[b]
    BY <1>3, RequestApprovalRows
  <1>4. ASSUME NEW t \in Tasks, NEW u \in Users, NEW a \in Approvals,
               NEW decision \in Decisions, NEW note \in {None, u},
               Decide(decision, t, u, a, note), d # t
        PROVE  /\ taskStatus[d] = "done"
               /\ \A b \in Approvals : approvals[b].status = "approved"
                                        => approvals'[b] = approvals[b]
    BY <1>4, DecideRows
  <1>5. ASSUME NEW u \in Users, NEW a \in Approvals,
               NEW decision \in Decisions, NEW note \in {None, u},
               Decide(decision, d, u, a, note)
        PROVE  /\ approvals'[a].task = d
               /\ approvals'[a].status = "approved"
               /\ approvals'[a].reviewed_by = u
               /\ HasRole(u, "manager")
    <2>1. HasRole(u, "manager")
      BY <1>5 DEF Decide
    <2>2. decision = "approve"
      BY <1>5, DecideRows, DecidedStatus
    <2> QED
      BY <1>5, <2>1, <2>2, DecideRows, DecidedStatus
  <1> QED
    BY <1>1, <1>2, <1>3, <1>4, <1>5 DEF Next, HasRole

(***************************************************************************)
(* No step opens a second approval of a task that has one pending.         *)
(***************************************************************************)
LEMMA StepKeepsOnePending ==
    ASSUME TypeOK, Next, NEW p \in Tasks, AtMostOnePending(p)
    PROVE  AtMostOnePending(p)'
  <1> SUFFICES ASSUME NEW a \in Approvals, NEW b \in Approvals,
                      approvals'[a].task = p, approvals'[a].status = "pending",
                      approvals'[b].task = p, approvals'[b].status = "pending"
               PROVE  a = b
    BY DEF AtMostOnePending, PendingOf
  <1>1. \A c, d \in Approvals :
          /\ approvals[c].task = p /\ approvals[c].status = "pending"
          /\ approvals[d].task = p /\ approvals[d].status = "pending"
          => c = d
    BY DEF AtMostOnePending, PendingOf
  <1>2. ASSUME NEW t \in Tasks, NEW s \in TaskStatus, CreateTask(t, s) \/ UpdateTask(t, s)
        PROVE  a = b
    BY <1>1, <1>2 DEF CreateTask, UpdateTask
  <1>3. ASSUME NEW t \in Tasks, NEW u \in Users, NEW c \in Approvals, RequestApproval(t, u, c)
        PROVE  a = b
    <2>1. \A d \in Approvals : ~(approvals[d].task = t /\ approvals[d].status = "pending")
      BY <1>3 DEF RequestApproval, PendingOf
    <2> QED
      BY <1>1, <1>3, <2>1, RequestApprovalRows
  <1>4. ASSUME NEW t \in Tasks, NEW u \in Users, NEW c \in Approvals,
               NEW decision \in Decisions, NEW note \in {None, u},
               Decide(decision, t, u, c, note)
        PROVE  a = b
    <2>1. a # c /\ b # c
      BY <1>4, DecideRows
    <2>2. approvals'[a] = approvals[a] /\ approvals'[b] = approvals[b]
      BY <1>4, <2>1, DecideRows
    <2> QED
      BY <1>1, <2>2
  <1> QED
    BY <1>2, <1>3, <1>4 DEF Next

(***************************************************************************)
(* No step touches a decided row.                                          *)
(***************************************************************************)
LEMMA StepKeepsDecision ==
    ASSUME TypeOK, Next, NEW a \in Approvals, approvals[a].status \in {"approved", "rejected"}
    PROVE  approvals'[a] = approvals[a]
  <1>1. ASSUME NEW t \in Tasks, NEW s \in TaskStatus, CreateTask(t, s) \/ UpdateTask(t, s)
        PROVE  approvals' = approvals
    BY <1>1 DEF CreateTask, UpdateTask
  <1>2. ASSUME NEW t \in Tasks, NEW u \in Users, NEW c \in Approvals, RequestApproval(t, u, c)
        PROVE  approvals'[a] = approvals[a]
    BY <1>2, RequestApprovalRows
  <1>3. ASSUME NEW t \in Tasks, NEW u \in Users, NEW c \in Approvals,
               NEW decision \in Decisions, NEW note \in {None, u},
               Decide(decision, t, u, c, note)
        PROVE  approvals'[a] = approvals[a]
    BY <1>3, DecideRows
  <1> QED
    BY <1>1, <1>2, <1>3 DEF Next

-----------------------------------------------------------------------------
(***************************************************************************)
(* Every task that is Done has an approved approval with a reviewer of     *)
(* manager rank or above (README, "auditable approver on record").         *)
(***************************************************************************)
THEOREM GateDoneHasApprover == Spec => []DoneHasApprover
  <1>1. Init => DoneHasApprover
    BY DEF Init, DoneHasApprover
  <1>2. TypeOK /\ DoneHasApprover /\ [Next]_gateVars => DoneHasApprover'
    <2>1. ASSUME TypeOK, DoneHasApprover, Next
          PROVE  DoneHasApprover'
      BY <2>1, StepKeepsApprover DEF DoneHasApprover
    <2>2. ASSUME DoneHasApprover, UNCHANGED gateVars
          PROVE  DoneHasApprover'
      BY <2>2 DEF DoneHasApprover, HasApprover, HasRole, gateVars
    <2> QED
      BY <2>1, <2>2
  <1> QED
    BY <1>1, <1>2, GateTypeCorrect, PTL DEF Spec

(***************************************************************************)
(* A task never has two approvals pending (ApprovalAlreadyPendingError).   *)
(***************************************************************************)
THEOREM GateOnePending == Spec => []OnePending
  <1>1. Init => OnePending
    BY AbsentRow DEF Init, OnePending, AtMostOnePending, PendingOf
  <1>2. TypeOK /\ OnePending /\ [Next]_gateVars => OnePending'
    <2>1. ASSUME TypeOK, OnePending, Next
          PROVE  OnePending'
      BY <2>1, StepKeepsOnePending DEF OnePending
    <2>2. ASSUME OnePending, UNCHANGED gateVars
          PROVE  OnePending'
      BY <2>2 DEF OnePending, AtMostOnePending, PendingOf, gateVars
    <2> QED
      BY <2>1, <2>2
  <1> QED
    BY <1>1, <1>2, GateTypeCorrect, PTL DEF Spec

(***************************************************************************)
(* A decision is never altered (NoPendingApprovalError, Approval).         *)
(***************************************************************************)
THEOREM GateDecisionsStand == Spec => DecisionsStand
  <1>1. TypeOK /\ [Next]_gateVars =>
          [\A a \in Approvals : approvals[a].status \in {"approved", "rejected"}
                                => approvals'[a] = approvals[a]]_gateVars
    BY StepKeepsDecision
  <1> QED
    BY <1>1, GateTypeCorrect, PTL DEF Spec, DecisionsStand

\* AuditLog, of the same tables, with any status but Done for a new task.
Log == INSTANCE AuditLog WITH CreateStatuses <- TaskStatus \ {"done"}

(***************************************************************************)
(* Both specifications read and write the rows in the same way.            *)
(***************************************************************************)
LEMMA SameLogRecords ==
    /\ Log!NoRow = NoRow /\ Log!TaskStatus = TaskStatus /\ Log!Decisions = Decisions
    /\ Log!Outcome = Outcome /\ Log!DecidedTaskStatus = DecidedTaskStatus
    /\ \A u, minimum : Log!HasRole(u, minimum) <=> HasRole(u, minimum)
    /\ \A t, u : Log!Opened(t, u) = Opened(t, u)
    /\ \A row, u, o, note : Log!Decided(row, u, o, note) = Decided(row, u, o, note)
  <1>1. \A u, minimum : Log!HasRole(u, minimum) <=> HasRole(u, minimum)
    BY DEF Log!HasRole, HasRole, Log!RoleSatisfies, RoleSatisfies, Log!RoleRank, RoleRank,
           Log!OrgRole, OrgRole
  <1>2. \A t, u : Log!Opened(t, u) = Opened(t, u)
    BY DEF Log!Opened, Opened
  <1>3. \A row, u, o, note : Log!Decided(row, u, o, note) = Decided(row, u, o, note)
    BY DEF Log!Decided, Decided
  <1> QED
    BY <1>1, <1>2, <1>3
       DEF Log!NoRow, NoRow, Log!TaskStatus, TaskStatus, Log!Decisions, Decisions,
           Log!Outcome, Outcome, Log!DecidedTaskStatus, DecidedTaskStatus

(***************************************************************************)
(* The documented protocol keeps the audit log: AuditLog, which the code   *)
(* implements under every interleaving, asks nothing that the protocol     *)
(* does not promise.                                                       *)
(***************************************************************************)
THEOREM GateKeepsAuditLog == Spec => Log!Spec
  <1>1. Init => Log!Init
    BY SameLogRecords DEF Init, Log!Init
  <1>2. [Next]_gateVars => [Log!Next]_(Log!auditVars)
    <2> SUFFICES ASSUME [Next]_gateVars
                 PROVE  Log!Next \/ UNCHANGED Log!auditVars
      OBVIOUS
    <2>1. ASSUME NEW t \in Tasks, NEW s \in TaskStatus, CreateTask(t, s)
          PROVE  Log!CreateTask(t, s) /\ s \in TaskStatus \ {"done"}
      BY <2>1 DEF CreateTask, Exists, Log!CreateTask
    <2>2. ASSUME NEW t \in Tasks, NEW s \in TaskStatus, UpdateTask(t, s)
          PROVE  Log!UpdateTask(t, s)
      BY <2>2 DEF UpdateTask, Exists, Log!UpdateTask
    <2>3. ASSUME NEW t \in Tasks, NEW u \in Users, NEW a \in Approvals, RequestApproval(t, u, a)
          PROVE  Log!OpenApproval(t, u, a)
      BY <2>3, SameLogRecords DEF RequestApproval, Exists, Log!OpenApproval, Log!MayStore
    <2>4. ASSUME NEW t \in Tasks, NEW u \in Users, NEW a \in Approvals,
                 NEW decision \in Decisions, NEW note \in {None, u},
                 Decide(decision, t, u, a, note)
          PROVE  Log!Decide(decision, u, a, note)
      <3>1. approvals[a].task = t /\ approvals[a].status # "absent"
        BY <2>4 DEF Decide, PendingOf
      <3> QED
        BY <2>4, <3>1, SameLogRecords DEF Decide, Log!Decide, Log!MayStore
    <2>5. CASE UNCHANGED gateVars
      BY <2>5 DEF gateVars, Log!auditVars
    <2> QED
      BY <2>1, <2>2, <2>3, <2>4, <2>5, SameLogRecords DEF Next, Log!Next
  <1> QED
    BY <1>1, <1>2, PTL DEF Spec, Log!Spec
=============================================================================
