------------------------ MODULE ApprovalRecordsProofs -----------------------
(***************************************************************************)
(* Facts about the rows of the approvals table and their updates, cited by *)
(* the proofs about the specifications that share them.                    *)
(***************************************************************************)
EXTENDS ApprovalRecords, TLAPS

(***************************************************************************)
(* The columns of a decision keep the row's task and requester and stamp   *)
(* its outcome and reviewer (approve_task, reject_task).                   *)
(***************************************************************************)
LEMMA DecidedRow ==
    ASSUME NEW row \in ApprovalRow, NEW u \in Users, NEW decision \in Decisions,
           NEW note \in {None, u}
    PROVE  /\ Decided(row, u, Outcome[decision], note) \in ApprovalRow
           /\ Decided(row, u, Outcome[decision], note).task = row.task
           /\ Decided(row, u, Outcome[decision], note).requested_by = row.requested_by
           /\ Decided(row, u, Outcome[decision], note).status = Outcome[decision]
           /\ Decided(row, u, Outcome[decision], note).reviewed_by = u
           /\ Outcome[decision] \in {"approved", "rejected"}
  <1>1. Outcome[decision] \in {"approved", "rejected"}
    BY DEF Outcome, Decisions
  <1> DEFINE r1 == [row EXCEPT !.status = Outcome[decision]]
             r2 == [r1 EXCEPT !.reviewed_by = u]
             r3 == [r2 EXCEPT !.notes = IF note = None THEN row.notes ELSE note]
  <1>2. r1 = [task |-> row.task, requested_by |-> row.requested_by,
              status |-> Outcome[decision], reviewed_by |-> row.reviewed_by,
              notes |-> row.notes]
    BY DEF ApprovalRow
  <1> HIDE DEF r1
  <1>3. r2 = [task |-> row.task, requested_by |-> row.requested_by,
              status |-> Outcome[decision], reviewed_by |-> u, notes |-> row.notes]
    BY <1>2
  <1> HIDE DEF r2
  <1>4. r3 = [task |-> row.task, requested_by |-> row.requested_by,
              status |-> Outcome[decision], reviewed_by |-> u,
              notes |-> IF note = None THEN row.notes ELSE note]
    <2>1. CASE note = None
      BY <1>3, <2>1
    <2>2. CASE note # None
      BY <1>3, <2>2
    <2> QED
      BY <2>1, <2>2
  <1>5. Decided(row, u, Outcome[decision], note) = r3
    BY DEF Decided, r1, r2
  <1> HIDE DEF r3
  <1>6. r3 \in ApprovalRow
    BY <1>1, <1>4 DEF ApprovalRow, ApprovalStatus
  <1> QED
    BY <1>1, <1>4, <1>5, <1>6

(***************************************************************************)
(* The row a request for approval inserts is a row, pending for its task   *)
(* and without a reviewer (request_approval).                              *)
(***************************************************************************)
LEMMA OpenedRow ==
    ASSUME NEW t \in Tasks, NEW u \in Users
    PROVE  /\ Opened(t, u) \in ApprovalRow
           /\ Opened(t, u).task = t
           /\ Opened(t, u).requested_by = u
           /\ Opened(t, u).status = "pending"
           /\ Opened(t, u).reviewed_by = None
           /\ Opened(t, u).notes = None
  BY DEF Opened, ApprovalRow, ApprovalStatus

(***************************************************************************)
(* The tables of a fresh database hold no row.                             *)
(***************************************************************************)
LEMMA AbsentRow ==
    /\ NoRow \in ApprovalRow
    /\ NoRow.status = "absent"
  BY DEF NoRow, ApprovalRow

(***************************************************************************)
(* The status a decision gives a task, in_progress for a rejection.        *)
(***************************************************************************)
LEMMA DecidedStatus ==
    ASSUME NEW decision \in Decisions
    PROVE  /\ DecidedTaskStatus[decision] \in TaskStatus
           /\ decision = "approve" <=> DecidedTaskStatus[decision] = "done"
           /\ decision = "approve" <=> Outcome[decision] = "approved"
  BY DEF DecidedTaskStatus, Decisions, TaskStatus, Outcome
=============================================================================
