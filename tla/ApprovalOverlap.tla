--------------------------- MODULE ApprovalOverlap ---------------------------
(***************************************************************************)
(* How far the approval workflow keeps its documentation when requests     *)
(* overlap as they like.                                                   *)
(*                                                                         *)
(* Two history variables watch ApprovalWorkflow without guarding anything: *)
(* every behaviour of the workflow is a behaviour here.  A request is      *)
(* overtaken when, between its load and its COMMIT, another request        *)
(* commits on the same task.  A task is exposed once a request that was    *)
(* overtaken commits on it, or once it is created as Done.  Patches rely   *)
(* on nothing they have read, so an overtaken patch exposes nothing.       *)
(*                                                                         *)
(* A task that is not exposed follows the documented protocol step by      *)
(* step, whatever happens on other tasks, whichever patches overlap and    *)
(* wherever requests fail; an exposed one still keeps the audit log.       *)
(***************************************************************************)
EXTENDS ApprovalWorkflow

VARIABLES overtaken,  \* requests in flight that were overtaken
          exposed     \* tasks on which something out of date was committed

overlapVars == <<vars, overtaken, exposed>>

\* The step is the COMMIT of request r.
CommitsNow(r) == pc[r] = "commit" /\ pc'[r] = "refresh"

\* r has loaded its task and has not committed.
BeforeCommit(r) == Accepted(r) /\ pc[r] # "refresh"

Overtakes(r, q) == r # q /\ CommitsNow(r) /\ req[r].task = req[q].task

Exposes(r) ==
    /\ CommitsNow(r)
    /\ r \in overtaken \/ (req[r].kind = "create" /\ req[r].status = "done")

Observe ==
    /\ overtaken' = {q \in Requests :
                        /\ req[q].kind # "patch"
                        /\ BeforeCommit(q)'
                        /\ q \in overtaken \/ \E r \in Requests : Overtakes(r, q)}
    /\ exposed' = exposed \cup {req[r].task : r \in {q \in Requests : Exposes(q)}}

OverlapInit == Init /\ overtaken = {} /\ exposed = {}

OverlapSpec == OverlapInit /\ [][Next /\ Observe]_overlapVars

-----------------------------------------------------------------------------
(* The inductive invariant.                                                *)

\* What request r has read is still so.
Fresh(r) ==
    LET pending == PendingOf(approvals, req[r].task)
    IN  /\ BeforeCommit(r) => seen[r] = taskStatus[req[r].task]
        /\ pc[r] \in {"approval", "task", "commit"} =>
              /\ req[r].kind = "request" => pending = {}
              /\ req[r].kind \in Decisions => row[r] \in pending

(***************************************************************************)
(* Only the commit of another request on the same task makes what a        *)
(* request has read out of date: the status that decides which columns its *)
(* UPDATE names, the absence of a pending approval that a request for      *)
(* approval found, the pending row that a decision loaded.                 *)
(***************************************************************************)
StaleOnlyIfOvertaken ==
    \A r \in Requests : Fresh(r) \/ r \in overtaken \/ req[r].kind = "patch"

-----------------------------------------------------------------------------
(* Properties.                                                             *)

\* The step changes the rows of task t only.
OnlyOf(t) == /\ \A s \in Tasks \ {t} : taskStatus'[s] = taskStatus[s]
             /\ \A a \in Approvals : approvals'[a] # approvals[a] =>
                  approvals[a].task \in {None, t} /\ approvals'[a].task = t

ContractStep ==
    \E r \in Requests : /\ CommitsNow(r)
                        /\ OnlyOf(req[r].task)
                        /\ Gate!Next \/ (Exposes(r) /\ Audit!Next)

(***************************************************************************)
(* The contract of the workflow under every interleaving and failure: the  *)
(* tables change at a COMMIT only, in the rows of its task only, and by a  *)
(* step of the documented protocol (README, "Approval workflow") unless    *)
(* that request was overtaken or creates a task as Done; then it is still  *)
(* one of the audit log.                                                   *)
(***************************************************************************)
ImplementsContract == Gate!Init /\ [][ContractStep]_tables

(***************************************************************************)
(* README, "every task that reaches Done has an auditable approver on      *)
(* record": so it is for every task that is not exposed.                   *)
(***************************************************************************)
UnexposedDoneHasApprover ==
    \A t \in Tasks \ exposed : taskStatus[t] = "done" => Gate!HasApprover(t)

(***************************************************************************)
(* ApprovalAlreadyPendingError: a task that is not exposed never has two   *)
(* approvals pending.                                                      *)
(***************************************************************************)
UnexposedOnePending == \A t \in Tasks \ exposed : Gate!AtMostOnePending(t)

(***************************************************************************)
(* NoPendingApprovalError: a decision is overwritten only by the commit    *)
(* that exposes its task, or after one did.                                *)
(***************************************************************************)
UnexposedDecisionsStand ==
    [][\A a \in Approvals :
          approvals[a].status \in {"approved", "rejected"} /\ approvals[a].task \notin exposed'
            => approvals'[a] = approvals[a]]_tables
=============================================================================
