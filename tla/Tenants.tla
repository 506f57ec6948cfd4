------------------------------ MODULE Tenants -------------------------------
(***************************************************************************)
(* What registration, organizations, invitations, projects and tasks       *)
(* promise to their callers.  An operation answered with success took      *)
(* effect, once and entirely, at a moment between its call and its answer  *)
(* at which the caller had the role.  One refused or in conflict had no    *)
(* effect, and the reason was there at such a moment.  A registration or   *)
(* an invitation fails with an error only when the key it found free has   *)
(* been taken since, a task only for its assignee, and had no effect.  One *)
(* whose answer is lost had no effect, or its whole effect.                *)
(***************************************************************************)
EXTENDS TenantRows

CONSTANT Requests

VARIABLES db,     \* the tables
          phase,  \* called, missing, applied, or one of Answers
          req     \* the operation each request calls

Answers == {"idle", "ok", "refused", "conflict", "error", "failed"}

tenantVars == <<db, phase, req>>

Init == /\ db = EmptyTables
        /\ phase = [r \in Requests |-> "idle"]
        /\ req = [r \in Requests |-> None]

Moves(r, from, to) == phase[r] \in from /\ phase' = [phase EXCEPT ![r] = to]

Call(r) ==
    /\ Moves(r, Answers, "called")
    /\ \E op \in Operations : req' = [req EXCEPT ![r] = op]
    /\ UNCHANGED db

\* The one moment at which the operation is checked and takes effect.
Apply(r) ==
    /\ Moves(r, {"called", "missing"}, "applied")
    /\ Permitted(db, req[r])
    /\ ~Taken(db, req[r])
    /\ db' \in Effects(db, req[r])
    /\ UNCHANGED req

\* The operation may be forgotten with its answer.
Ends(r, from, answer) ==
    /\ Moves(r, from, answer)
    /\ req' \in {req, [req EXCEPT ![r] = None]}
    /\ UNCHANGED db

Answer(r) == Ends(r, {"applied"}, "ok")

\* No role, or nobody has the email of an invitation.
Refuse(r) ==
    /\ Ends(r, {"called"}, "refused")
    /\ \/ ~Permitted(db, req[r])
       \/ req[r].kind = "invite" /\ ~Registered(db, req[r].email)

Conflict(r) ==
    /\ Ends(r, {"called"}, "conflict")
    /\ Taken(db, req[r])

\* A registration or an invitation finds its key free.
Miss(r) ==
    /\ Moves(r, {"called"}, "missing")
    /\ req[r].kind \in {"register", "invite"}
    /\ ~Taken(db, req[r])
    /\ UNCHANGED <<db, req>>

\* Another request has taken the key since it was found free.
TakenSince(r) ==
    /\ Ends(r, {"missing"}, "error")
    /\ Taken(db, req[r])

\* The assignee of the task is no user.
UnknownAssignee(r) ==
    /\ Ends(r, {"called"}, "error")
    /\ req[r].kind = "create_task"
    /\ Permitted(db, req[r])

Fail(r) == Ends(r, {"called", "missing", "applied"}, "failed")

Next ==
    \E r \in Requests :
        \/ Call(r) \/ Apply(r) \/ Answer(r)
        \/ Refuse(r) \/ Conflict(r) \/ Miss(r) \/ TakenSince(r) \/ UnknownAssignee(r)
        \/ Fail(r)

Spec == Init /\ [][Next]_tenantVars
=============================================================================
