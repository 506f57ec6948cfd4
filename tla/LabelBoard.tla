----------------------------- MODULE LabelBoard -----------------------------
(***************************************************************************)
(* What the label endpoints promise to each caller.  An operation answered *)
(* with success took effect, once and entirely, at one moment between its  *)
(* call and its answer.  One refused or in conflict had no effect, and the *)
(* reason was there at such a moment.  An attachment fails with an error   *)
(* only when the pair it found missing has been attached by another since, *)
(* and had no effect either.  One whose answer is lost had no effect, or   *)
(* its whole effect.                                                       *)
(***************************************************************************)
EXTENDS LabelRows

CONSTANT Requests

VARIABLES labels,      \* the labels table
          taskLabels,  \* the task_labels table, a set of <<task, label>>
          phase,       \* called, missing, applied, or one of Answers
          req          \* the operation each request calls

boardVars == <<labels, taskLabels, phase, req>>

Answers == {"idle", "ok", "refused", "conflict", "error", "failed"}

Init == /\ labels = [l \in LabelIds |-> None]
        /\ taskLabels = {}
        /\ phase = [r \in Requests |-> "idle"]
        /\ req = [r \in Requests |-> None]

Moves(r, from, to) == phase[r] \in from /\ phase' = [phase EXCEPT ![r] = to]

Call(r) ==
    /\ Moves(r, Answers, "called")
    /\ \E op \in Operations : req' = [req EXCEPT ![r] = op]
    /\ UNCHANGED <<labels, taskLabels>>

\* A label with a new name appears.
Create(op) ==
    /\ op.kind = "create"
    /\ ~HasLabel(labels, op.key)
    /\ \E l \in LabelIds : labels[l] = None /\ labels' = [labels EXCEPT ![l] = op.key]
    /\ UNCHANGED taskLabels

\* Idempotent: the pair is there afterwards, whether it was before or not.
Attach(op) ==
    /\ op.kind = "attach"
    /\ taskLabels' = taskLabels \cup {op.key}
    /\ UNCHANGED labels

\* Idempotent: the pair is gone afterwards.
Detach(op) ==
    /\ op.kind = "detach"
    /\ taskLabels' = taskLabels \ {op.key}
    /\ UNCHANGED labels

\* The operation takes effect; its answer follows at once or later.
Apply(r) ==
    /\ \E p \in {"applied", "ok"} : Moves(r, {"called", "missing"}, p)
    /\ Permitted(labels, req[r])
    /\ Create(req[r]) \/ Attach(req[r]) \/ Detach(req[r])
    /\ UNCHANGED req

\* A step without effect.
Becomes(r, from, to) == Moves(r, from, to) /\ UNCHANGED <<labels, taskLabels, req>>

Answer(r) == Becomes(r, {"applied"}, "ok")

Refuse(r) ==
    /\ Becomes(r, {"called"}, "refused")
    /\ ~Permitted(labels, req[r])

Conflict(r) ==
    /\ Becomes(r, {"called"}, "conflict")
    /\ req[r].kind = "create"
    /\ HasLabel(labels, req[r].key)

\* An attachment finds the pair missing.
Miss(r) ==
    /\ Becomes(r, {"called"}, "missing")
    /\ req[r].kind = "attach"
    /\ req[r].key \notin taskLabels

\* Another request has attached the pair since.
AttachedSince(r) ==
    /\ Becomes(r, {"missing"}, "error")
    /\ req[r].key \in taskLabels

Fail(r) == Becomes(r, {"called", "missing", "applied"}, "failed")

Next ==
    \E r \in Requests :
        \/ Call(r) \/ Apply(r) \/ Answer(r)
        \/ Refuse(r) \/ Conflict(r) \/ Miss(r) \/ AttachedSince(r) \/ Fail(r)

Spec == Init /\ [][Next]_boardVars
=============================================================================
