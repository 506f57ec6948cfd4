------------------------------- MODULE Labels -------------------------------
(***************************************************************************)
(* The label endpoints at the grain of SQL statements: create_label,       *)
(* attach_label and detach_label, each in a session of its own, under      *)
(* READ COMMITTED.                                                         *)
(*                                                                         *)
(* The arbiters are the unique keys: the constraint on (org_id, name) of   *)
(* labels and the primary key (task_id, label_id) of task_labels.  An      *)
(* INSERT waits for a transaction that has inserted or deleted a row with  *)
(* the same key and has not ended, and fails if a committed row has the    *)
(* key then.  A DELETE waits for another one of the same row, and deletes  *)
(* nothing when the row is gone: the unit of work only warns.  labels and  *)
(* taskLabels are the committed tables.                                    *)
(***************************************************************************)
EXTENDS LabelRows, Naturals, FiniteSets

CONSTANT Requests    \* requests that can be in flight at the same time

ASSUME RequestsAssumption ==
    /\ None \notin Requests       \* a lock owner is told from "free"
    /\ None \notin Operations     \* an operation is told from "none yet"

VARIABLES labels,      \* the labels table, committed
          taskLabels,  \* the task_labels table, committed
          pc,          \* the statement each request runs next, or its answer
          req,         \* what the client asked for
          keyLock      \* the request whose uncommitted row change has the key

tables == <<labels, taskLabels>>
vars   == <<labels, taskLabels, pc, req, keyLock>>

Keys == NameKeys \cup PairKeys

\* idle: nothing asked yet; refused: 403 or 404; conflict: 409; error: 500 of
\* a violated primary key; failed: the connection or the process is lost.
Answers == {"idle", "ok", "refused", "conflict", "error", "failed"}

Statements == {"check", "query", "insert", "delete", "commit", "answer"}

Init ==
    /\ labels     = [l \in LabelIds |-> None]
    /\ taskLabels = {}
    /\ pc         = [r \in Requests |-> "idle"]
    /\ req        = [r \in Requests |-> None]
    /\ keyLock    = [k \in Keys |-> None]

InFlight(r) == pc[r] \in Statements

\* Bound of the model: a label is created only while an id is left for it.
IdLeft == Cardinality({r \in Requests : InFlight(r) /\ req[r].kind = "create"})
            < Cardinality({l \in LabelIds : labels[l] = None})

GoTo(r, next) == pc' = [pc EXCEPT ![r] = next]

\* COMMIT and ROLLBACK let the waiters for the key continue.
FreeKeys(r) == keyLock' = [k \in Keys |-> IF keyLock[k] = r THEN None ELSE keyLock[k]]

\* The session closes; what is not committed is rolled back.
End(r, answer) ==
    /\ GoTo(r, answer)
    /\ FreeKeys(r)
    /\ UNCHANGED <<tables, req>>

\* A client sends a request.
Begin(r) ==
    /\ ~InFlight(r)
    /\ \E op \in Operations : /\ op.kind = "create" => IdLeft
                              /\ req' = [req EXCEPT ![r] = op]
    /\ GoTo(r, "check")
    /\ UNCHANGED <<tables, keyLock>>

\* 403 without a membership; 404 for a label that is not the organization's.
Refuse(r) ==
    /\ pc[r] = "check"
    /\ ~Permitted(labels, req[r])
    /\ End(r, "refused")

Check(r) ==
    /\ pc[r] = "check"
    /\ Permitted(labels, req[r])
    /\ GoTo(r, IF req[r].kind = "create" THEN "insert" ELSE "query")
    /\ UNCHANGED <<tables, req, keyLock>>

\* attach_label finds the pair, detach_label does not: nothing to do.
QueryNothingToDo(r) ==
    /\ pc[r] = "query"
    /\ (req[r].kind = "attach") = (req[r].key \in taskLabels)
    /\ End(r, "ok")

Query(r) ==
    /\ pc[r] = "query"
    /\ (req[r].kind = "attach") # (req[r].key \in taskLabels)
    /\ GoTo(r, IF req[r].kind = "attach" THEN "insert" ELSE "delete")
    /\ UNCHANGED <<tables, req, keyLock>>

\* A committed row has the key of the request.
Taken(r) == IF req[r].kind = "create" THEN HasLabel(labels, req[r].key)
                                      ELSE req[r].key \in taskLabels

TakeKey(r) == /\ keyLock' = [keyLock EXCEPT ![req[r].key] = r]
              /\ GoTo(r, "commit")
              /\ UNCHANGED <<tables, req>>

Insert_NoConstraint(r) ==
    /\ pc[r] = "insert"
    /\ TakeKey(r)

\* INSERT INTO labels or task_labels, in the flush of commit().
Insert(r) ==
    /\ pc[r] = "insert"
    /\ keyLock[req[r].key] = None
    /\ ~Taken(r)
    /\ TakeKey(r)

DuplicateKey_Swallowed(r) ==
    /\ pc[r] = "insert"
    /\ keyLock[req[r].key] = None
    /\ Taken(r)
    /\ End(r, "ok")

DuplicateKey_NoWait(r) ==
    /\ pc[r] = "insert"
    /\ Taken(r) \/ keyLock[req[r].key] # None
    /\ End(r, IF req[r].kind = "create" THEN "conflict" ELSE "error")

\* The key is taken: create_label turns the IntegrityError into a 409,
\* attach_label lets it through.
DuplicateKey(r) ==
    /\ pc[r] = "insert"
    /\ keyLock[req[r].key] = None
    /\ Taken(r)
    /\ End(r, IF req[r].kind = "create" THEN "conflict" ELSE "error")

DeleteNothing_Error(r) ==
    /\ pc[r] = "delete"
    /\ req[r].key \notin taskLabels
    /\ End(r, "error")

\* DELETE FROM task_labels of a row that is still there.
Delete(r) ==
    /\ pc[r] = "delete"
    /\ req[r].key \in taskLabels
    /\ keyLock[req[r].key] = None
    /\ TakeKey(r)

\* Another request has deleted the row since the query: no row matches, and
\* the COMMIT that follows commits nothing.
DeleteNothing(r) ==
    /\ pc[r] = "delete"
    /\ req[r].key \notin taskLabels
    /\ End(r, "ok")

CommitLabel(r) ==
    /\ pc[r] = "commit"
    /\ req[r].kind = "create"
    /\ \E l \in LabelIds : labels[l] = None /\ labels' = [labels EXCEPT ![l] = req[r].key]
    /\ FreeKeys(r)
    /\ GoTo(r, "answer")
    /\ UNCHANGED <<taskLabels, req>>

CommitPair_Reversed(r) ==
    /\ pc[r] = "commit"
    /\ \/ req[r].kind = "attach" /\ taskLabels' = taskLabels \cup {<<req[r].key[2], req[r].key[1]>>}
       \/ req[r].kind = "detach" /\ taskLabels' = taskLabels \ {req[r].key}
    /\ FreeKeys(r)
    /\ GoTo(r, "answer")
    /\ UNCHANGED <<labels, req>>

CommitPair(r) ==
    /\ pc[r] = "commit"
    /\ \/ req[r].kind = "attach" /\ taskLabels' = taskLabels \cup {req[r].key}
       \/ req[r].kind = "detach" /\ taskLabels' = taskLabels \ {req[r].key}
    /\ FreeKeys(r)
    /\ GoTo(r, "answer")
    /\ UNCHANGED <<labels, req>>

\* create_label refreshes the row first.
Answer(r) == pc[r] = "answer" /\ End(r, "ok")

Fail(r) == InFlight(r) /\ End(r, "failed")

Handle(r) ==
    \/ Refuse(r) \/ Check(r)
    \/ QueryNothingToDo(r) \/ Query(r)
    \/ Insert(r) \/ DuplicateKey(r) \/ Delete(r) \/ DeleteNothing(r)
    \/ CommitLabel(r) \/ CommitPair(r) \/ Answer(r)

Next == \E r \in Requests : Begin(r) \/ Handle(r) \/ Fail(r)

Spec == Init /\ [][Next]_vars

-----------------------------------------------------------------------------
(* Properties *)

\* Types of the tables and of the requests in flight.
TypeOK ==
    /\ labels \in LabelTable
    /\ taskLabels \subseteq PairKeys
    /\ pc \in [Requests -> Statements \cup Answers]
    /\ req \in [Requests -> Operations \cup {None}]
    /\ keyLock \in [Keys -> Requests \cup {None}]

\* However creations overlap, an organization never has two labels of one
\* name (create_label has no check of its own).
NamesUnique ==
    \A l, m \in LabelIds : labels[l] # None /\ labels[l] = labels[m] => l = m

\* A task only ever carries labels that exist, of its own organization
\* (_get_label_in_tasks_org checks it in an earlier statement).
SameOrg ==
    \A p \in taskLabels : labels[p[2]] # None /\ labels[p[2]][1] = OrgOf[p[1]]

\* A 409 of create_label is final: the organization has a label of that name.
\* In particular the loser of a race waits until the winner has committed.
ConflictIsReal ==
    \A r \in Requests : pc[r] = "conflict" => HasLabel(labels, req[r].key)

\* What the caller may know of a request that asks for op and is at at.
PhaseOf(at, op) == IF at \notin Statements THEN at
                   ELSE IF at = "answer" THEN "applied"
                   ELSE IF at \in {"insert", "commit"} /\ op.kind = "attach" THEN "missing"
                   ELSE "called"

Board == INSTANCE LabelBoard WITH phase <- [r \in Requests |-> PhaseOf(pc[r], req[r])]

\* The endpoints are atomic to their callers under every interleaving: one
\* that answers with success took effect at one moment of its own; a 403, 404,
\* 409 or 500 had a reason at such a moment and no effect, and the 500 of an
\* attachment no other reason than an attachment of the pair in between; only
\* a request whose answer is lost may have had its effect unseen.
ImplementsLabelBoard == Board!Spec

\* What a request has checked still holds when it writes, and the key it is
\* about to commit is its own.
Bound(r) ==
    /\ pc[r] # "idle" => req[r] \in Operations
    /\ pc[r] = "conflict" => req[r].kind = "create"
    /\ pc[r] = "insert" => req[r].kind \in {"create", "attach"}
    /\ pc[r] = "query"  => req[r].kind \in {"attach", "detach"}
    /\ pc[r] = "delete" => req[r].kind = "detach"
    /\ pc[r] \in Statements \ {"check", "answer"} => Permitted(labels, req[r])
    /\ pc[r] = "commit" => /\ keyLock[req[r].key] = r
                           /\ req[r].kind = "create" => ~HasLabel(labels, req[r].key)

\* The inductive invariant.
IInv == /\ TypeOK
        /\ NamesUnique
        /\ SameOrg
        /\ ConflictIsReal
        /\ \A r \in Requests : Bound(r)
=============================================================================
