------------------------------ MODULE Tenancy -------------------------------
(***************************************************************************)
(* Registration, organizations, invitations, projects and the creation of  *)
(* tasks at the grain of SQL statements, each request in a session of its  *)
(* own under READ COMMITTED.                                               *)
(*                                                                         *)
(* The arbiters are the unique index on users.email and the constraint     *)
(* uq_org_members_org_user.  An INSERT waits for a transaction that has    *)
(* inserted the same key and has not ended, and fails if a committed row   *)
(* has the key then.  db holds the committed tables.                       *)
(***************************************************************************)
EXTENDS TenantRows

CONSTANT Requests    \* requests that can be in flight at the same time

ASSUME TenancyAssumption == None \notin Operations

VARIABLES db,   \* the tables, committed
          pc,   \* the statement each request runs next, or its answer
          req   \* what the client asked for

vars == <<db, pc, req>>

\* idle: nothing asked yet; refused: 403 or 404; conflict: 409; error: 500 of
\* a violated constraint; failed: the connection or the process is lost.
Answers == {"idle", "ok", "refused", "conflict", "error", "failed"}

Statements == {"check", "find", "query", "insert", "owner", "commit", "answer"}

Init == /\ db = EmptyTables
        /\ pc = [r \in Requests |-> "idle"]
        /\ req = [r \in Requests |-> None]

InFlight(r) == pc[r] \in Statements

GoTo(r, next) == /\ pc' = [pc EXCEPT ![r] = next]
                 /\ UNCHANGED <<db, req>>

\* The session closes; what is not committed is rolled back.  Of a request
\* that ran into a unique key the operation is kept, for ConflictIsReal.
End(r, answer) == /\ pc' = [pc EXCEPT ![r] = answer]
                  /\ req' = IF answer \in {"conflict", "error"} THEN req
                                                                ELSE [req EXCEPT ![r] = None]
                  /\ UNCHANGED db

\* A client sends a request.  Who calls has logged in, and so has registered.
Begin(r) ==
    /\ ~InFlight(r)
    /\ \E op \in Operations : /\ op.user # None => db.users[op.user] # None
                              /\ req' = [req EXCEPT ![r] = op]
    /\ pc' = [pc EXCEPT ![r] = "check"]
    /\ UNCHANGED db

Refuse(r) == /\ pc[r] = "check"
             /\ ~Permitted(db, req[r])
             /\ End(r, "refused")

\* The statement that follows the checks of the dependencies.
First == [register       |-> "query",  invite      |-> "find",   create_org |-> "insert",
          create_project |-> "insert", create_task |-> "insert"]

Check(r) == /\ pc[r] = "check"
            /\ Permitted(db, req[r])
            /\ GoTo(r, First[req[r].kind])

\* invite_member looks the user up: 404 for an email nobody has registered.
Find(r) == /\ pc[r] = "find"
           /\ IF Registered(db, req[r].email) THEN GoTo(r, "query") ELSE End(r, "refused")

\* The SELECT for an existing row with the key: EmailAlreadyRegisteredError
\* or AlreadyMemberError.
Query(r) == /\ pc[r] = "query"
            /\ IF Taken(db, req[r]) THEN End(r, "conflict") ELSE GoTo(r, "insert")

SameKey(o, p) == /\ o.kind \in {"register", "invite"}
                 /\ p.kind = o.kind /\ p.on = o.on /\ p.email = o.email

\* Another transaction has inserted a row with the key and has not ended.
Waits(r) == \E q \in Requests \ {r} : pc[q] = "commit" /\ SameKey(req[q], req[r])

Insert_NoConstraint(r) ==
    /\ pc[r] = "insert"
    /\ GoTo(r, IF req[r].kind = "create_org" THEN "owner" ELSE "commit")

Insert_CommitsOrg(r) ==
    /\ pc[r] = "insert" /\ ~Waits(r) /\ ~Taken(db, req[r])
    /\ IF req[r].kind = "create_org"
       THEN /\ \E o \in Orgs \ db.orgs : db' = [db EXCEPT !.orgs = @ \cup {o}]
            /\ pc' = [pc EXCEPT ![r] = "owner"]
            /\ UNCHANGED req
       ELSE GoTo(r, "commit")

\* INSERT: in the flush() of create_organization, else in that of commit().
Insert(r) == /\ pc[r] = "insert"
             /\ ~Waits(r)
             /\ ~Taken(db, req[r])
             /\ GoTo(r, IF req[r].kind = "create_org" THEN "owner" ELSE "commit")

DuplicateKey_Swallowed(r) ==
    /\ pc[r] = "insert" /\ ~Waits(r) /\ Taken(db, req[r])
    /\ End(r, "ok")

DuplicateKey_NoWait(r) ==
    /\ pc[r] = "insert" /\ (Waits(r) \/ Taken(db, req[r]))
    /\ End(r, "error")

\* The key was taken after the query: nobody handles the IntegrityError.
DuplicateKey(r) == /\ pc[r] = "insert"
                   /\ ~Waits(r)
                   /\ Taken(db, req[r])
                   /\ End(r, "error")

\* The body names an assignee who is no user: the foreign key is violated.
UnknownAssignee(r) == /\ pc[r] = "insert"
                      /\ req[r].kind = "create_task"
                      /\ End(r, "error")

\* The membership of the creator, in the flush of commit().
InsertOwner(r) == pc[r] = "owner" /\ GoTo(r, "commit")

Commit(r) == /\ pc[r] = "commit"
             /\ db' \in Effects(db, req[r])
             /\ pc' = [pc EXCEPT ![r] = "answer"]
             /\ UNCHANGED req

\* refresh() and the answer.
Answer(r) == pc[r] = "answer" /\ End(r, "ok")

Fail(r) == InFlight(r) /\ End(r, "failed")

Handle(r) ==
    \/ Refuse(r) \/ Check(r) \/ Find(r) \/ Query(r)
    \/ Insert(r) \/ DuplicateKey(r) \/ UnknownAssignee(r) \/ InsertOwner(r)
    \/ Commit(r) \/ Answer(r)

Next == \E r \in Requests : Begin(r) \/ Handle(r) \/ Fail(r)

Spec == Init /\ [][Next]_vars

-----------------------------------------------------------------------------
(* Properties *)

\* Types of the tables and of the requests in flight.
TypeOK == /\ db \in Tables
          /\ pc \in [Requests -> Statements \cup Answers]
          /\ req \in [Requests -> Operations \cup {None}]

\* However registrations and invitations overlap, no two users have one email
\* and no user has two memberships of an organization: register_user and
\* invite_member check it in an earlier statement.
KeysUnique ==
    /\ \A u, v \in Users : db.users[u] # None /\ db.users[u] = db.users[v] => u = v
    /\ \A m, n \in db.members : m.org = n.org /\ m.user = n.user => m = n

\* An organization has an owner from its first commit on, wherever
\* create_organization fails.
OwnerFromTheStart ==
    \A o \in db.orgs : \E m \in db.members : m.org = o /\ m.role = "owner"

\* The tenants are kept apart: the reporter of a task is a registered user and
\* a member of the organization that owns the task's project, and nothing is
\* ever in an organization that does not exist.
TenantsApart ==
    /\ \A t \in Tasks : db.tasks[t] # None =>
           LET p == db.tasks[t][1]
           IN  /\ db.projects[p] # None
               /\ HasRole(db, db.projects[p], db.tasks[t][2], "member")
    /\ \A p \in Projects : db.projects[p] # None => db.projects[p] \in db.orgs
    /\ \A m \in db.members : m.org \in db.orgs /\ db.users[m.user] # None

\* A 409, and a 500 of an invitation or a registration, is final: the row that
\* was in the way is committed, so the loser of a race may rely on it.
ConflictIsReal ==
    \A r \in Requests :
        (pc[r] = "conflict" \/ (pc[r] = "error" /\ req[r].kind # "create_task"))
            => Taken(db, req[r])

\* This step commits request r, which makes m: its caller founds m.org and is
\* its owner, or is an admin or owner of m.org and invites m.user by email.
Grants(r, m) ==
    /\ pc[r] = "commit" /\ pc'[r] = "answer"
    /\ \/ /\ req[r].kind = "create_org"
          /\ m.org \notin db.orgs /\ m.user = req[r].user /\ m.role = "owner"
       \/ /\ req[r].kind = "invite"
          /\ m.org = req[r].on /\ m.role = req[r].role /\ db.users[m.user] = req[r].email
          /\ HasRole(db, m.org, req[r].user, "admin")

\* Memberships are never changed or taken away, and one is only ever added by
\* a caller who is an admin or owner of that organization when the invitation
\* commits, or who creates the organization and becomes its owner.
Granted == [][ /\ db.members \subseteq db'.members
               /\ \A m \in db'.members \ db.members : \E r \in Requests : Grants(r, m) ]_vars

\* What the caller may know of a request that asks for op and is at at.
PhaseOf(at, op) ==
    IF at \notin Statements THEN at
    ELSE IF at = "answer" THEN "applied"
    ELSE IF at \in {"insert", "commit"} /\ op.kind \in {"register", "invite"} THEN "missing"
    ELSE "called"

Promise == INSTANCE Tenants WITH phase <- [r \in Requests |-> PhaseOf(pc[r], req[r])]

\* The requests are atomic to their callers under every interleaving: the
\* roles checked in the first statements are still there at the commit, one
\* answered with success took effect once; a 403, 404, 409 or 500 had a reason
\* at one moment of the request and no effect; only a request whose answer is
\* lost may have had its effect unseen.
ImplementsTenants == Promise!Spec

\* What a request has checked still holds when it writes, and two requests
\* about to commit have different keys.
Bound(r) ==
    /\ (InFlight(r) \/ pc[r] \in {"conflict", "error"}) => req[r] \in Operations
    /\ InFlight(r) /\ req[r].user # None => db.users[req[r].user] # None
    /\ pc[r] \in Statements \ {"check", "answer"} => Permitted(db, req[r])
    /\ pc[r] = "find" => req[r].kind = "invite"
    /\ pc[r] = "query" => req[r].kind \in {"register", "invite"}
    /\ pc[r] = "owner" => req[r].kind = "create_org"
    /\ pc[r] = "conflict" => req[r].kind \in {"register", "invite"}
    /\ pc[r] = "error" => req[r].kind \in {"register", "invite", "create_task"}
    /\ pc[r] = "commit" => /\ ~Taken(db, req[r])
                           /\ \A q \in Requests \ {r} :
                                  pc[q] = "commit" => ~SameKey(req[q], req[r])

\* The inductive invariant.
IInv == /\ TypeOK
        /\ KeysUnique
        /\ OwnerFromTheStart
        /\ TenantsApart
        /\ ConflictIsReal
        /\ \A r \in Requests : Bound(r)
=============================================================================
