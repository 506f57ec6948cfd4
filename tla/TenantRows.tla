----------------------------- MODULE TenantRows -----------------------------
(***************************************************************************)
(* The tables of users, organizations, memberships, projects and tasks,    *)
(* their unique keys, and what each operation asks for and writes; shared  *)
(* by the abstract specification Tenants and by Tenancy.                   *)
(*                                                                         *)
(* Of a row the tables keep what ties it to other rows.  The email of a    *)
(* user is never changed, so that an operation names a user to invite by   *)
(* the email, also after it has looked the user up.                        *)
(***************************************************************************)
EXTENDS Rbac

CONSTANTS Users,        \* the ids Postgres may generate for users,
          Orgs,         \* organizations,
          Projects,     \* projects
          Tasks,        \* and tasks
          Emails,       \* email addresses
          InviteRoles,  \* the roles given in invitations
          None          \* no row, no value

ASSUME TenantsAssumption ==
    /\ InviteRoles \subseteq OrgRole
    /\ None \notin Users \cup Emails \cup Orgs    \* None is told from each value that
    /\ None \notin Projects \X Users              \* a field with None may have

Memberships == [org : Orgs, user : Users, role : OrgRole]

\* users maps an id to the email of its row, projects to the organization,
\* tasks to <<project, reporter>>; None without a row.
Tables == [users    : [Users -> Emails \cup {None}],
           orgs     : SUBSET Orgs,
           members  : SUBSET Memberships,
           projects : [Projects -> Orgs \cup {None}],
           tasks    : [Tasks -> (Projects \X Users) \cup {None}]]

EmptyTables == [users    |-> [u \in Users |-> None],
                orgs     |-> {},
                members  |-> {},
                projects |-> [p \in Projects |-> None],
                tasks    |-> [t \in Tasks |-> None]]

\* user: the caller; on: the organization or project in the path; email and
\* role: of the body.
Operations ==
    [kind : {"register"}, user : {None}, on : {None}, email : Emails, role : {None}]
      \cup [kind : {"create_org"}, user : Users, on : {None}, email : {None}, role : {None}]
      \cup [kind : {"invite"}, user : Users, on : Orgs, email : Emails, role : InviteRoles]
      \cup [kind : {"create_project"}, user : Users, on : Orgs, email : {None}, role : {None}]
      \cup [kind : {"create_task"}, user : Users, on : Projects, email : {None}, role : {None}]

MinimumRole == [invite |-> "admin", create_project |-> "manager", create_task |-> "member"]

HasRole(db, o, u, minimum) ==
    \E m \in db.members : m.org = o /\ m.user = u /\ RoleSatisfies(m.role, minimum)

\* The organization in which an operation asks for a role.
OrgAsked(db, op) == IF op.kind = "create_task" THEN db.projects[op.on] ELSE op.on

Permitted_InAnyOrg(db, op) ==
    op.kind \in DOMAIN MinimumRole =>
        \E o \in Orgs : HasRole(db, o, op.user, MinimumRole[op.kind])

Permitted_OwnProject(db, op) ==
    /\ op.kind = "create_task" => db.projects[op.on] # None
    /\ op.kind \in {"invite", "create_project"} =>
           HasRole(db, op.on, op.user, MinimumRole[op.kind])

\* require_org_role and require_project_role: no membership in an unknown
\* organization or in that of an unknown project.
Permitted(db, op) ==
    op.kind \in DOMAIN MinimumRole =>
        HasRole(db, OrgAsked(db, op), op.user, MinimumRole[op.kind])

Registered(db, email) == \E u \in Users : db.users[u] = email

\* A row has the unique key of the one the operation would insert.
Taken(db, op) ==
    \/ op.kind = "register" /\ Registered(db, op.email)
    \/ op.kind = "invite" /\ \E m \in db.members :
                                 m.org = op.on /\ db.users[m.user] = op.email

\* What each operation makes of the tables, for every id Postgres may
\* generate.  Bound of the model: an id must be left.
RegisterUser(db, op) ==
    {[db EXCEPT !.users[u] = op.email] : u \in {v \in Users : db.users[v] = None}}

CreateOrganization(db, op) ==
    {[db EXCEPT !.orgs = @ \cup {o},
                !.members = @ \cup {[org |-> o, user |-> op.user, role |-> "owner"]}]
        : o \in Orgs \ db.orgs}

InviteMember(db, op) ==
    {[db EXCEPT !.members = @ \cup {[org |-> op.on, user |-> u, role |-> op.role]}]
        : u \in {v \in Users : db.users[v] = op.email}}

CreateProject(db, op) ==
    {[db EXCEPT !.projects[p] = op.on] : p \in {q \in Projects : db.projects[q] = None}}

CreateTask_Swapped(db, op) ==
    {[db EXCEPT !.tasks[t] = <<op.user, op.on>>] : t \in {s \in Tasks : db.tasks[s] = None}}

CreateTask(db, op) ==
    {[db EXCEPT !.tasks[t] = <<op.on, op.user>>] : t \in {s \in Tasks : db.tasks[s] = None}}

Effects(db, op) == CASE op.kind = "register"       -> RegisterUser(db, op)
                     [] op.kind = "create_org"     -> CreateOrganization(db, op)
                     [] op.kind = "invite"         -> InviteMember(db, op)
                     [] op.kind = "create_project" -> CreateProject(db, op)
                     [] OTHER                      -> CreateTask(db, op)
=============================================================================
