---------------------------- MODULE TenancyProofs ----------------------------
(***************************************************************************)
(* The invariants of Tenancy, who may add members, and that its requests   *)
(* are atomic, for every number of requests and every set of ids.          *)
(***************************************************************************)
EXTENDS Tenancy, TLAPS

-----------------------------------------------------------------------------
(* Roles.                                                                  *)

\* Each operation has its effect.
LEMMA EffectsOf ==
    ASSUME NEW d, NEW op
    PROVE  /\ op.kind = "register" => Effects(d, op) = RegisterUser(d, op)
           /\ op.kind = "create_org" => Effects(d, op) = CreateOrganization(d, op)
           /\ op.kind = "invite" => Effects(d, op) = InviteMember(d, op)
           /\ op.kind = "create_project" => Effects(d, op) = CreateProject(d, op)
           /\ op.kind = "create_task" => Effects(d, op) = CreateTask(d, op)
BY DEF Effects

\* The kinds of operations and the fields each has.
LEMMA Kinds ==
    ASSUME NEW op \in Operations
    PROVE  /\ op.kind \in {"register", "create_org", "invite", "create_project", "create_task"}
           /\ op.kind = "register" => op.email \in Emails /\ op.on = None
           /\ op.kind # "register" => op.user \in Users
           /\ op.kind = "create_org" => op.on = None
           /\ op.kind \in {"invite", "create_project"} => op.on \in Orgs
           /\ op.kind = "invite" => op.email \in Emails /\ op.role \in OrgRole
           /\ op.kind = "create_task" => op.on \in Projects
BY TenantsAssumption DEF Operations

\* What Permitted says of each kind of operation.
LEMMA PermittedOf ==
    ASSUME NEW d, NEW op
    PROVE  /\ op.kind = "invite" => (Permitted(d, op) <=> HasRole(d, op.on, op.user, "admin"))
           /\ op.kind = "create_project"
                  => (Permitted(d, op) <=> HasRole(d, op.on, op.user, "manager"))
           /\ op.kind = "create_task"
                  => (Permitted(d, op) <=> HasRole(d, d.projects[op.on], op.user, "member"))
           /\ op.kind \in {"register", "create_org"} => Permitted(d, op)
BY DEF Permitted, MinimumRole, OrgAsked

-----------------------------------------------------------------------------
(* The tables only grow.                                                   *)

Grows(d, e) ==
    /\ \A u \in Users : d.users[u] # None => e.users[u] = d.users[u]
    /\ d.orgs \subseteq e.orgs /\ d.members \subseteq e.members
    /\ \A p \in Projects : d.projects[p] # None => e.projects[p] = d.projects[p]
    /\ \A t \in Tasks : d.tasks[t] # None => e.tasks[t] = d.tasks[t]

\* The fields of the tables.
LEMMA Fields ==
    ASSUME NEW d \in Tables
    PROVE  /\ d.users \in [Users -> Emails \cup {None}]
           /\ d.orgs \in SUBSET Orgs
           /\ d.members \in SUBSET Memberships
           /\ d.projects \in [Projects -> Orgs \cup {None}]
           /\ d.tasks \in [Tasks -> (Projects \X Users) \cup {None}]
BY DEF Tables

\* An operation leaves tables that have all they had.
LEMMA EffectsGrow ==
    ASSUME NEW d \in Tables, NEW op \in Operations, NEW e \in Effects(d, op)
    PROVE  e \in Tables /\ Grows(d, e)
<1>1. CASE op.kind = "register"
  <2>1. PICK u \in Users : d.users[u] = None /\ e = [d EXCEPT !.users[u] = op.email]
    BY <1>1, EffectsOf DEF RegisterUser
  <2>2. QED
    BY <1>1, <2>1, Kinds DEF Tables, Grows
<1>2. CASE op.kind = "create_org"
  <2>1. PICK o \in Orgs \ d.orgs :
            e = [d EXCEPT !.orgs = @ \cup {o},
                          !.members = @ \cup {[org |-> o, user |-> op.user, role |-> "owner"]}]
    <3>1. e \in CreateOrganization(d, op)
      BY <1>2, EffectsOf
    <3>2. QED
      BY <3>1, Zenon DEF CreateOrganization
  <2>2. [org |-> o, user |-> op.user, role |-> "owner"] \in Memberships
    BY <1>2, Kinds DEF Memberships, OrgRole
  <2>3. QED
    BY <2>1, <2>2 DEF Tables, Grows
<1>3. CASE op.kind = "invite"
  <2>1. PICK u \in Users :
            e = [d EXCEPT !.members = @ \cup {[org |-> op.on, user |-> u, role |-> op.role]}]
    BY <1>3, EffectsOf DEF InviteMember
  <2>2. [org |-> op.on, user |-> u, role |-> op.role] \in Memberships
    BY <1>3, Kinds DEF Memberships
  <2>3. QED
    BY <2>1, <2>2 DEF Tables, Grows
<1>4. CASE op.kind = "create_project"
  <2>1. PICK p \in Projects : d.projects[p] = None /\ e = [d EXCEPT !.projects[p] = op.on]
    BY <1>4, EffectsOf DEF CreateProject
  <2>2. QED
    BY <1>4, <2>1, Kinds DEF Tables, Grows
<1>5. CASE op.kind = "create_task"
  <2>1. PICK t \in Tasks : d.tasks[t] = None /\ e = [d EXCEPT !.tasks[t] = <<op.on, op.user>>]
    BY <1>5, EffectsOf DEF CreateTask
  <2>2. QED
    BY <1>5, <2>1, Kinds DEF Tables, Grows
<1>6. QED
  BY <1>1, <1>2, <1>3, <1>4, <1>5, Kinds

\* A role once given is kept.
LEMMA RolesKept ==
    ASSUME NEW d, NEW e, Grows(d, e), NEW o, NEW u, NEW minimum, HasRole(d, o, u, minimum)
    PROVE  HasRole(e, o, u, minimum)
BY DEF Grows, HasRole

\* Nobody has a role in no organization.
LEMMA RoleInOrg ==
    ASSUME NEW d \in Tables, NEW o, NEW u, NEW minimum, HasRole(d, o, u, minimum)
    PROVE  o \in Orgs /\ o # None
BY TenantsAssumption DEF HasRole, Tables, Memberships

\* What an operation has checked still holds in tables that have grown, and
\* the row it ran into is still there.
LEMMA ChecksKept ==
    ASSUME NEW d \in Tables, NEW e \in Tables, Grows(d, e), NEW op \in Operations
    PROVE  /\ Permitted(d, op) => Permitted(e, op)
           /\ Taken(d, op) => Taken(e, op)
           /\ \A u \in Users : d.users[u] # None => e.users[u] # None
<1>1. ASSUME Permitted(d, op) PROVE Permitted(e, op)
  <2>1. CASE op.kind = "create_task"
    <3>1. HasRole(d, d.projects[op.on], op.user, "member")
      BY <1>1, <2>1, PermittedOf
    <3>2. d.projects[op.on] # None
      BY <3>1, RoleInOrg
    <3>3. e.projects[op.on] = d.projects[op.on]
      BY <2>1, <3>2, Kinds DEF Grows
    <3>4. HasRole(e, e.projects[op.on], op.user, "member")
      BY <3>1, <3>3, RolesKept
    <3>5. QED
      BY <2>1, <3>4, PermittedOf
  <2>2. CASE op.kind # "create_task"
    BY <1>1, <2>2, Kinds, PermittedOf, RolesKept
  <2>3. QED
    BY <2>1, <2>2
<1>2. ASSUME Taken(d, op) PROVE Taken(e, op)
  <2>1. CASE op.kind = "register"
    BY <1>2, <2>1, Kinds, TenantsAssumption DEF Taken, Registered, Grows
  <2>2. CASE op.kind = "invite"
    <3>1. PICK m \in d.members : m.org = op.on /\ d.users[m.user] = op.email
      BY <1>2, <2>2 DEF Taken
    <3>2. m.user \in Users /\ op.email # None
      BY <2>2, Kinds, TenantsAssumption DEF Tables, Memberships
    <3>3. m \in e.members /\ e.users[m.user] = op.email
      BY <3>1, <3>2 DEF Grows
    <3>4. QED
      BY <2>2, <3>1, <3>3 DEF Taken
  <2>3. QED
    BY <1>2, <2>1, <2>2 DEF Taken
<1>3. QED
  BY <1>1, <1>2 DEF Grows

-----------------------------------------------------------------------------
(* A commit keeps the tables sound.                                        *)

Sound(d) == /\ \A u, v \in Users : d.users[u] # None /\ d.users[u] = d.users[v] => u = v
            /\ \A m, n \in d.members : m.org = n.org /\ m.user = n.user => m = n
            /\ \A o \in d.orgs : \E m \in d.members : m.org = o /\ m.role = "owner"
            /\ \A t \in Tasks : d.tasks[t] # None =>
                   /\ d.projects[d.tasks[t][1]] # None
                   /\ HasRole(d, d.projects[d.tasks[t][1]], d.tasks[t][2], "member")
            /\ \A p \in Projects : d.projects[p] # None => d.projects[p] \in d.orgs
            /\ \A m \in d.members : m.org \in d.orgs /\ d.users[m.user] # None

\* Sound is what the invariants say of the tables.
LEMMA SoundIs == Sound(db) <=> KeysUnique /\ OwnerFromTheStart /\ TenantsApart
BY DEF Sound, KeysUnique, OwnerFromTheStart, TenantsApart

\* What each operation changes.
LEMMA RegisterStep ==
    ASSUME NEW d \in Tables, NEW op \in Operations, op.kind = "register",
           NEW e \in Effects(d, op)
    PROVE  \E u \in Users :
               /\ d.users[u] = None /\ e.users = [d.users EXCEPT ![u] = op.email]
               /\ e.orgs = d.orgs /\ e.members = d.members
               /\ e.projects = d.projects /\ e.tasks = d.tasks
<1>1. e \in RegisterUser(d, op)
  BY EffectsOf
<1>2. PICK u \in Users : d.users[u] = None /\ e = [d EXCEPT !.users[u] = op.email]
  BY <1>1 DEF RegisterUser
<1>3. QED
  BY <1>2 DEF Tables

LEMMA CreateOrgStep ==
    ASSUME NEW d \in Tables, NEW op \in Operations, op.kind = "create_org",
           NEW e \in Effects(d, op)
    PROVE  \E o \in Orgs \ d.orgs :
               /\ e.orgs = d.orgs \cup {o}
               /\ e.members = d.members
                                \cup {[org |-> o, user |-> op.user, role |-> "owner"]}
               /\ e.users = d.users /\ e.projects = d.projects /\ e.tasks = d.tasks
<1>1. e \in CreateOrganization(d, op)
  BY EffectsOf
<1>2. PICK o \in Orgs \ d.orgs :
          e = [d EXCEPT !.orgs = @ \cup {o},
                        !.members = @ \cup {[org |-> o, user |-> op.user, role |-> "owner"]}]
  BY <1>1, Zenon DEF CreateOrganization
<1>3. QED
  BY <1>2 DEF Tables

LEMMA InviteStep ==
    ASSUME NEW d \in Tables, NEW op \in Operations, op.kind = "invite",
           NEW e \in Effects(d, op)
    PROVE  \E u \in Users :
               /\ d.users[u] = op.email
               /\ e.members = d.members
                                \cup {[org |-> op.on, user |-> u, role |-> op.role]}
               /\ e.users = d.users /\ e.orgs = d.orgs
               /\ e.projects = d.projects /\ e.tasks = d.tasks
<1>1. e \in InviteMember(d, op)
  BY EffectsOf
<1>2. PICK u \in Users :
          /\ d.users[u] = op.email
          /\ e = [d EXCEPT !.members = @ \cup {[org |-> op.on, user |-> u, role |-> op.role]}]
  BY <1>1, Zenon DEF InviteMember
<1>3. QED
  BY <1>2 DEF Tables

LEMMA CreateProjectStep ==
    ASSUME NEW d \in Tables, NEW op \in Operations, op.kind = "create_project",
           NEW e \in Effects(d, op)
    PROVE  \E p \in Projects :
               /\ d.projects[p] = None /\ e.projects = [d.projects EXCEPT ![p] = op.on]
               /\ e.users = d.users /\ e.orgs = d.orgs
               /\ e.members = d.members /\ e.tasks = d.tasks
<1>1. e \in CreateProject(d, op)
  BY EffectsOf
<1>2. PICK p \in Projects : d.projects[p] = None /\ e = [d EXCEPT !.projects[p] = op.on]
  BY <1>1 DEF CreateProject
<1>3. QED
  BY <1>2 DEF Tables

LEMMA CreateTaskStep ==
    ASSUME NEW d \in Tables, NEW op \in Operations, op.kind = "create_task",
           NEW e \in Effects(d, op)
    PROVE  \E t \in Tasks :
               /\ d.tasks[t] = None /\ e.tasks = [d.tasks EXCEPT ![t] = <<op.on, op.user>>]
               /\ e.users = d.users /\ e.orgs = d.orgs
               /\ e.members = d.members /\ e.projects = d.projects
<1>1. e \in CreateTask(d, op)
  BY EffectsOf
<1>2. PICK t \in Tasks : d.tasks[t] = None /\ e = [d EXCEPT !.tasks[t] = <<op.on, op.user>>]
  BY <1>1 DEF CreateTask
<1>3. QED
  BY <1>2 DEF Tables

\* An operation whose checks hold, on behalf of a registered user, keeps the
\* tables sound.
LEMMA EffectsSound ==
    ASSUME NEW d \in Tables, Sound(d), NEW op \in Operations, NEW e \in Effects(d, op),
           Permitted(d, op), ~Taken(d, op), op.kind # "register" => d.users[op.user] # None
    PROVE  Sound(e)
<1>0. e \in Tables /\ Grows(d, e)
  BY EffectsGrow
<1>1. ASSUME e.members = d.members
      PROVE  \A o, u : HasRole(d, o, u, "member") => HasRole(e, o, u, "member")
  BY <1>1 DEF HasRole
<1>2. CASE op.kind = "register"
  <2>1. PICK u \in Users :
            /\ d.users[u] = None /\ e.users = [d.users EXCEPT ![u] = op.email]
            /\ e.orgs = d.orgs /\ e.members = d.members
            /\ e.projects = d.projects /\ e.tasks = d.tasks
    BY <1>2, RegisterStep
  <2>2. op.email # None /\ \A v \in Users : d.users[v] # op.email
    BY <1>2, Kinds, TenantsAssumption DEF Taken, Registered
  <2>3. \A v, w \in Users : e.users[v] # None /\ e.users[v] = e.users[w] => v = w
    BY <2>1, <2>2, Fields DEF Sound
  <2>4. \A m \in e.members : e.users[m.user] # None
    BY <2>1, <2>2, Fields DEF Sound, Memberships
  <2>5. QED
    BY <1>1, <2>1, <2>3, <2>4 DEF Sound
<1>3. CASE op.kind = "create_org"
  <2>1. PICK o \in Orgs \ d.orgs :
            /\ e.orgs = d.orgs \cup {o}
            /\ e.members = d.members \cup {[org |-> o, user |-> op.user, role |-> "owner"]}
            /\ e.users = d.users /\ e.projects = d.projects /\ e.tasks = d.tasks
    BY <1>3, CreateOrgStep
  <2>2. \A m, n \in e.members : m.org = n.org /\ m.user = n.user => m = n
    BY <2>1 DEF Sound
  <2>3. \A m \in e.members : m.org \in e.orgs /\ e.users[m.user] # None
    BY <1>3, <2>1 DEF Sound
  <2>4. ASSUME NEW p \in e.orgs PROVE \E m \in e.members : m.org = p /\ m.role = "owner"
    <3>1. CASE p = o
      <4>1. [org |-> o, user |-> op.user, role |-> "owner"] \in e.members
        BY <2>1
      <4>2. QED
        BY <3>1, <4>1
    <3>2. CASE p \in d.orgs
      BY <2>1, <3>2 DEF Sound
    <3>3. QED
      BY <2>1, <3>1, <3>2
  <2>5. \A t \in Tasks : e.tasks[t] # None =>
            /\ e.projects[e.tasks[t][1]] # None
            /\ HasRole(e, e.projects[e.tasks[t][1]], e.tasks[t][2], "member")
    BY <1>0, <2>1, RolesKept DEF Sound
  <2>6. QED
    BY <2>1, <2>2, <2>3, <2>4, <2>5 DEF Sound
<1>4. CASE op.kind = "invite"
  <2>1. PICK u \in Users :
            /\ d.users[u] = op.email
            /\ e.members = d.members \cup {[org |-> op.on, user |-> u, role |-> op.role]}
            /\ e.users = d.users /\ e.orgs = d.orgs
            /\ e.projects = d.projects /\ e.tasks = d.tasks
    BY <1>4, InviteStep
  <2>2. op.email # None /\ op.on \in d.orgs
    <3>1. HasRole(d, op.on, op.user, "admin")
      BY <1>4, PermittedOf
    <3>2. op.on \in d.orgs
      BY <3>1 DEF HasRole, Sound
    <3>3. QED
      BY <1>4, <3>2, Kinds, TenantsAssumption
  <2>3. \A m \in d.members : m.org = op.on => m.user # u
    BY <1>4, <2>1 DEF Taken
  <2>4. \A m, n \in e.members : m.org = n.org /\ m.user = n.user => m = n
    BY <2>1, <2>3 DEF Sound
  <2>5. \A m \in e.members : m.org \in e.orgs /\ e.users[m.user] # None
    BY <2>1, <2>2 DEF Sound
  <2>6. \A t \in Tasks : e.tasks[t] # None =>
            /\ e.projects[e.tasks[t][1]] # None
            /\ HasRole(e, e.projects[e.tasks[t][1]], e.tasks[t][2], "member")
    BY <1>0, <2>1, RolesKept DEF Sound
  <2>7. QED
    BY <2>1, <2>4, <2>5, <2>6 DEF Sound
<1>5. CASE op.kind = "create_project"
  <2>1. PICK p \in Projects :
            /\ d.projects[p] = None /\ e.projects = [d.projects EXCEPT ![p] = op.on]
            /\ e.users = d.users /\ e.orgs = d.orgs
            /\ e.members = d.members /\ e.tasks = d.tasks
    BY <1>5, CreateProjectStep
  <2>2. op.on \in d.orgs
    <3>1. HasRole(d, op.on, op.user, "manager")
      BY <1>5, PermittedOf
    <3>2. QED
      BY <3>1 DEF HasRole, Sound
  <2>3. \A q \in Projects : e.projects[q] # None => e.projects[q] \in e.orgs
    BY <2>1, <2>2, Fields DEF Sound
  <2>4. ASSUME NEW t \in Tasks, e.tasks[t] # None
        PROVE  /\ e.projects[e.tasks[t][1]] # None
               /\ HasRole(e, e.projects[e.tasks[t][1]], e.tasks[t][2], "member")
    <3>1. d.tasks[t] \in Projects \X Users /\ e.tasks[t] = d.tasks[t]
      BY <2>1, <2>4, Fields
    <3>2. d.projects[d.tasks[t][1]] # None /\ d.tasks[t][1] \in Projects
      BY <3>1, <2>4 DEF Sound
    <3>3. e.projects[d.tasks[t][1]] = d.projects[d.tasks[t][1]]
      BY <1>0, <3>2 DEF Grows
    <3>4. HasRole(d, d.projects[d.tasks[t][1]], d.tasks[t][2], "member")
      BY <3>1, <2>4 DEF Sound
    <3>5. QED
      BY <1>1, <2>1, <3>1, <3>2, <3>3, <3>4
  <2>5. QED
    BY <2>1, <2>3, <2>4 DEF Sound
<1>6. CASE op.kind = "create_task"
  <2>1. PICK t \in Tasks :
            /\ d.tasks[t] = None /\ e.tasks = [d.tasks EXCEPT ![t] = <<op.on, op.user>>]
            /\ e.users = d.users /\ e.orgs = d.orgs
            /\ e.members = d.members /\ e.projects = d.projects
    BY <1>6, CreateTaskStep
  <2>2. HasRole(d, d.projects[op.on], op.user, "member") /\ d.projects[op.on] # None
    BY <1>6, PermittedOf, RoleInOrg
  <2>3. ASSUME NEW s \in Tasks, e.tasks[s] # None
        PROVE  /\ e.projects[e.tasks[s][1]] # None
               /\ HasRole(e, e.projects[e.tasks[s][1]], e.tasks[s][2], "member")
    <3>1. CASE s = t
      <4>1. e.tasks[s] = <<op.on, op.user>>
        BY <2>1, <3>1, Fields
      <4>2. QED
        BY <1>1, <2>1, <2>2, <4>1
    <3>2. CASE s # t
      <4>1. e.tasks[s] = d.tasks[s]
        BY <2>1, <3>2, Fields
      <4>2. QED
        BY <1>1, <2>1, <2>3, <4>1 DEF Sound
    <3>3. QED
      BY <3>1, <3>2
  <2>4. QED
    BY <2>1, <2>3 DEF Sound
<1>7. QED
  BY <1>2, <1>3, <1>4, <1>5, <1>6, Kinds

\* An operation takes no key that another, whose checks hold, is about to
\* insert, unless the two have the same.
LEMMA OtherKeysFree ==
    ASSUME NEW d \in Tables, Sound(d), NEW op \in Operations, NEW e \in Effects(d, op),
           NEW other \in Operations, Permitted(d, other), ~Taken(d, other),
           ~SameKey(op, other)
    PROVE  ~Taken(e, other)
<1>1. CASE other.kind = "register"
  <2>1. CASE op.kind = "register"
    <3>1. op.email # other.email
      BY <1>1, <2>1, Kinds DEF SameKey
    <3>2. PICK u \in Users : e.users = [d.users EXCEPT ![u] = op.email]
      BY <2>1, RegisterStep
    <3>3. \A v \in Users : e.users[v] = d.users[v] \/ e.users[v] = op.email
      BY <3>2, Fields
    <3>4. QED
      BY <1>1, <3>1, <3>3 DEF Taken, Registered
  <2>2. CASE op.kind # "register"
    <3>1. e.users = d.users
      <4>1. CASE op.kind = "create_org"
        BY <4>1, CreateOrgStep
      <4>2. CASE op.kind = "invite"
        BY <4>2, InviteStep
      <4>3. CASE op.kind = "create_project"
        BY <4>3, CreateProjectStep
      <4>4. CASE op.kind = "create_task"
        BY <4>4, CreateTaskStep
      <4>5. QED
        BY <2>2, <4>1, <4>2, <4>3, <4>4, Kinds
    <3>2. QED
      BY <1>1, <3>1 DEF Taken, Registered
  <2>3. QED
    BY <2>1, <2>2
<1>2. CASE other.kind = "invite"
  <2> SUFFICES ASSUME NEW m \in e.members, m.org = other.on, e.users[m.user] = other.email
               PROVE  FALSE
    BY <1>2 DEF Taken
  <2>1. other.on \in d.orgs
    <3>1. HasRole(d, other.on, other.user, "admin")
      BY <1>2, PermittedOf
    <3>2. QED
      BY <3>1 DEF HasRole, Sound
  <2>2. ASSUME m \in d.members, e.users[m.user] = d.users[m.user] PROVE FALSE
    BY <1>2, <2>2 DEF Taken
  <2>3. CASE op.kind = "register"
    <3>1. PICK u \in Users : /\ d.users[u] = None /\ e.members = d.members
                             /\ e.users = [d.users EXCEPT ![u] = op.email]
      BY <2>3, RegisterStep
    <3>2. m.user # u /\ m.user \in Users
      BY <3>1, Fields DEF Sound, Memberships
    <3>3. QED
      BY <2>2, <3>1, <3>2, Fields
  <2>4. CASE op.kind = "create_org"
    BY <2>1, <2>2, <2>4, CreateOrgStep
  <2>5. CASE op.kind = "invite"
    <3>1. PICK u \in Users :
              /\ d.users[u] = op.email /\ e.users = d.users
              /\ e.members = d.members \cup {[org |-> op.on, user |-> u, role |-> op.role]}
      BY <2>5, InviteStep
    <3>2. op.on # other.on \/ op.email # other.email
      BY <1>2, <2>5 DEF SameKey
    <3>3. QED
      BY <2>2, <3>1, <3>2
  <2>6. CASE op.kind \in {"create_project", "create_task"}
    <3>1. e.users = d.users /\ e.members = d.members
      BY <2>6, CreateProjectStep, CreateTaskStep
    <3>2. QED
      BY <2>2, <3>1
  <2>7. QED
    BY <2>3, <2>4, <2>5, <2>6, Kinds
<1>3. QED
  BY <1>1, <1>2 DEF Taken

-----------------------------------------------------------------------------
(* The invariant.                                                          *)

\* A request that a step leaves alone stays bound, if the tables only grow and
\* no other gets to commit its key.
LEMMA StillBound ==
    ASSUME IInv, db' \in Tables, Grows(db, db'), NEW q \in Requests,
           pc'[q] = pc[q], req'[q] = req[q],
           pc[q] = "commit" =>
               /\ ~Taken(db', req[q])
               /\ \A p \in Requests \ {q} : pc'[p] = "commit" => ~SameKey(req'[p], req[q])
    PROVE  Bound(q)'
<1>1. Bound(q) /\ db \in Tables
  BY DEF IInv, TypeOK
<1>2. pc[q] \in Statements \ {"check", "answer"} => Permitted(db', req[q])
  BY <1>1, ChecksKept DEF Bound, InFlight
<1>3. InFlight(q) /\ req[q].user # None => db'.users[req[q].user] # None
  BY <1>1, ChecksKept, Kinds, TenantsAssumption DEF Bound, InFlight, Operations
<1>4. QED
  BY <1>1, <1>2, <1>3 DEF Bound, InFlight

\* A row that was in the way stays.
LEMMA StillInTheWay ==
    ASSUME IInv, db' \in Tables, Grows(db, db'), NEW q \in Requests,
           pc'[q] = pc[q], req'[q] = req[q],
           pc[q] = "conflict" \/ (pc[q] = "error" /\ req[q].kind # "create_task")
    PROVE  Taken(db', req'[q])
<1>1. req[q] \in Operations /\ Taken(db, req[q]) /\ db \in Tables
  BY DEF IInv, TypeOK, Bound, ConflictIsReal
<1>2. QED
  BY <1>1, ChecksKept

\* A step of r that leaves the tables alone, and after which r is bound.
LEMMA TablesAlone ==
    ASSUME IInv, NEW r \in Requests, db' = db, NEW next \in Statements \cup Answers,
           pc' = [pc EXCEPT ![r] = next],
           req' \in [Requests -> Operations \cup {None}],
           \A q \in Requests \ {r} : req'[q] = req[q],
           Bound(r)',
           next = "conflict" \/ (next = "error" /\ req'[r].kind # "create_task")
               => Taken(db, req'[r]),
           next = "commit" => \A q \in Requests \ {r} :
                                  pc[q] = "commit" => ~SameKey(req'[r], req[q])
    PROVE  IInv'
<1>1. TypeOK' /\ db' \in Tables /\ Grows(db, db')
  BY DEF IInv, TypeOK, Grows
<1>2. KeysUnique' /\ OwnerFromTheStart' /\ TenantsApart'
  BY DEF IInv, KeysUnique, OwnerFromTheStart, TenantsApart
<1>3. pc'[r] = next /\ \A q \in Requests \ {r} : pc'[q] = pc[q]
  BY DEF IInv, TypeOK
<1>4. ConflictIsReal'
  <2>1. \A q \in Requests \ {r} :
            pc[q] = "conflict" \/ (pc[q] = "error" /\ req[q].kind # "create_task")
                => Taken(db', req'[q])
    BY <1>1, <1>3, StillInTheWay
  <2>2. QED
    BY <1>3, <2>1 DEF ConflictIsReal
<1>5. ASSUME NEW q \in Requests \ {r} PROVE Bound(q)'
  <2>1. pc[q] = "commit" =>
            /\ ~Taken(db', req[q])
            /\ \A p \in Requests \ {q} : pc'[p] = "commit" => ~SameKey(req'[p], req[q])
    BY <1>3 DEF IInv, Bound
  <2>2. QED
    BY <1>1, <1>3, <2>1, StillBound
<1>6. QED
  BY <1>1, <1>2, <1>4, <1>5 DEF IInv

\* The end of a request.
LEMMA EndKeeps ==
    ASSUME IInv, NEW r \in Requests, NEW answer \in Answers, End(r, answer), InFlight(r),
           answer = "conflict" => req[r].kind \in {"register", "invite"},
           answer = "error" => req[r].kind \in {"register", "invite", "create_task"},
           answer = "conflict" \/ (answer = "error" /\ req[r].kind # "create_task")
               => Taken(db, req[r])
    PROVE  IInv'
<1>1. /\ db' = db /\ pc' = [pc EXCEPT ![r] = answer] /\ pc'[r] = answer
      /\ req[r] \in Operations
  BY DEF End, IInv, TypeOK, Bound
<1>2. /\ req' \in [Requests -> Operations \cup {None}]
      /\ \A q \in Requests \ {r} : req'[q] = req[q]
      /\ answer \in {"conflict", "error"} => req'[r] = req[r]
  BY DEF End, IInv, TypeOK
<1>3. answer \notin Statements /\ answer \notin {"commit", "owner", "find", "query"}
  BY DEF Statements, Answers
<1>4. Bound(r)'
  BY <1>1, <1>2, <1>3 DEF Bound, InFlight
<1>5. QED
  BY <1>1, <1>2, <1>3, <1>4, TablesAlone

\* A step of r to its next statement, of the checks of which nothing is lost.
LEMMA GoToKeeps ==
    ASSUME IInv, NEW r \in Requests, NEW next \in Statements, GoTo(r, next), InFlight(r),
           next \in Statements \ {"check", "answer"} => Permitted(db, req[r]),
           next = "find" => req[r].kind = "invite",
           next = "query" => req[r].kind \in {"register", "invite"},
           next = "owner" => req[r].kind = "create_org",
           next = "commit" => ~Taken(db, req[r]) /\ ~Waits(r)
    PROVE  IInv'
<1>1. /\ db' = db /\ req' = req /\ pc' = [pc EXCEPT ![r] = next] /\ pc'[r] = next
      /\ \A q \in Requests \ {r} : pc'[q] = pc[q]
  BY DEF GoTo, IInv, TypeOK
<1>2. next = "commit" => \A q \in Requests \ {r} :
          pc[q] = "commit" => ~SameKey(req[q], req[r]) /\ ~SameKey(req[r], req[q])
  BY DEF Waits, SameKey
<1>3. next \notin {"conflict", "error"}
  BY DEF Statements
<1>4. Bound(r)'
  BY <1>1, <1>2, <1>3 DEF Bound, InFlight, IInv
<1>5. QED
  BY <1>1, <1>2, <1>3, <1>4, TablesAlone DEF IInv, TypeOK

\* A commit writes what was permitted and is still free.
LEMMA CommitFacts ==
    ASSUME IInv, NEW r \in Requests, Commit(r)
    PROVE  /\ req[r] \in Operations /\ db' \in Effects(db, req[r])
           /\ Permitted(db, req[r]) /\ ~Taken(db, req[r])
           /\ req[r].kind # "register" => db.users[req[r].user] # None
           /\ db \in Tables /\ db' \in Tables /\ Grows(db, db') /\ Sound(db) /\ Sound(db')
<1>1. /\ req[r] \in Operations /\ db' \in Effects(db, req[r])
      /\ Permitted(db, req[r]) /\ ~Taken(db, req[r]) /\ db \in Tables
      /\ InFlight(r)
  BY DEF Commit, IInv, TypeOK, Bound, InFlight, Statements
<1>2. req[r].kind # "register" => db.users[req[r].user] # None
  BY <1>1, Kinds, TenantsAssumption DEF IInv, Bound
<1>3. Sound(db)
  BY SoundIs DEF IInv
<1>4. QED
  BY <1>1, <1>2, <1>3, EffectsGrow, EffectsSound

LEMMA CommitKeeps ==
    ASSUME IInv, NEW r \in Requests, Commit(r)
    PROVE  IInv'
<1>1. /\ req' = req /\ pc' = [pc EXCEPT ![r] = "answer"] /\ pc'[r] = "answer"
      /\ \A q \in Requests \ {r} : pc'[q] = pc[q]
      /\ pc[r] = "commit"
  BY DEF Commit, IInv, TypeOK
<1>2. TypeOK'
  BY <1>1, CommitFacts DEF IInv, TypeOK, Statements
<1>3. KeysUnique' /\ OwnerFromTheStart' /\ TenantsApart'
  BY CommitFacts DEF Sound, KeysUnique, OwnerFromTheStart, TenantsApart
<1>4. ConflictIsReal'
  BY <1>1, CommitFacts, StillInTheWay DEF ConflictIsReal
<1>5. Bound(r)'
  <2>1. req[r].user # None => db'.users[req[r].user] # None
    BY CommitFacts, Kinds, TenantsAssumption DEF Grows, Operations
  <2>2. QED
    BY <1>1, <2>1, CommitFacts DEF Bound, InFlight, Statements
<1>6. ASSUME NEW q \in Requests \ {r} PROVE Bound(q)'
  <2>1. pc[q] = "commit" =>
            /\ ~Taken(db', req[q])
            /\ \A p \in Requests \ {q} : pc'[p] = "commit" => ~SameKey(req'[p], req[q])
    <3>1. pc[q] = "commit" => /\ req[q] \in Operations
                             /\ Permitted(db, req[q]) /\ ~Taken(db, req[q])
                             /\ ~SameKey(req[r], req[q])
      BY <1>1 DEF IInv, Bound, InFlight, Statements
    <3>2. pc[q] = "commit" => ~Taken(db', req[q])
      BY <3>1, CommitFacts, OtherKeysFree
    <3>3. QED
      BY <1>1, <3>2 DEF IInv, Bound
  <2>2. QED
    BY <1>1, <2>1, CommitFacts, StillBound
<1>7. QED
  BY <1>2, <1>3, <1>4, <1>5, <1>6 DEF IInv

LEMMA BeginKeeps ==
    ASSUME IInv, NEW r \in Requests, Begin(r)
    PROVE  IInv'
<1>1. PICK op \in Operations : /\ op.user # None => db.users[op.user] # None
                               /\ req' = [req EXCEPT ![r] = op]
  BY DEF Begin
<1>2. /\ db' = db /\ pc' = [pc EXCEPT ![r] = "check"] /\ pc'[r] = "check"
      /\ req' \in [Requests -> Operations \cup {None}] /\ req'[r] = op
      /\ \A q \in Requests \ {r} : req'[q] = req[q]
  BY <1>1 DEF Begin, IInv, TypeOK
<1>3. Bound(r)'
  BY <1>1, <1>2 DEF Bound, InFlight
<1>4. QED
  BY <1>2, <1>3, TablesAlone DEF Statements

\* The statements of the checks and of the inserts.
LEMMA StatementsKeep ==
    ASSUME IInv, NEW r \in Requests,
           Check(r) \/ Insert(r) \/ InsertOwner(r) \/ Find(r) \/ Query(r)
    PROVE  IInv'
<1>1. /\ InFlight(r) /\ req[r] \in Operations
      /\ pc[r] # "check" => Permitted(db, req[r])
  BY DEF Check, Insert, InsertOwner, Find, Query, IInv, Bound, InFlight, Statements
<1>2. CASE Check(r)
  <2>1. GoTo(r, First[req[r].kind]) /\ Permitted(db, req[r])
    BY <1>2 DEF Check
  <2>2. /\ First[req[r].kind] \in {"query", "find", "insert"}
        /\ First[req[r].kind] = "find" => req[r].kind = "invite"
        /\ First[req[r].kind] = "query" => req[r].kind = "register"
    BY <1>1, Kinds DEF First
  <2>3. QED
    BY <1>1, <2>1, <2>2, GoToKeeps DEF Statements
<1>3. CASE Insert(r)
  <2>1. /\ GoTo(r, IF req[r].kind = "create_org" THEN "owner" ELSE "commit")
        /\ ~Waits(r) /\ ~Taken(db, req[r]) /\ pc[r] = "insert"
    BY <1>3 DEF Insert
  <2>2. CASE req[r].kind = "create_org"
    BY <1>1, <2>1, <2>2, GoToKeeps DEF Statements
  <2>3. CASE req[r].kind # "create_org"
    BY <1>1, <2>1, <2>3, GoToKeeps DEF Statements
  <2>4. QED
    BY <2>2, <2>3
<1>4. CASE InsertOwner(r)
  <2>1. GoTo(r, "commit") /\ pc[r] = "owner" /\ req[r].kind = "create_org"
    BY <1>4 DEF InsertOwner, IInv, Bound
  <2>2. ~Taken(db, req[r]) /\ ~Waits(r)
    BY <2>1 DEF Taken, Waits, SameKey
  <2>3. QED
    BY <1>1, <2>1, <2>2, GoToKeeps DEF Statements
<1>5. CASE Find(r)
  <2>1. GoTo(r, "query") \/ End(r, "refused")
    BY <1>5 DEF Find
  <2>2. pc[r] = "find" /\ req[r].kind = "invite"
    BY <1>5 DEF Find, IInv, Bound
  <2>3. QED
    BY <1>1, <2>1, <2>2, GoToKeeps, EndKeeps DEF Statements, Answers
<1>6. CASE Query(r)
  <2>1. \/ GoTo(r, "insert")
        \/ End(r, "conflict") /\ Taken(db, req[r])
    BY <1>6 DEF Query
  <2>2. pc[r] = "query"
    BY <1>6 DEF Query
  <2>3. Taken(db, req[r]) => req[r].kind \in {"register", "invite"}
    BY DEF Taken
  <2>4. QED
    BY <1>1, <2>1, <2>2, <2>3, GoToKeeps, EndKeeps DEF Statements, Answers
<1>7. QED
  BY <1>2, <1>3, <1>4, <1>5, <1>6

LEMMA EndsKeep ==
    ASSUME IInv, NEW r \in Requests,
           Refuse(r) \/ DuplicateKey(r) \/ UnknownAssignee(r) \/ Answer(r) \/ Fail(r)
    PROVE  IInv'
<1>1. InFlight(r)
  BY DEF Refuse, DuplicateKey, UnknownAssignee, Answer, Fail, InFlight, Statements
<1>2. Taken(db, req[r]) => req[r].kind \in {"register", "invite"}
  BY DEF Taken
<1>3. \E answer \in Answers \ {"conflict"} :
          /\ End(r, answer)
          /\ answer = "error" => \/ Taken(db, req[r])
                                 \/ req[r].kind = "create_task"
  BY DEF Refuse, DuplicateKey, UnknownAssignee, Answer, Fail, Answers
<1>4. QED
  BY <1>1, <1>2, <1>3, EndKeeps

\* However the requests overlap or fail, each is bound to what it has checked,
\* and the unique keys decide who writes.
THEOREM TenancyInductive == Spec => []IInv
<1>1. Init => IInv
  <2>1. Init => TypeOK
    BY DEF Init, TypeOK, EmptyTables, Tables, Answers
  <2>2. Init => KeysUnique /\ OwnerFromTheStart /\ TenantsApart
    BY DEF Init, EmptyTables, KeysUnique, OwnerFromTheStart, TenantsApart
  <2>3. Init => ConflictIsReal /\ \A r \in Requests : Bound(r)
    BY DEF Init, ConflictIsReal, Bound, InFlight, Statements
  <2>4. QED
    BY <2>1, <2>2, <2>3 DEF IInv
<1>2. IInv /\ [Next]_vars => IInv'
  <2> SUFFICES ASSUME IInv, [Next]_vars PROVE IInv'
    OBVIOUS
  <2>1. CASE UNCHANGED vars
    BY <2>1 DEF vars, IInv, TypeOK, KeysUnique, OwnerFromTheStart, TenantsApart,
                ConflictIsReal, Bound, InFlight
  <2>2. ASSUME NEW r \in Requests, Begin(r) \/ Handle(r) \/ Fail(r) PROVE IInv'
    BY <2>2, BeginKeeps, StatementsKeep, EndsKeep, CommitKeeps DEF Handle
  <2>3. QED
    BY <2>1, <2>2 DEF Next
<1>3. QED
  BY <1>1, <1>2, PTL DEF Spec

\* The tables and the requests in flight keep their types.
THEOREM TenancyTypeCorrect == Spec => []TypeOK
<1>1. IInv => TypeOK
  BY DEF IInv
<1>2. QED
  BY <1>1, TenancyInductive, PTL

\* No two users ever have one email, and no user two memberships of an
\* organization, however registrations and invitations overlap.
THEOREM UniqueKeys == Spec => []KeysUnique
<1>1. IInv => KeysUnique
  BY DEF IInv
<1>2. QED
  BY <1>1, TenancyInductive, PTL

\* Every committed organization has an owner.
THEOREM OwnersFromTheStart == Spec => []OwnerFromTheStart
<1>1. IInv => OwnerFromTheStart
  BY DEF IInv
<1>2. QED
  BY <1>1, TenancyInductive, PTL

\* No task is ever reported by somebody who is no member of the organization
\* that owns it, and every project and membership is in an organization.
THEOREM TenantsKeptApart == Spec => []TenantsApart
<1>1. IInv => TenantsApart
  BY DEF IInv
<1>2. QED
  BY <1>1, TenancyInductive, PTL

\* Who is refused for a unique key has lost to a row that is there for good.
THEOREM ConflictsAreFinal == Spec => []ConflictIsReal
<1>1. IInv => ConflictIsReal
  BY DEF IInv
<1>2. QED
  BY <1>1, TenancyInductive, PTL

-----------------------------------------------------------------------------
(* Steps.                                                                  *)

\* The steps other than the commit leave the tables alone.
LEMMA OnlyCommitsWrite ==
    ASSUME NEW r \in Requests, Begin(r) \/ Handle(r) \/ Fail(r), ~Commit(r)
    PROVE  db' = db
BY DEF Begin, Handle, Refuse, Check, Find, Query, Insert, DuplicateKey, UnknownAssignee,
       InsertOwner, Answer, Fail, GoTo, End

\* Of a request that commits, the memberships it adds are its own to grant.
LEMMA CommitGrants ==
    ASSUME IInv, NEW r \in Requests, Commit(r), NEW m \in db'.members \ db.members
    PROVE  Grants(r, m)
<1>1. pc[r] = "commit" /\ pc'[r] = "answer"
  BY DEF Commit, IInv, TypeOK
<1>2. /\ req[r] \in Operations /\ db \in Tables /\ db' \in Effects(db, req[r])
      /\ Permitted(db, req[r])
  BY CommitFacts
<1>3. CASE req[r].kind = "create_org"
  <2>1. PICK o \in Orgs \ db.orgs :
            db'.members = db.members
                            \cup {[org |-> o, user |-> req[r].user, role |-> "owner"]}
    BY <1>2, <1>3, CreateOrgStep
  <2>2. m = [org |-> o, user |-> req[r].user, role |-> "owner"]
    BY <2>1
  <2>3. QED
    BY <1>1, <1>3, <2>2 DEF Grants
<1>4. CASE req[r].kind = "invite"
  <2>1. PICK u \in Users :
            /\ db.users[u] = req[r].email
            /\ db'.members = db.members
                               \cup {[org |-> req[r].on, user |-> u, role |-> req[r].role]}
    BY <1>2, <1>4, InviteStep
  <2>2. m = [org |-> req[r].on, user |-> u, role |-> req[r].role]
    BY <2>1
  <2>3. HasRole(db, m.org, req[r].user, "admin")
    BY <1>2, <1>4, <2>2, PermittedOf
  <2>4. QED
    BY <1>1, <1>4, <2>1, <2>2, <2>3 DEF Grants
<1>5. CASE req[r].kind = "register"
  BY <1>2, <1>5, RegisterStep
<1>6. CASE req[r].kind = "create_project"
  BY <1>2, <1>6, CreateProjectStep
<1>7. CASE req[r].kind = "create_task"
  BY <1>2, <1>7, CreateTaskStep
<1>8. QED
  BY <1>2, <1>3, <1>4, <1>5, <1>6, <1>7, Kinds

\* A membership is there for good, and it is the request that commits it whose
\* caller founded the organization or is an admin of it and invited the member.
THEOREM MembershipsAreGranted == Spec => Granted
<1> DEFINE Grant == /\ db.members \subseteq db'.members
                    /\ \A m \in db'.members \ db.members : \E r \in Requests : Grants(r, m)
<1>1. IInv /\ [Next]_vars => [Grant]_vars
  <2> SUFFICES ASSUME IInv, [Next]_vars PROVE Grant
    OBVIOUS
  <2>1. CASE db' = db
    BY <2>1
  <2>2. CASE db' # db
    <3>1. PICK r \in Requests : Commit(r)
      BY <2>2, OnlyCommitsWrite DEF Next, vars
    <3>2. Grows(db, db')
      BY <3>1, CommitFacts
    <3>3. QED
      BY <3>1, <3>2, CommitGrants DEF Grows
  <2>3. QED
    BY <2>1, <2>2
<1>2. QED
  BY <1>1, TenancyInductive, PTL DEF Spec, Granted

-----------------------------------------------------------------------------
(* The requests are atomic to their callers.                               *)

\* The abstract specification speaks of the same operations and effects.
LEMMA SameOperations ==
    /\ Promise!Operations = Operations
    /\ Promise!EmptyTables = EmptyTables
BY DEF Promise!Operations, Operations, Promise!EmptyTables, EmptyTables

LEMMA SameChecks ==
    ASSUME NEW d, NEW op
    PROVE  /\ Promise!Permitted(d, op) <=> Permitted(d, op)
           /\ Promise!Taken(d, op) <=> Taken(d, op)
           /\ \A email : Promise!Registered(d, email) <=> Registered(d, email)
<1>1. \A o, u, minimum : Promise!HasRole(d, o, u, minimum) <=> HasRole(d, o, u, minimum)
  BY DEF Promise!HasRole, HasRole, Promise!RoleSatisfies, RoleSatisfies,
         Promise!RoleRank, RoleRank, Promise!OrgRole, OrgRole
<1>2. Promise!Permitted(d, op) <=> Permitted(d, op)
  BY <1>1 DEF Promise!Permitted, Permitted, Promise!OrgAsked, OrgAsked,
              Promise!MinimumRole, MinimumRole
<1>3. Promise!Taken(d, op) <=> Taken(d, op)
  BY DEF Promise!Taken, Taken, Promise!Registered, Registered
<1>4. \A email : Promise!Registered(d, email) <=> Registered(d, email)
  BY DEF Promise!Registered, Registered
<1>5. QED
  BY <1>2, <1>3, <1>4

LEMMA SameEffects ==
    ASSUME NEW d, NEW op
    PROVE  Promise!Effects(d, op) = Effects(d, op)
BY DEF Promise!Effects, Effects, Promise!RegisterUser, RegisterUser,
       Promise!CreateOrganization, CreateOrganization, Promise!InviteMember, InviteMember,
       Promise!CreateProject, CreateProject, Promise!CreateTask, CreateTask

\* The phases of the requests, as their callers see them.
Phase == [q \in Requests |-> PhaseOf(pc[q], req[q])]

\* The phases that the steps of the model go through.
LEMMA PhasesOfSteps ==
    ASSUME NEW op
    PROVE  /\ \A p \in Answers : PhaseOf(p, op) = p
           /\ PhaseOf("answer", op) = "applied"
           /\ \A p \in Statements \ {"answer"} :
                PhaseOf(p, op) =
                    IF p \in {"insert", "commit"} /\ op.kind \in {"register", "invite"}
                    THEN "missing" ELSE "called"
BY DEF PhaseOf, Statements, Answers

\* A step of a request changes its own phase only.
LEMMA PhaseStep ==
    ASSUME IInv, NEW r \in Requests, NEW next, pc' = [pc EXCEPT ![r] = next],
           \A q \in Requests \ {r} : req'[q] = req[q],
           NEW from, PhaseOf(pc[r], req[r]) \in from
    PROVE  Promise!Moves(r, from, PhaseOf(next, req'[r]))
<1>1. Phase' = [Phase EXCEPT ![r] = PhaseOf(next, req'[r])]
  BY DEF IInv, TypeOK, Phase
<1>2. Phase[r] \in from
  BY DEF Phase
<1>3. QED
  BY <1>1, <1>2 DEF Promise!Moves, Phase

\* A statement before the commit shows nothing to the caller, unless it tells
\* a registration or an invitation that its key is free.
LEMMA SilentStep ==
    ASSUME IInv, NEW r \in Requests, NEW next, GoTo(r, next),
           PhaseOf(next, req[r]) = PhaseOf(pc[r], req[r])
    PROVE  UNCHANGED <<db, Phase, req>>
<1>1. Phase' = [Phase EXCEPT ![r] = PhaseOf(next, req[r])]
  BY DEF IInv, TypeOK, GoTo, Phase
<1>2. QED
  BY <1>1 DEF Phase, GoTo

\* The end of a request is an answer that leaves the tables alone.
LEMMA EndAnswers ==
    ASSUME IInv, NEW r \in Requests, NEW answer \in Answers, End(r, answer),
           NEW from, PhaseOf(pc[r], req[r]) \in from
    PROVE  Promise!Ends(r, from, answer)
<1>1. /\ pc' = [pc EXCEPT ![r] = answer] /\ db' = db
      /\ req' \in {req, [req EXCEPT ![r] = None]}
      /\ \A q \in Requests \ {r} : req'[q] = req[q]
  BY DEF End, IInv, TypeOK
<1>2. Promise!Moves(r, from, PhaseOf(answer, req'[r]))
  BY <1>1, PhaseStep
<1>3. PhaseOf(answer, req'[r]) = answer
  BY PhasesOfSteps
<1>4. QED
  BY <1>1, <1>2, <1>3 DEF Promise!Ends

\* The statements between the first checks and the commit.
LEMMA SilentStatements ==
    ASSUME IInv, NEW r \in Requests, Check(r) \/ Insert(r) \/ InsertOwner(r)
    PROVE  UNCHANGED <<db, Phase, req>>
<1>1. CASE Check(r)
  <2>1. req[r] \in Operations /\ pc[r] = "check" /\ GoTo(r, First[req[r].kind])
    BY <1>1 DEF Check, IInv, Bound, InFlight, Statements
  <2>2. /\ First[req[r].kind] \in {"query", "find", "insert"}
        /\ First[req[r].kind] = "insert" => req[r].kind \notin {"register", "invite"}
    BY <2>1, Kinds DEF First
  <2>3. /\ PhaseOf(pc[r], req[r]) = "called"
        /\ PhaseOf(First[req[r].kind], req[r]) = "called"
    BY <2>1, <2>2, PhasesOfSteps DEF Statements
  <2>4. QED
    BY <2>1, <2>3, SilentStep
<1>2. CASE Insert(r)
  <2>1. GoTo(r, IF req[r].kind = "create_org" THEN "owner" ELSE "commit") /\ pc[r] = "insert"
    BY <1>2 DEF Insert
  <2>2. PhaseOf(IF req[r].kind = "create_org" THEN "owner" ELSE "commit", req[r])
            = PhaseOf(pc[r], req[r])
    BY <2>1, PhasesOfSteps DEF Statements
  <2>3. QED
    BY <2>1, <2>2, SilentStep
<1>3. CASE InsertOwner(r)
  <2>1. GoTo(r, "commit") /\ pc[r] = "owner" /\ req[r].kind = "create_org"
    BY <1>3 DEF InsertOwner, IInv, Bound
  <2>2. PhaseOf("commit", req[r]) = PhaseOf(pc[r], req[r])
    BY <2>1, PhasesOfSteps DEF Statements
  <2>3. QED
    BY <2>1, <2>2, SilentStep
<1>4. QED
  BY <1>1, <1>2, <1>3

\* The statements that look for what the operation needs or would duplicate.
LEMMA Queries ==
    ASSUME IInv, NEW r \in Requests, Find(r) \/ Query(r)
    PROVE  \/ Promise!Refuse(r) \/ Promise!Conflict(r) \/ Promise!Miss(r)
           \/ UNCHANGED <<db, Phase, req>>
<1>1. pc[r] \in {"find", "query"} /\ PhaseOf(pc[r], req[r]) = "called"
  BY PhasesOfSteps DEF Find, Query, Statements
<1>2. CASE Find(r) /\ GoTo(r, "query")
  <2>1. PhaseOf("query", req[r]) = PhaseOf(pc[r], req[r])
    BY <1>1, PhasesOfSteps DEF Statements
  <2>2. QED
    BY <1>2, <2>1, SilentStep
<1>3. CASE Find(r) /\ ~Registered(db, req[r].email) /\ End(r, "refused")
  <2>1. req[r].kind = "invite"
    BY <1>3 DEF Find, IInv, Bound
  <2>2. Promise!Ends(r, {"called"}, "refused")
    BY <1>1, <1>3, EndAnswers DEF Answers
  <2>3. QED
    BY <1>3, <2>1, <2>2, SameChecks DEF Promise!Refuse
<1>4. CASE Query(r) /\ Taken(db, req[r]) /\ End(r, "conflict")
  <2>1. Promise!Ends(r, {"called"}, "conflict")
    BY <1>1, <1>4, EndAnswers DEF Answers
  <2>2. QED
    BY <1>4, <2>1, SameChecks DEF Promise!Conflict
<1>5. CASE Query(r) /\ ~Taken(db, req[r]) /\ GoTo(r, "insert")
  <2>1. req[r].kind \in {"register", "invite"} /\ req' = req /\ db' = db
    BY <1>5 DEF Query, IInv, Bound, GoTo
  <2>2. PhaseOf("insert", req'[r]) = "missing"
    BY <2>1, PhasesOfSteps DEF Statements
  <2>3. Promise!Moves(r, {"called"}, "missing")
    BY <1>1, <1>5, <2>1, <2>2, PhaseStep DEF GoTo
  <2>4. QED
    BY <1>5, <2>1, <2>3, SameChecks DEF Promise!Miss
<1>6. QED
  BY <1>2, <1>3, <1>4, <1>5 DEF Find, Query

\* The commit is where an operation takes effect.
LEMMA CommitApplies ==
    ASSUME IInv, NEW r \in Requests, Commit(r)
    PROVE  Promise!Apply(r)
<1>1. /\ pc[r] = "commit" /\ pc' = [pc EXCEPT ![r] = "answer"] /\ req' = req
  BY DEF Commit
<1>2. /\ PhaseOf(pc[r], req[r]) \in {"called", "missing"}
      /\ PhaseOf("answer", req'[r]) = "applied"
  BY <1>1, PhasesOfSteps DEF Statements
<1>3. Promise!Moves(r, {"called", "missing"}, "applied")
  BY <1>1, <1>2, PhaseStep
<1>4. /\ Promise!Permitted(db, req[r]) /\ ~Promise!Taken(db, req[r])
      /\ db' \in Promise!Effects(db, req[r])
  BY CommitFacts, SameChecks, SameEffects
<1>5. QED
  BY <1>1, <1>3, <1>4 DEF Promise!Apply

\* Registrations, invitations and creations are atomic to their callers under
\* every interleaving of their statements and every failure: a success took
\* effect once and entirely during the request, a refusal, a conflict and an
\* error had no effect and the reason they stand for.
THEOREM RequestsAreAtomic == Spec => ImplementsTenants
<1>1. Init => Promise!Init
  BY SameOperations, PhasesOfSteps DEF Init, Promise!Init, Answers
<1>2. IInv /\ [Next]_vars => [Promise!Next]_(Promise!tenantVars)
  <2> SUFFICES ASSUME IInv, [Next]_vars
               PROVE  Promise!Next \/ UNCHANGED <<db, Phase, req>>
    BY DEF Promise!tenantVars, Phase
  <2>1. CASE UNCHANGED vars
    BY <2>1 DEF vars, Phase
  <2>2. ASSUME NEW r \in Requests, Begin(r) PROVE Promise!Call(r)
    <3>1. /\ pc' = [pc EXCEPT ![r] = "check"] /\ db' = db
          /\ \A q \in Requests \ {r} : req'[q] = req[q]
      BY <2>2 DEF Begin, IInv, TypeOK
    <3>2. PhaseOf(pc[r], req[r]) \in Answers
      BY <2>2, PhasesOfSteps DEF Begin, InFlight, IInv, TypeOK
    <3>3. PhaseOf("check", req'[r]) = "called"
      BY PhasesOfSteps DEF Statements
    <3>4. Promise!Moves(r, Answers, "called")
      BY <3>1, <3>2, <3>3, PhaseStep
    <3>5. \E op \in Promise!Operations : req' = [req EXCEPT ![r] = op]
      BY <2>2, SameOperations DEF Begin
    <3>6. QED
      BY <3>1, <3>4, <3>5 DEF Promise!Call, Promise!Answers, Answers
  <2>3. ASSUME NEW r \in Requests, Refuse(r) PROVE Promise!Refuse(r)
    <3>1. /\ End(r, "refused") /\ ~Permitted(db, req[r])
          /\ PhaseOf(pc[r], req[r]) \in {"called"}
      BY <2>3, PhasesOfSteps DEF Refuse, Statements
    <3>2. Promise!Ends(r, {"called"}, "refused")
      BY <3>1, EndAnswers DEF Answers
    <3>3. QED
      BY <3>1, <3>2, SameChecks DEF Promise!Refuse
  <2>4. ASSUME NEW r \in Requests, DuplicateKey(r) PROVE Promise!TakenSince(r)
    <3>1. /\ End(r, "error") /\ pc[r] = "insert" /\ Taken(db, req[r])
          /\ req[r].kind \in {"register", "invite"}
      BY <2>4 DEF DuplicateKey, Taken
    <3>2. PhaseOf(pc[r], req[r]) \in {"missing"}
      BY <3>1, PhasesOfSteps DEF Statements
    <3>3. Promise!Ends(r, {"missing"}, "error")
      BY <3>1, <3>2, EndAnswers DEF Answers
    <3>4. QED
      BY <3>1, <3>3, SameChecks DEF Promise!TakenSince
  <2>5. ASSUME NEW r \in Requests, UnknownAssignee(r) PROVE Promise!UnknownAssignee(r)
    <3>1. /\ End(r, "error") /\ pc[r] = "insert" /\ req[r].kind = "create_task"
          /\ Permitted(db, req[r])
      BY <2>5 DEF UnknownAssignee, IInv, Bound, Statements
    <3>2. PhaseOf(pc[r], req[r]) \in {"called"}
      BY <3>1, PhasesOfSteps DEF Statements
    <3>3. Promise!Ends(r, {"called"}, "error")
      BY <3>1, <3>2, EndAnswers DEF Answers
    <3>4. QED
      BY <3>1, <3>3, SameChecks DEF Promise!UnknownAssignee
  <2>6. ASSUME NEW r \in Requests, Answer(r) PROVE Promise!Answer(r)
    <3>1. End(r, "ok") /\ PhaseOf(pc[r], req[r]) \in {"applied"}
      BY <2>6, PhasesOfSteps DEF Answer
    <3>2. QED
      BY <3>1, EndAnswers DEF Promise!Answer, Answers
  <2>7. ASSUME NEW r \in Requests, Fail(r) PROVE Promise!Fail(r)
    <3>1. End(r, "failed") /\ PhaseOf(pc[r], req[r]) \in {"called", "missing", "applied"}
      BY <2>7, PhasesOfSteps DEF Fail, InFlight
    <3>2. QED
      BY <3>1, EndAnswers DEF Promise!Fail, Answers
  <2>8. QED
    BY <2>1, <2>2, <2>3, <2>4, <2>5, <2>6, <2>7, SilentStatements, Queries, CommitApplies
    DEF Next, Handle, Promise!Next
<1>3. QED
  BY <1>1, <1>2, TenancyInductive, PTL DEF Spec, ImplementsTenants, Promise!Spec
=============================================================================
