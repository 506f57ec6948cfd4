----------------------------- MODULE Migrations -----------------------------
(***************************************************************************)
(* The chain of migrations and the alembic commands that walk it.          *)
(*                                                                         *)
(* Of the schema the model keeps the tables, the enum types, and the       *)
(* indexes and named unique constraints.  A command runs all its           *)
(* revisions in one transaction (context.begin_transaction of env.py, and  *)
(* DDL is transactional in PostgreSQL): work is the schema as the          *)
(* transaction sees it, todo what is left to run.  Creating a table        *)
(* creates the types of its columns and fails if one is there; dropping    *)
(* it drops its indexes and leaves the types.                              *)
(***************************************************************************)
EXTENDS Naturals, Sequences

CreateTable(t, types, keys, refs) ==
    [do |-> "create_table", table |-> [name |-> t, types |-> types, keys |-> keys, refs |-> refs]]
CreateIndex(i, t) == [do |-> "create_index", index |-> [name |-> i, on |-> t]]
DropTable(t) == [do |-> "drop_table", name |-> t]
DropIndex(i) == [do |-> "drop_index", name |-> i]
DropType(y)  == [do |-> "drop_type", name |-> y]
Stamp(v)     == [do |-> "stamp", version |-> v]   \* UPDATE alembic_version

InitialSchema ==
    [up   |-> <<CreateTable("organizations", {}, {}, {}),
                CreateTable("users", {}, {}, {}),
                CreateIndex("ix_users_email", "users"),
                CreateTable("org_members", {"org_role"}, {"uq_org_members_org_user"},
                            {"organizations", "users"}),
                CreateIndex("ix_org_members_org_id", "org_members"),
                CreateIndex("ix_org_members_user_id", "org_members")>>,
     down |-> <<DropIndex("ix_org_members_user_id"), DropIndex("ix_org_members_org_id"),
                DropTable("org_members"),
                DropIndex("ix_users_email"), DropTable("users"),
                DropTable("organizations"), DropType("org_role")>>]

AddProjects ==
    [up   |-> <<CreateTable("projects", {"project_status"}, {}, {"organizations"}),
                CreateIndex("ix_projects_org_id", "projects")>>,
     down |-> <<DropIndex("ix_projects_org_id"), DropTable("projects")>>]

AddTasks ==
    [up   |-> <<CreateTable("tasks", {"task_status", "task_priority"}, {}, {"users", "projects"}),
                CreateIndex("ix_tasks_assignee_id_due_date", "tasks"),
                CreateIndex("ix_tasks_project_id_status", "tasks")>>,
     down |-> <<DropIndex("ix_tasks_project_id_status"),
                DropIndex("ix_tasks_assignee_id_due_date"), DropTable("tasks")>>]

AddLabels_LabelsFirst ==
    [up   |-> <<CreateTable("labels", {}, {"uq_labels_org_name"}, {"organizations"}),
                CreateIndex("ix_labels_org_id", "labels"),
                CreateTable("task_labels", {}, {}, {"labels", "tasks"})>>,
     down |-> <<DropIndex("ix_labels_org_id"), DropTable("labels"), DropTable("task_labels")>>]

AddLabels_NoIndex ==
    [up   |-> <<CreateTable("labels", {}, {"uq_labels_org_name"}, {"organizations"}),
                CreateTable("task_labels", {}, {}, {"labels", "tasks"})>>,
     down |-> <<DropTable("task_labels"), DropTable("labels")>>]

AddLabels ==
    [up   |-> <<CreateTable("labels", {}, {"uq_labels_org_name"}, {"organizations"}),
                CreateIndex("ix_labels_org_id", "labels"),
                CreateTable("task_labels", {}, {}, {"labels", "tasks"})>>,
     down |-> <<DropTable("task_labels"), DropIndex("ix_labels_org_id"), DropTable("labels")>>]

AddApprovals ==
    [up   |-> <<CreateTable("approvals", {"approval_status"}, {}, {"users", "tasks"}),
                CreateIndex("ix_approvals_task_id", "approvals")>>,
     down |-> <<DropIndex("ix_approvals_task_id"), DropTable("approvals")>>]

\* What a model declares: its table with the enum types, the named unique
\* constraints and the tables its foreign keys refer to; and its indexes.
Declared(t, types, keys, refs, indexes) ==
    [table   |-> [name |-> t, types |-> types, keys |-> keys, refs |-> refs],
     indexes |-> {[name |-> i, on |-> t] : i \in indexes}]

Organization == Declared("organizations", {}, {}, {}, {})
User      == Declared("users", {}, {}, {}, {"ix_users_email"})
OrgMember == Declared("org_members", {"org_role"}, {"uq_org_members_org_user"},
                      {"organizations", "users"},
                      {"ix_org_members_org_id", "ix_org_members_user_id"})
Project   == Declared("projects", {"project_status"}, {}, {"organizations"}, {"ix_projects_org_id"})
Task      == Declared("tasks", {"task_status", "task_priority"}, {}, {"projects", "users"},
                      {"ix_tasks_project_id_status", "ix_tasks_assignee_id_due_date"})
Label     == Declared("labels", {}, {"uq_labels_org_name"}, {"organizations"}, {"ix_labels_org_id"})
TaskLabel == Declared("task_labels", {}, {}, {"tasks", "labels"}, {})
Approval  == Declared("approvals", {"approval_status"}, {}, {"tasks", "users"},
                      {"ix_approvals_task_id"})

Models == {Organization, User, OrgMember, Project, Task, Label, TaskLabel, Approval}
ModelTables == {m.table : m \in Models}

Chain_TasksFirst == <<InitialSchema, AddTasks, AddProjects, AddLabels, AddApprovals>>

\* Each revision's down_revision is the one before it.
Chain == <<InitialSchema, AddProjects, AddTasks, AddLabels, AddApprovals>>

VARIABLES schema,  \* the schema as committed
          work,    \* as the transaction of the command sees it
          todo,    \* what is left of the revision that is run
          cmd,     \* the command that runs or ran last
          status   \* whether it runs, and how it ended

vars == <<schema, work, todo, cmd, status>>

Empty == [version |-> 0, tables |-> {}, types |-> {}, indexes |-> {}]

Init == /\ schema = Empty
        /\ work = Empty
        /\ todo = <<>>
        /\ cmd = "upgrade"
        /\ status = "idle"

Names(S) == {x.name : x \in S}
TypesOf(tables) == UNION {t.types : t \in tables}

\* PostgreSQL runs the statement.
CanRun(s, op) ==
    CASE op.do = "create_table" -> /\ op.table.name \notin Names(s.tables)
                                   /\ op.table.types \cap s.types = {}
                                   /\ op.table.refs \subseteq Names(s.tables)
      [] op.do = "create_index" -> /\ op.index.name \notin Names(s.indexes)
                                   /\ op.index.on \in Names(s.tables)
      [] op.do = "drop_table"   -> /\ op.name \in Names(s.tables)
                                   /\ \A t \in s.tables : t.name # op.name => op.name \notin t.refs
      [] op.do = "drop_index"   -> op.name \in Names(s.indexes)
      [] op.do = "drop_type"    -> op.name \notin TypesOf(s.tables)   \* checkfirst
      [] OTHER                  -> TRUE

Run(s, op) ==
    CASE op.do = "create_table" -> [s EXCEPT !.tables = @ \cup {op.table},
                                             !.types = @ \cup op.table.types]
      [] op.do = "create_index" -> [s EXCEPT !.indexes = @ \cup {op.index}]
      [] op.do = "drop_table"   -> [s EXCEPT !.tables = {t \in @ : t.name # op.name},
                                             !.indexes = {i \in @ : i.on # op.name}]
      [] op.do = "drop_index"   -> [s EXCEPT !.indexes = {i \in @ : i.name # op.name}]
      [] op.do = "drop_type"    -> [s EXCEPT !.types = @ \ {op.name}]
      [] OTHER                  -> [s EXCEPT !.version = op.version]

\* alembic upgrade head
UpgradeHead == /\ status # "running"
               /\ schema.version < Len(Chain)
               /\ status' = "running"
               /\ cmd' = "upgrade"
               /\ work' = schema
               /\ todo' = <<>>
               /\ UNCHANGED schema

\* alembic downgrade -1
Downgrade == /\ status # "running"
             /\ schema.version > 0
             /\ status' = "running"
             /\ cmd' = "downgrade"
             /\ work' = schema
             /\ todo' = Append(Chain[schema.version].down, Stamp(schema.version - 1))
             /\ UNCHANGED schema

Running(c) == status = "running" /\ cmd = c

\* The upgrade goes on to the next revision.
NextRevision == /\ Running("upgrade")
                /\ todo = <<>>
                /\ work.version < Len(Chain)
                /\ todo' = Append(Chain[work.version + 1].up, Stamp(work.version + 1))
                /\ UNCHANGED <<schema, work, cmd, status>>

Step_Autocommit ==
    /\ status = "running" /\ todo # <<>> /\ CanRun(work, Head(todo))
    /\ work' = Run(work, Head(todo))
    /\ schema' = work'
    /\ todo' = Tail(todo)
    /\ UNCHANGED <<cmd, status>>

Step == /\ status = "running"
        /\ todo # <<>>
        /\ CanRun(work, Head(todo))
        /\ work' = Run(work, Head(todo))
        /\ todo' = Tail(todo)
        /\ UNCHANGED <<schema, cmd, status>>

\* The transaction is rolled back.
RollBack(outcome) == /\ status' = outcome
                     /\ work' = schema
                     /\ todo' = <<>>
                     /\ UNCHANGED <<schema, cmd>>

\* DuplicateObjectError and the like.
Error == /\ status = "running"
         /\ todo # <<>>
         /\ ~CanRun(work, Head(todo))
         /\ RollBack("failed")

Crash == status = "running" /\ RollBack("crashed")

\* transaction_per_migration
Commit_PerRevision ==
    /\ status = "running" /\ todo = <<>>
    /\ schema' = work
    /\ status' = IF cmd = "upgrade" /\ work.version < Len(Chain) THEN "running" ELSE "done"
    /\ UNCHANGED <<work, todo, cmd>>

Commit == /\ status = "running"
          /\ todo = <<>>
          /\ cmd = "upgrade" => work.version = Len(Chain)
          /\ schema' = work
          /\ status' = "done"
          /\ UNCHANGED <<work, todo, cmd>>

\* An operator removes by hand a type that no table uses.
DropLeftover == /\ status # "running"
                /\ \E y \in schema.types \ TypesOf(schema.tables) :
                       schema' = [schema EXCEPT !.types = @ \ {y}]
                /\ work' = schema'
                /\ status' = "idle"
                /\ UNCHANGED <<todo, cmd>>

Next == \/ UpgradeHead \/ Downgrade \/ NextRevision \/ Step \/ Error
        \/ Crash \/ Commit \/ DropLeftover

Spec == Init /\ [][Next]_vars

-----------------------------------------------------------------------------
(* Properties *)

\* What the revisions up to a version have created.
Ops(version) == UNION {{Chain[v].up[i] : i \in DOMAIN Chain[v].up} : v \in 1..version}

\* Wherever a command fails or is killed, the committed schema is that of its
\* version: each downgrade undoes its upgrade (types aside), and the next
\* command finds what its revisions expect.
SchemaMatchesVersion ==
    /\ schema.tables = {op.table : op \in {o \in Ops(schema.version) : o.do = "create_table"}}
    /\ schema.indexes = {op.index : op \in {o \in Ops(schema.version) : o.do = "create_index"}}
    /\ TypesOf(schema.tables) \subseteq schema.types

\* A downgrade drops things in an order that foreign keys and types allow.
DowngradeNeverFails == status = "failed" => cmd = "upgrade"

\* alembic check: at the head the schema has the tables, enum types, indexes
\* and unique constraints that the models declare, no more and no fewer.
HeadMatchesModels ==
    schema.version = Len(Chain) =>
        /\ schema.tables = ModelTables
        /\ schema.indexes = UNION {m.indexes : m \in Models}
        /\ schema.types = TypesOf(ModelTables)

\* An upgrade that is not killed fails for one reason only: the types that a
\* downgrade has left behind.
FailsOnlyOnLeftovers == status = "failed" => schema.types # TypesOf(schema.tables)

\* A command does all of its work or nothing of it: the committed version moves
\* to the head by an upgrade and to the one before by a downgrade, and never
\* else, also where the command fails or is killed between two revisions.
AllOrNothing ==
    [][schema'.version # schema.version =>
           schema'.version = IF cmd = "upgrade" THEN Len(Chain) ELSE schema.version - 1]_vars

\* The README: `alembic upgrade head` applies all pending migrations, also
\* after `alembic downgrade -1`.
UpgradeReachesHead == Running("upgrade") /\ todo # <<>> => CanRun(work, Head(todo))
=============================================================================
