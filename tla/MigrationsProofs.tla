-------------------------- MODULE MigrationsProofs --------------------------
(***************************************************************************)
(* The invariants of Migrations, for any number of commands, failures and  *)
(* crashes in any order.                                                   *)
(*                                                                         *)
(* All the tables and indexes of the chain can be put in one order of      *)
(* creation, in which a foreign key refers to an earlier table and an      *)
(* index is on an earlier one.  An upgrade creates the next object of this *)
(* order and a downgrade drops the last, so whatever a transaction sees is *)
(* the first n objects for some n; a version is a value of n.              *)
(***************************************************************************)
EXTENDS Migrations, SequenceTheorems, TLAPS

-----------------------------------------------------------------------------
(* The order of creation.                                                  *)

\* How many objects the schema of each version has.
End == [v \in 0..5 |-> CASE v = 0 -> 0 [] v = 1 -> 6 [] v = 2 -> 8
                         [] v = 3 -> 11 [] v = 4 -> 14 [] v = 5 -> 16]

Objects == 1..16

\* The statement that creates the n-th object.
Creation == [n \in Objects |-> CASE n \in 1..6   -> InitialSchema.up[n]
                                 [] n \in 7..8   -> AddProjects.up[n - 6]
                                 [] n \in 9..11  -> AddTasks.up[n - 8]
                                 [] n \in 12..14 -> AddLabels.up[n - 11]
                                 [] n \in 15..16 -> AddApprovals.up[n - 14]]

\* The object is a table, and not an index.
Creates(n) == Creation[n].do = "create_table"

NameOf(n) == IF Creates(n) THEN Creation[n].table.name ELSE Creation[n].index.name

\* The statement that drops the n-th object.
Undo(n) == IF Creates(n) THEN DropTable(NameOf(n)) ELSE DropIndex(NameOf(n))

\* What the first n objects are.
TablesUpTo(n)  == {Creation[m].table : m \in {k \in 1..n : Creates(k)}}
IndexesUpTo(n) == {Creation[m].index : m \in {k \in 1..n : ~Creates(k)}}
TableNames(n)  == {NameOf(m) : m \in {k \in 1..n : Creates(k)}}

\* A downgrade from version 1 also drops a type by name.
Extra(v) == IF v = 1 THEN 1 ELSE 0

Statement == {Creation[n] : n \in Objects} \cup {Undo(n) : n \in Objects}
               \cup {DropType("org_role")} \cup {Stamp(v) : v \in 0..5}

\* The object that has a name, and the table that has a type.
Position == [organizations |-> 1, users |-> 2, ix_users_email |-> 3, org_members |-> 4,
             ix_org_members_org_id |-> 5, ix_org_members_user_id |-> 6,
             projects |-> 7, ix_projects_org_id |-> 8,
             tasks |-> 9, ix_tasks_assignee_id_due_date |-> 10,
             ix_tasks_project_id_status |-> 11,
             labels |-> 12, ix_labels_org_id |-> 13, task_labels |-> 14,
             approvals |-> 15, ix_approvals_task_id |-> 16]
Owner == [org_role |-> 4, project_status |-> 7, task_status |-> 9, task_priority |-> 9,
          approval_status |-> 15]
AllTypes == {"org_role", "project_status", "task_status", "task_priority", "approval_status"}

-----------------------------------------------------------------------------
(* The inductive invariant.                                                *)

Schema == [version : 0..5, tables : SUBSET TablesUpTo(16), types : SUBSET AllTypes,
           indexes : SUBSET IndexesUpTo(16)]

\* No table is without its types.
Sound(s) == s \in Schema /\ TypesOf(s.tables) \subseteq s.types

\* No type is there that no table uses.
NoLeftovers(s) == s.types = TypesOf(s.tables)

Holds(s, n) == s.tables = TablesUpTo(n) /\ s.indexes = IndexesUpTo(n)
AtVersion(s) == Holds(s, End[s.version])

\* The statements t create the objects from n + 1 to e and stamp version v.
Creating(t, n, e, v) == /\ Len(t) = e - n + 1
                        /\ \A j \in 1..(e - n) : t[j] = Creation[n + j]
                        /\ t[e - n + 1] = Stamp(v)

\* They drop the objects from n down to b + 1 and d types, and stamp version v.
Undoing(t, n, b, d, v) == /\ Len(t) = n - b + d + 1
                          /\ \A j \in 1..(n - b) : t[j] = Undo(n - j + 1)
                          /\ d = 1 => t[n - b + 1] = DropType("org_role")
                          /\ t[n - b + d + 1] = Stamp(v)

\* An upgrade is n objects far.
UpgradeAt(n) == /\ work.version < 5
                /\ End[work.version] <= n /\ n <= End[work.version + 1]
                /\ Holds(work, n)
                /\ Creating(todo, n, End[work.version + 1], work.version + 1)

\* A downgrade has n objects left, and d types to drop.
DowngradeAt(n, d) == /\ 0 < work.version /\ work.version = schema.version
                     /\ End[work.version - 1] <= n /\ n <= End[work.version]
                     /\ d = 1 => work.version = 1
                     /\ Holds(work, n)
                     /\ Undoing(todo, n, End[work.version - 1], d, work.version - 1)

Types == /\ Sound(schema) /\ Sound(work) /\ AtVersion(schema)
         /\ todo \in Seq(Statement)
         /\ cmd \in {"upgrade", "downgrade"}

Idle == status # "running" => work = schema /\ todo = <<>>
Between == todo = <<>> => AtVersion(work)
Upgrading == Running("upgrade") /\ todo # <<>> => \E n \in 0..16 : UpgradeAt(n)
Downgrading == Running("downgrade") =>
                   /\ todo # <<>> => \E n \in 0..16, d \in 0..1 : DowngradeAt(n, d)
                   /\ todo = <<>> => work.version + 1 = schema.version

\* An upgrade leaves no type without a table behind that was not there.
NoNewLeftovers == Running("upgrade") /\ NoLeftovers(schema) => NoLeftovers(work)

WhyFailed == status = "failed" => cmd = "upgrade" /\ ~NoLeftovers(schema)

IInv == Types /\ Idle /\ Between /\ Upgrading /\ Downgrading /\ NoNewLeftovers /\ WhyFailed

-----------------------------------------------------------------------------
(* What the revisions are made of.                                         *)

(***************************************************************************)
(* Where each version ends.                                                *)
(***************************************************************************)
LEMMA EndFacts ==
  /\ End[0] = 0 /\ End[1] = 6 /\ End[2] = 8 /\ End[3] = 11 /\ End[4] = 14 /\ End[5] = 16
  /\ \A v \in 0..5 : End[v] \in 0..16
  /\ \A v \in 1..5 : End[v - 1] < End[v]
  /\ \A v \in 1..5 :
        /\ v = 1 => End[v - 1] = 0 /\ End[v] = 6
        /\ v = 2 => End[v - 1] = 6 /\ End[v] = 8
        /\ v = 3 => End[v - 1] = 8 /\ End[v] = 11
        /\ v = 4 => End[v - 1] = 11 /\ End[v] = 14
        /\ v = 5 => End[v - 1] = 14 /\ End[v] = 16
  BY DEF End

(***************************************************************************)
(* The versions, one by one.                                               *)
(***************************************************************************)
LEMMA Cases5 == \A v \in 1..5 : v = 1 \/ v = 2 \/ v = 3 \/ v = 4 \/ v = 5
  OBVIOUS

(***************************************************************************)
(* The objects, one by one.                                                *)
(***************************************************************************)
LEMMA Cases16 ==
    \A n \in 1..16 : \/ n = 1 \/ n = 2 \/ n = 3 \/ n = 4 \/ n = 5 \/ n = 6 \/ n = 7 \/ n = 8
                     \/ n = 9 \/ n = 10 \/ n = 11 \/ n = 12 \/ n = 13 \/ n = 14 \/ n = 15 \/ n = 16
  OBVIOUS

(***************************************************************************)
(* The statement that creates each object.                                 *)
(***************************************************************************)
LEMMA CreationFacts ==
  /\ Creation[1] = CreateTable("organizations", {}, {}, {})
  /\ Creation[2] = CreateTable("users", {}, {}, {})
  /\ Creation[3] = CreateIndex("ix_users_email", "users")
  /\ Creation[4] = CreateTable("org_members", {"org_role"}, {"uq_org_members_org_user"},
                               {"organizations", "users"})
  /\ Creation[5] = CreateIndex("ix_org_members_org_id", "org_members")
  /\ Creation[6] = CreateIndex("ix_org_members_user_id", "org_members")
  /\ Creation[7] = CreateTable("projects", {"project_status"}, {}, {"organizations"})
  /\ Creation[8] = CreateIndex("ix_projects_org_id", "projects")
  /\ Creation[9] = CreateTable("tasks", {"task_status", "task_priority"}, {}, {"users", "projects"})
  /\ Creation[10] = CreateIndex("ix_tasks_assignee_id_due_date", "tasks")
  /\ Creation[11] = CreateIndex("ix_tasks_project_id_status", "tasks")
  /\ Creation[12] = CreateTable("labels", {}, {"uq_labels_org_name"}, {"organizations"})
  /\ Creation[13] = CreateIndex("ix_labels_org_id", "labels")
  /\ Creation[14] = CreateTable("task_labels", {}, {}, {"labels", "tasks"})
  /\ Creation[15] = CreateTable("approvals", {"approval_status"}, {}, {"users", "tasks"})
  /\ Creation[16] = CreateIndex("ix_approvals_task_id", "approvals")
  BY DEF Creation, Objects, InitialSchema, AddProjects, AddTasks, AddLabels, AddApprovals

(***************************************************************************)
(* Which objects are tables.                                               *)
(***************************************************************************)
LEMMA KindFacts ==
  /\ \A n \in {1,2,4,7,9,12,14,15} : Creates(n)
  /\ \A n \in {3,5,6,8,10,11,13,16} : ~Creates(n) /\ Creation[n].do = "create_index"
  BY CreationFacts DEF Creates, CreateTable, CreateIndex

(***************************************************************************)
(* The name of each object.                                                *)
(***************************************************************************)
LEMMA NameFacts ==
  /\ NameOf(1) = "organizations" /\ NameOf(2) = "users" /\ NameOf(3) = "ix_users_email"
  /\ NameOf(4) = "org_members" /\ NameOf(5) = "ix_org_members_org_id"
  /\ NameOf(6) = "ix_org_members_user_id" /\ NameOf(7) = "projects" /\ NameOf(8) = "ix_projects_org_id"
  /\ NameOf(9) = "tasks" /\ NameOf(10) = "ix_tasks_assignee_id_due_date"
  /\ NameOf(11) = "ix_tasks_project_id_status" /\ NameOf(12) = "labels"
  /\ NameOf(13) = "ix_labels_org_id" /\ NameOf(14) = "task_labels" /\ NameOf(15) = "approvals"
  /\ NameOf(16) = "ix_approvals_task_id"
  BY CreationFacts, KindFacts DEF NameOf, CreateTable, CreateIndex

(***************************************************************************)
(* A name is that of one object only, be it a table or an index.           *)
(***************************************************************************)
LEMMA PositionFacts == \A n \in Objects : Position[NameOf(n)] = n
  BY NameFacts, Cases16 DEF Position, Objects

(***************************************************************************)
(* The statement that drops each object.                                   *)
(***************************************************************************)
LEMMA UndoFacts ==
  /\ Undo(16) = DropIndex("ix_approvals_task_id") /\ Undo(15) = DropTable("approvals")
  /\ Undo(14) = DropTable("task_labels") /\ Undo(13) = DropIndex("ix_labels_org_id")
  /\ Undo(12) = DropTable("labels")
  /\ Undo(11) = DropIndex("ix_tasks_project_id_status")
  /\ Undo(10) = DropIndex("ix_tasks_assignee_id_due_date") /\ Undo(9) = DropTable("tasks")
  /\ Undo(8) = DropIndex("ix_projects_org_id") /\ Undo(7) = DropTable("projects")
  /\ Undo(6) = DropIndex("ix_org_members_user_id") /\ Undo(5) = DropIndex("ix_org_members_org_id")
  /\ Undo(4) = DropTable("org_members") /\ Undo(3) = DropIndex("ix_users_email")
  /\ Undo(2) = DropTable("users") /\ Undo(1) = DropTable("organizations")
  BY NameFacts, KindFacts DEF Undo

(***************************************************************************)
(* Each revision creates the next objects and its downgrade drops them in  *)
(* the opposite order.                                                     *)
(***************************************************************************)
LEMMA Revisions ==
    /\ Chain[1].up = <<Creation[1], Creation[2], Creation[3], Creation[4], Creation[5], Creation[6]>>
    /\ Chain[2].up = <<Creation[7], Creation[8]>>
    /\ Chain[3].up = <<Creation[9], Creation[10], Creation[11]>>
    /\ Chain[4].up = <<Creation[12], Creation[13], Creation[14]>>
    /\ Chain[5].up = <<Creation[15], Creation[16]>>
    /\ Chain[1].down = <<Undo(6), Undo(5), Undo(4), Undo(3), Undo(2), Undo(1), DropType("org_role")>>
    /\ Chain[2].down = <<Undo(8), Undo(7)>>
    /\ Chain[3].down = <<Undo(11), Undo(10), Undo(9)>>
    /\ Chain[4].down = <<Undo(14), Undo(13), Undo(12)>>
    /\ Chain[5].down = <<Undo(16), Undo(15)>>
  <1>1. Chain[1] = InitialSchema /\ Chain[2] = AddProjects /\ Chain[3] = AddTasks
        /\ Chain[4] = AddLabels /\ Chain[5] = AddApprovals
    BY DEF Chain
  <1>2. /\ Chain[1].up = <<Creation[1], Creation[2], Creation[3], Creation[4], Creation[5], Creation[6]>>
        /\ Chain[1].down = <<Undo(6), Undo(5), Undo(4), Undo(3), Undo(2), Undo(1), DropType("org_role")>>
    BY <1>1, CreationFacts, UndoFacts DEF InitialSchema
  <1>3. Chain[2].up = <<Creation[7], Creation[8]>> /\ Chain[2].down = <<Undo(8), Undo(7)>>
    BY <1>1, CreationFacts, UndoFacts DEF AddProjects
  <1>4. /\ Chain[3].up = <<Creation[9], Creation[10], Creation[11]>>
        /\ Chain[3].down = <<Undo(11), Undo(10), Undo(9)>>
    BY <1>1, CreationFacts, UndoFacts DEF AddTasks
  <1>5. /\ Chain[4].up = <<Creation[12], Creation[13], Creation[14]>>
        /\ Chain[4].down = <<Undo(14), Undo(13), Undo(12)>>
    BY <1>1, CreationFacts, UndoFacts DEF AddLabels
  <1>6. Chain[5].up = <<Creation[15], Creation[16]>> /\ Chain[5].down = <<Undo(16), Undo(15)>>
    BY <1>1, CreationFacts, UndoFacts DEF AddApprovals
  <1> QED
    BY <1>2, <1>3, <1>4, <1>5, <1>6

(***************************************************************************)
(* The same by position, for the upgrades.                                 *)
(***************************************************************************)
LEMMA ChainUp ==
  ASSUME NEW v \in 1..5
  PROVE /\ Len(Chain[v].up) = End[v] - End[v - 1]
        /\ \A i \in 1..(End[v] - End[v - 1]) : Chain[v].up[i] = Creation[End[v - 1] + i]
  <1>1. Len(Chain[1].up) = 6 /\ \A i \in 1..6 : Chain[1].up[i] = Creation[i]
    BY Revisions
  <1>2. Len(Chain[2].up) = 2 /\ \A i \in 1..2 : Chain[2].up[i] = Creation[6 + i]
    BY Revisions
  <1>3. Len(Chain[3].up) = 3 /\ \A i \in 1..3 : Chain[3].up[i] = Creation[8 + i]
    BY Revisions
  <1>4. Len(Chain[4].up) = 3 /\ \A i \in 1..3 : Chain[4].up[i] = Creation[11 + i]
    BY Revisions
  <1>5. Len(Chain[5].up) = 2 /\ \A i \in 1..2 : Chain[5].up[i] = Creation[14 + i]
    BY Revisions
  <1>6. CASE v = 1
    <2>1. v = 1 /\ End[v - 1] = 0 /\ End[v] = 6
      BY <1>6, EndFacts
    <2> QED
      BY <1>1, <2>1
  <1>7. CASE v = 2
    <2>1. v = 2 /\ End[v - 1] = 6 /\ End[v] = 8
      BY <1>7, EndFacts
    <2> QED
      BY <1>2, <2>1
  <1>8. CASE v = 3
    <2>1. v = 3 /\ End[v - 1] = 8 /\ End[v] = 11
      BY <1>8, EndFacts
    <2> QED
      BY <1>3, <2>1
  <1>9. CASE v = 4
    <2>1. v = 4 /\ End[v - 1] = 11 /\ End[v] = 14
      BY <1>9, EndFacts
    <2> QED
      BY <1>4, <2>1
  <1>10. CASE v = 5
    <2>1. v = 5 /\ End[v - 1] = 14 /\ End[v] = 16
      BY <1>10, EndFacts
    <2> QED
      BY <1>5, <2>1
  <1> QED
    BY <1>6, <1>7, <1>8, <1>9, <1>10

(***************************************************************************)
(* The same for the downgrades; the first revision also drops a type by    *)
(* name.                                                                   *)
(***************************************************************************)
LEMMA ChainDown ==
  ASSUME NEW v \in 1..5
  PROVE /\ Len(Chain[v].down) = End[v] - End[v - 1] + Extra(v)
        /\ \A i \in 1..(End[v] - End[v - 1]) : Chain[v].down[i] = Undo(End[v] - i + 1)
        /\ v = 1 => Chain[v].down[7] = DropType("org_role")
  <1>1. /\ Len(Chain[1].down) = 7 /\ \A i \in 1..6 : Chain[1].down[i] = Undo(7 - i)
        /\ Chain[1].down[7] = DropType("org_role")
    BY Revisions
  <1>2. Len(Chain[2].down) = 2 /\ \A i \in 1..2 : Chain[2].down[i] = Undo(9 - i)
    BY Revisions
  <1>3. Len(Chain[3].down) = 3 /\ \A i \in 1..3 : Chain[3].down[i] = Undo(12 - i)
    BY Revisions
  <1>4. Len(Chain[4].down) = 3 /\ \A i \in 1..3 : Chain[4].down[i] = Undo(15 - i)
    BY Revisions
  <1>5. Len(Chain[5].down) = 2 /\ \A i \in 1..2 : Chain[5].down[i] = Undo(17 - i)
    BY Revisions
  <1>6. CASE v = 1
    <2>1. v = 1 /\ End[v - 1] = 0 /\ End[v] = 6
      BY <1>6, EndFacts
    <2> QED
      BY <1>1, <2>1 DEF Extra
  <1>7. CASE v = 2
    <2>1. v = 2 /\ End[v - 1] = 6 /\ End[v] = 8
      BY <1>7, EndFacts
    <2> QED
      BY <1>2, <2>1 DEF Extra
  <1>8. CASE v = 3
    <2>1. v = 3 /\ End[v - 1] = 8 /\ End[v] = 11
      BY <1>8, EndFacts
    <2> QED
      BY <1>3, <2>1 DEF Extra
  <1>9. CASE v = 4
    <2>1. v = 4 /\ End[v - 1] = 11 /\ End[v] = 14
      BY <1>9, EndFacts
    <2> QED
      BY <1>4, <2>1 DEF Extra
  <1>10. CASE v = 5
    <2>1. v = 5 /\ End[v - 1] = 14 /\ End[v] = 16
      BY <1>10, EndFacts
    <2> QED
      BY <1>5, <2>1 DEF Extra
  <1> QED
    BY <1>6, <1>7, <1>8, <1>9, <1>10

(***************************************************************************)
(* A type belongs to one table.                                            *)
(***************************************************************************)
LEMMA TypeFacts ==
  ASSUME NEW n \in Objects, Creates(n), NEW y \in Creation[n].table.types
  PROVE y \in AllTypes /\ Owner[y] = n
  BY Cases16, CreationFacts, KindFacts DEF Objects, CreateTable, Owner, AllTypes

(***************************************************************************)
(* A foreign key refers to an earlier table, and an index is on an earlier *)
(* one.                                                                    *)
(***************************************************************************)
LEMMA RefFacts ==
    ASSUME NEW n \in Objects
    PROVE  /\ Creates(n) => Creation[n].table.refs \subseteq TableNames(n - 1)
           /\ ~Creates(n) => Creation[n].index.on \in TableNames(n - 1)
  <1> DEFINE T == TableNames(n - 1)
  <1>1. \A m \in {1, 2, 4, 7, 9, 12, 14, 15} : m < n => NameOf(m) \in T
    BY KindFacts DEF TableNames, Objects
  <1> HIDE DEF T
  <1>2. CASE n \in {1, 2, 4, 7, 9, 12, 14, 15}
    BY <1>1, <1>2, CreationFacts, KindFacts, NameFacts DEF CreateTable, T
  <1>3. CASE n \in {3, 5, 6, 8, 10, 11, 13, 16}
    BY <1>1, <1>3, CreationFacts, KindFacts, NameFacts DEF CreateIndex, T
  <1> QED
    BY <1>2, <1>3, Cases16 DEF Objects

(***************************************************************************)
(* The revisions consist of the statements that are named above.           *)
(***************************************************************************)
LEMMA ChainSeq ==
    ASSUME NEW v \in 1..5
    PROVE  Chain[v].up \in Seq(Statement) /\ Chain[v].down \in Seq(Statement)
  <1> DEFINE S == Statement
  <1>1. (\A n \in 1..16 : Creation[n] \in S /\ Undo(n) \in S) /\ DropType("org_role") \in S
    BY DEF Statement, Objects
  <1> HIDE DEF S
  <1>2. \A w \in 1..5 : Chain[w].up \in Seq(S) /\ Chain[w].down \in Seq(S)
    <2>1. Chain[1].up \in Seq(S) /\ Chain[1].down \in Seq(S)
      BY <1>1, Revisions
    <2>2. Chain[2].up \in Seq(S) /\ Chain[2].down \in Seq(S)
      BY <1>1, Revisions
    <2>3. Chain[3].up \in Seq(S) /\ Chain[3].down \in Seq(S)
      BY <1>1, Revisions
    <2>4. Chain[4].up \in Seq(S) /\ Chain[4].down \in Seq(S)
      BY <1>1, Revisions
    <2>5. Chain[5].up \in Seq(S) /\ Chain[5].down \in Seq(S)
      BY <1>1, Revisions
    <2> QED
      BY <2>1, <2>2, <2>3, <2>4, <2>5, Cases5
  <1> QED
    BY <1>2 DEF S

(***************************************************************************)
(* The first n objects are the first n - 1 and the n-th.                   *)
(***************************************************************************)
LEMMA UpToStep ==
  ASSUME NEW n \in Objects
  PROVE /\ Creates(n)  => /\ TablesUpTo(n) = TablesUpTo(n - 1) \cup {Creation[n].table}
                          /\ IndexesUpTo(n) = IndexesUpTo(n - 1)
        /\ ~Creates(n) => /\ TablesUpTo(n) = TablesUpTo(n - 1)
                          /\ IndexesUpTo(n) = IndexesUpTo(n - 1) \cup {Creation[n].index}
  <1>1. 1..n = (1..(n - 1)) \cup {n}
    BY DEF Objects
  <1> QED
    BY <1>1 DEF TablesUpTo, IndexesUpTo

(***************************************************************************)
(* An object is a table or an index.                                       *)
(***************************************************************************)
LEMMA KindOf ==
  ASSUME NEW n \in Objects
  PROVE  /\ Creates(n) <=> Creation[n].do = "create_table"
         /\ ~Creates(n) <=> Creation[n].do = "create_index"
  BY KindFacts, Cases16 DEF Objects, Creates

(***************************************************************************)
(* The names of the first n objects.                                       *)
(***************************************************************************)
LEMMA NamesUpTo ==
  ASSUME NEW n \in 0..16
  PROVE  /\ Names(TablesUpTo(n)) = TableNames(n)
         /\ Names(IndexesUpTo(n)) = {NameOf(m) : m \in {k \in 1..n : ~Creates(k)}}
  BY DEF Names, TablesUpTo, IndexesUpTo, TableNames, NameOf

(***************************************************************************)
(* No two objects have the same name.                                      *)
(***************************************************************************)
LEMMA NamesDiffer ==
  ASSUME NEW n \in Objects, NEW m \in Objects, NameOf(m) = NameOf(n)
  PROVE  m = n
  BY PositionFacts

-----------------------------------------------------------------------------
(* A statement and the schema.                                             *)

(***************************************************************************)
(* What a statement that creates something asks of the schema, and what it *)
(* does to it.                                                             *)
(***************************************************************************)
LEMMA RunFacts ==
  ASSUME NEW s \in Schema, NEW n \in Objects
  PROVE  /\ Creates(n) =>
              LET w == Run(s, Creation[n])
              IN  /\ CanRun(s, Creation[n]) <=>
                        /\ NameOf(n) \notin Names(s.tables)
                        /\ Creation[n].table.types \cap s.types = {}
                        /\ Creation[n].table.refs \subseteq Names(s.tables)
                  /\ w = [version |-> s.version, tables |-> s.tables \cup {Creation[n].table},
                          types |-> s.types \cup Creation[n].table.types, indexes |-> s.indexes]
         /\ ~Creates(n) =>
              LET w == Run(s, Creation[n])
              IN  /\ CanRun(s, Creation[n]) <=>
                        /\ NameOf(n) \notin Names(s.indexes)
                        /\ Creation[n].index.on \in Names(s.tables)
                  /\ w = [version |-> s.version, tables |-> s.tables,
                          types |-> s.types, indexes |-> s.indexes \cup {Creation[n].index}]
  <1>1. CASE Creates(n)
    <2>1. Creation[n].do = "create_table" /\ NameOf(n) = Creation[n].table.name
      BY <1>1, KindOf DEF NameOf
    <2>2. CanRun(s, Creation[n]) <=>
                        /\ NameOf(n) \notin Names(s.tables)
                        /\ Creation[n].table.types \cap s.types = {}
                        /\ Creation[n].table.refs \subseteq Names(s.tables)
      BY <2>1 DEF CanRun
    <2>3. Run(s, Creation[n]) = [s EXCEPT !.tables = @ \cup {Creation[n].table},
                                          !.types = @ \cup Creation[n].table.types]
      BY <2>1 DEF Run
    <2>4. Run(s, Creation[n]) = [version |-> s.version, tables |-> s.tables \cup {Creation[n].table},
                types |-> s.types \cup Creation[n].table.types, indexes |-> s.indexes]
      BY <2>3 DEF Schema
    <2> QED
      BY <1>1, <2>2, <2>4
  <1>2. CASE ~Creates(n)
    <2>1. Creation[n].do = "create_index" /\ NameOf(n) = Creation[n].index.name
      BY <1>2, KindOf DEF NameOf
    <2>2. CanRun(s, Creation[n]) <=>
                        /\ NameOf(n) \notin Names(s.indexes)
                        /\ Creation[n].index.on \in Names(s.tables)
      BY <2>1 DEF CanRun
    <2>3. Run(s, Creation[n]) = [s EXCEPT !.indexes = @ \cup {Creation[n].index}]
      BY <2>1 DEF Run
    <2>4. Run(s, Creation[n]) = [version |-> s.version, tables |-> s.tables,
                types |-> s.types, indexes |-> s.indexes \cup {Creation[n].index}]
      BY <2>3 DEF Schema
    <2> QED
      BY <1>2, <2>2, <2>4
  <1> QED
    BY <1>1, <1>2

(***************************************************************************)
(* The next object can be created unless a type of it is there already.    *)
(***************************************************************************)
LEMMA CreateObject ==
  ASSUME NEW s \in Schema, NEW n \in Objects, Holds(s, n - 1)
  PROVE  LET w == Run(s, Creation[n])
         IN  /\ Holds(w, n) /\ w.version = s.version
             /\ CanRun(s, Creation[n]) <=> (Creates(n) => Creation[n].table.types \cap s.types = {})
             /\ w.types = IF Creates(n) THEN s.types \cup Creation[n].table.types ELSE s.types
             /\ TypesOf(w.tables) = IF Creates(n) THEN TypesOf(s.tables) \cup Creation[n].table.types
                                                  ELSE TypesOf(s.tables)
  <1>1. n - 1 \in 0..16 /\ s.tables = TablesUpTo(n - 1) /\ s.indexes = IndexesUpTo(n - 1)
    BY DEF Objects, Holds
  <1>2. NameOf(n) \notin TableNames(n - 1) /\ NameOf(n) \notin Names(s.indexes)
    <2>1. \A m \in 1..(n - 1) : NameOf(m) # NameOf(n)
      BY NamesDiffer DEF Objects
    <2> QED
      BY <1>1, <2>1, NamesUpTo DEF TableNames
  <1>3. Names(s.tables) = TableNames(n - 1)
    BY <1>1, NamesUpTo
  <1>4. CASE Creates(n)
    <2> DEFINE w == Run(s, Creation[n])
    <2>0. w = [version |-> s.version, tables |-> s.tables \cup {Creation[n].table},
               types |-> s.types \cup Creation[n].table.types, indexes |-> s.indexes]
      BY <1>4, RunFacts
    <2> HIDE DEF w
    <2>1. Holds(w, n)
       BY <1>1, <1>4, <2>0, UpToStep DEF Holds
    <2>2. CanRun(s, Creation[n]) <=> Creation[n].table.types \cap s.types = {}
       BY <1>2, <1>3, <1>4, RunFacts, RefFacts
    <2>3. TypesOf(s.tables \cup {Creation[n].table}) = TypesOf(s.tables) \cup Creation[n].table.types
       BY DEF TypesOf
    <2>4. /\ w.version = s.version /\ w.tables = s.tables \cup {Creation[n].table}
          /\ w.types = s.types \cup Creation[n].table.types
      BY <2>0
    <2> QED
      BY <1>4, <2>1, <2>2, <2>3, <2>4 DEF w
  <1>5. CASE ~Creates(n)
    <2> DEFINE w == Run(s, Creation[n])
    <2>1. w = [version |-> s.version, tables |-> s.tables,
               types |-> s.types, indexes |-> s.indexes \cup {Creation[n].index}]
       BY <1>5, RunFacts
    <2>2. CanRun(s, Creation[n])
       BY <1>2, <1>3, <1>5, RunFacts, RefFacts
    <2> HIDE DEF w
    <2>3. Holds(w, n)
       BY <1>1, <1>5, <2>1, UpToStep DEF Holds
    <2> QED
      BY <1>5, <2>1, <2>2, <2>3 DEF w
  <1> QED
    BY <1>4, <1>5

(***************************************************************************)
(* No earlier table has a type of the next one.                            *)
(***************************************************************************)
LEMMA NewTypes ==
  ASSUME NEW n \in Objects, Creates(n)
  PROVE  Creation[n].table.types \cap TypesOf(TablesUpTo(n - 1)) = {}
  <1> SUFFICES ASSUME NEW y \in Creation[n].table.types, y \in TypesOf(TablesUpTo(n - 1))
               PROVE  FALSE
    OBVIOUS
  <1>1. PICK m \in 1..(n - 1) : Creates(m) /\ y \in Creation[m].table.types
    BY DEF TypesOf, TablesUpTo
  <1> QED
    BY <1>1, TypeFacts DEF Objects

(***************************************************************************)
(* The last object can be dropped: no table that is left refers to it and  *)
(* no other index is on it.                                                *)
(***************************************************************************)
LEMMA DropObject ==
  ASSUME NEW s \in Schema, NEW n \in Objects, Holds(s, n)
  PROVE  LET w == Run(s, Undo(n))
         IN  /\ CanRun(s, Undo(n)) /\ Holds(w, n - 1)
             /\ w.version = s.version /\ w.types = s.types
             /\ w = [version |-> s.version, tables |-> w.tables, types |-> s.types, indexes |-> w.indexes]
  <1>1. s.tables = TablesUpTo(n) /\ s.indexes = IndexesUpTo(n) /\ n \in 0..16 /\ n - 1 \in 0..16
    BY DEF Holds, Objects
  <1>2. \A m \in 1..(n - 1) : m \in Objects /\ NameOf(m) # NameOf(n)
    BY NamesDiffer DEF Objects
  <1>3. CASE Creates(n)
    <2>1. Undo(n).do = "drop_table" /\ Undo(n).name = NameOf(n)
      BY <1>3 DEF Undo, DropTable
    <2>2. CanRun(s, Undo(n)) <=>
             /\ NameOf(n) \in Names(s.tables)
             /\ \A t \in s.tables : t.name # NameOf(n) => NameOf(n) \notin t.refs
      BY <2>1 DEF CanRun
    <2>3. NameOf(n) \in Names(s.tables)
      BY <1>1, <1>3, NamesUpTo DEF TableNames, Objects
    <2>4. ASSUME NEW t \in s.tables, t.name # NameOf(n)
          PROVE  NameOf(n) \notin t.refs
      <3>1. PICK m \in 1..n : Creates(m) /\ t = Creation[m].table
        BY <1>1 DEF TablesUpTo
      <3>2. m \in Objects /\ m # n
        BY <2>4, <3>1 DEF Objects, NameOf
      <3>3. t.refs \subseteq TableNames(m - 1)
        BY <3>1, <3>2, RefFacts
      <3> QED
        BY <1>2, <3>2, <3>3 DEF TableNames, Objects
    <2>5. Run(s, Undo(n)) = [s EXCEPT !.tables = {t \in @ : t.name # NameOf(n)},
                                      !.indexes = {i \in @ : i.on # NameOf(n)}]
      BY <2>1 DEF Run
    <2>6. Run(s, Undo(n)) = [version |-> s.version, tables |-> {t \in s.tables : t.name # NameOf(n)},
                             types |-> s.types, indexes |-> {i \in s.indexes : i.on # NameOf(n)}]
      BY <2>5 DEF Schema
    <2>7. {t \in s.tables : t.name # NameOf(n)} = TablesUpTo(n - 1)
      <3>1. \A t \in TablesUpTo(n - 1) : t.name # NameOf(n)
        BY <1>2 DEF TablesUpTo, NameOf
      <3>2. Creation[n].table.name = NameOf(n)
        BY <1>3 DEF NameOf
      <3> QED
        BY <1>1, <1>3, <3>1, <3>2, UpToStep
    <2>8. {i \in s.indexes : i.on # NameOf(n)} = IndexesUpTo(n - 1)
      <3>1. \A i \in IndexesUpTo(n - 1) : i.on # NameOf(n)
        <4> SUFFICES ASSUME NEW m \in 1..(n - 1), ~Creates(m)
                     PROVE  Creation[m].index.on # NameOf(n)
          BY DEF IndexesUpTo
        <4>1. Creation[m].index.on \in TableNames(m - 1)
          BY <1>2, RefFacts
        <4> QED
          BY <1>2, <4>1 DEF TableNames, Objects
      <3> QED
        BY <1>1, <1>3, <3>1, UpToStep
    <2> QED
      BY <2>2, <2>3, <2>4, <2>6, <2>7, <2>8 DEF Holds
  <1>4. CASE ~Creates(n)
    <2>1. Undo(n).do = "drop_index" /\ Undo(n).name = NameOf(n)
      BY <1>4 DEF Undo, DropIndex
    <2>2. CanRun(s, Undo(n)) <=> NameOf(n) \in Names(s.indexes)
      BY <2>1 DEF CanRun
    <2>3. NameOf(n) \in Names(s.indexes)
      BY <1>1, <1>4, NamesUpTo DEF Objects
    <2>5. Run(s, Undo(n)) = [s EXCEPT !.indexes = {i \in @ : i.name # NameOf(n)}]
      BY <2>1 DEF Run
    <2>6. Run(s, Undo(n)) = [version |-> s.version, tables |-> s.tables,
                             types |-> s.types, indexes |-> {i \in s.indexes : i.name # NameOf(n)}]
      BY <2>5 DEF Schema
    <2>7. {i \in s.indexes : i.name # NameOf(n)} = IndexesUpTo(n - 1)
      <3>1. \A i \in IndexesUpTo(n - 1) : i.name # NameOf(n)
        BY <1>2 DEF IndexesUpTo, NameOf
      <3>2. Creation[n].index.name = NameOf(n)
        BY <1>4 DEF NameOf
      <3> QED
        BY <1>1, <1>4, <3>1, <3>2, UpToStep
    <2> QED
      BY <1>1, <1>4, <2>2, <2>3, <2>6, <2>7, UpToStep DEF Holds
  <1> QED
    BY <1>3, <1>4

(***************************************************************************)
(* What the revisions up to a version have created is the first objects,   *)
(* up to its end.                                                          *)
(***************************************************************************)
LEMMA OpsUpTo ==
  ASSUME NEW v \in 0..5
  PROVE /\ {op.table : op \in {o \in Ops(v) : o.do = "create_table"}} = TablesUpTo(End[v])
        /\ {op.index : op \in {o \in Ops(v) : o.do = "create_index"}} = IndexesUpTo(End[v])
  <1>0. \A w \in 1..v : w \in 1..5
    OBVIOUS
  <1>1. ASSUME NEW w \in 1..v
        PROVE  DOMAIN Chain[w].up = 1..(End[w] - End[w - 1])
    <2>1. Chain[w].up \in Seq(Statement) /\ Len(Chain[w].up) = End[w] - End[w - 1]
      BY <1>0, ChainSeq, ChainUp
    <2> QED
      BY <2>1, LenProperties
  <1>2. \A w \in 1..v : End[w - 1] \in Nat /\ End[w] \in Nat /\ End[v] \in Nat /\ End[w] <= End[v] /\ End[v] <= 16
    BY DEF End
  <1>3. ASSUME NEW n \in 1..End[v]
        PROVE  \E w \in 1..v : End[w - 1] < n /\ n <= End[w]
    <2>1. v \in 1..5 /\ n \in 1..16
      BY EndFacts
    <2>2. CASE v = 1
      BY <2>1, <2>2, EndFacts
    <2>3. CASE v = 2
      BY <2>1, <2>3, EndFacts
    <2>4. CASE v = 3
      BY <2>1, <2>4, EndFacts
    <2>5. CASE v = 4
      BY <2>1, <2>5, EndFacts
    <2>6. CASE v = 5
      BY <2>1, <2>6, EndFacts
    <2> QED
      BY <2>1, <2>2, <2>3, <2>4, <2>5, <2>6
  <1>4. Ops(v) = {Creation[n] : n \in 1..End[v]}
    <2>1. ASSUME NEW w \in 1..v, NEW i \in DOMAIN Chain[w].up
          PROVE  \E n \in 1..End[v] : Chain[w].up[i] = Creation[n]
      <3>1. i \in 1..(End[w] - End[w - 1])
        BY <1>1
      <3>2. End[w - 1] \in Nat /\ End[w] \in Nat /\ End[v] \in Nat /\ End[w] <= End[v]
        BY <1>2
      <3>3. End[w - 1] + i \in 1..End[v]
        BY <3>1, <3>2
      <3> QED
        BY <1>0, <3>1, <3>3, ChainUp
    <2>2. ASSUME NEW n \in 1..End[v]
          PROVE  \E w \in 1..v : \E i \in DOMAIN Chain[w].up : Chain[w].up[i] = Creation[n]
      <3>1. PICK w \in 1..v : End[w - 1] < n /\ n <= End[w]
        BY <1>3
      <3>2. n - End[w - 1] \in 1..(End[w] - End[w - 1]) /\ End[w - 1] + (n - End[w - 1]) = n
        BY <1>2, <3>1
      <3>3. Chain[w].up[n - End[w - 1]] = Creation[n]
        BY <1>0, <3>2, ChainUp
      <3> QED
        BY <1>1, <3>2, <3>3
    <2> QED
      BY <2>1, <2>2 DEF Ops
  <1>5. \A n \in 1..End[v] : n \in Objects
    BY EndFacts DEF Objects
  <1> QED
    BY <1>4, <1>5, KindOf DEF TablesUpTo, IndexesUpTo

(***************************************************************************)
(* The bounds of a version's objects.                                      *)
(***************************************************************************)
LEMMA Bounds ==
  ASSUME NEW v \in 1..5
  PROVE  /\ v - 1 \in 0..5 /\ End[v - 1] \in 0..16 /\ End[v] \in 0..16 /\ End[v - 1] < End[v]
         /\ Extra(v) \in 0..1 /\ (Extra(v) = 1 => v = 1)
  BY EndFacts DEF Extra

-----------------------------------------------------------------------------
(* What is left to run.                                                    *)

(***************************************************************************)
(* A revision begins with all its objects to create.                       *)
(***************************************************************************)
LEMMA CreatingStart ==
  ASSUME NEW v \in 1..5
  PROVE  LET t == Append(Chain[v].up, Stamp(v))
         IN  t \in Seq(Statement) /\ t # <<>> /\ Creating(t, End[v - 1], End[v], v)
  <1> DEFINE u == Chain[v].up
             t == Append(u, Stamp(v))
  <1>0. /\ v \in Nat /\ End[v - 1] \in Nat /\ End[v] \in Nat /\ End[v - 1] < End[v]
    BY Bounds
  <1>1. u \in Seq(Statement) /\ Stamp(v) \in Statement
    <2>1. v \in 0..5
      OBVIOUS
    <2>2. Stamp(v) \in Statement
      BY <2>1 DEF Statement
    <2> QED
      BY <2>2, ChainSeq
  <1>2. Len(u) = End[v] - End[v - 1] /\ \A i \in 1..(End[v] - End[v - 1]) : u[i] = Creation[End[v - 1] + i]
    BY ChainUp
  <1> HIDE DEF u
  <1>3. /\ t \in Seq(Statement) /\ t # <<>> /\ Len(t) = Len(u) + 1
        /\ \A i \in 1..Len(u) : t[i] = u[i]
        /\ t[Len(u) + 1] = Stamp(v)
    BY <1>1, AppendProperties
  <1> HIDE DEF t
  <1>4. Creating(t, End[v - 1], End[v], v)
    BY <1>0, <1>2, <1>3 DEF Creating
  <1> QED
    BY <1>3, <1>4 DEF t, u

(***************************************************************************)
(* Its downgrade begins with all of them to drop.                          *)
(***************************************************************************)
LEMMA UndoingStart ==
  ASSUME NEW v \in 1..5
  PROVE  LET t == Append(Chain[v].down, Stamp(v - 1))
         IN  t \in Seq(Statement) /\ t # <<>> /\ Undoing(t, End[v], End[v - 1], Extra(v), v - 1)
  <1> DEFINE u == Chain[v].down
             t == Append(u, Stamp(v - 1))
  <1>0. /\ v \in Nat /\ End[v - 1] \in Nat /\ End[v] \in Nat /\ End[v - 1] < End[v] /\ Extra(v) \in Nat
    BY Bounds
  <1>1. u \in Seq(Statement) /\ Stamp(v - 1) \in Statement
    <2>1. v - 1 \in 0..5
      OBVIOUS
    <2>2. Stamp(v - 1) \in Statement
      BY <2>1 DEF Statement
    <2> QED
      BY <2>2, ChainSeq
  <1>2. /\ Len(u) = End[v] - End[v - 1] + Extra(v)
        /\ \A i \in 1..(End[v] - End[v - 1]) : u[i] = Undo(End[v] - i + 1)
        /\ Extra(v) = 1 => u[End[v] - End[v - 1] + 1] = DropType("org_role")
    <2>1. v = 1 => End[v] - End[v - 1] + 1 = 7
      BY EndFacts
    <2> QED
      BY <2>1, ChainDown, Bounds
  <1> HIDE DEF u
  <1>3. /\ t \in Seq(Statement) /\ t # <<>> /\ Len(t) = Len(u) + 1
        /\ \A i \in 1..Len(u) : t[i] = u[i]
        /\ t[Len(u) + 1] = Stamp(v - 1)
    BY <1>1, AppendProperties
  <1> HIDE DEF t
  <1>4. Undoing(t, End[v], End[v - 1], Extra(v), v - 1)
    BY <1>0, <1>2, <1>3 DEF Undoing
  <1> QED
    BY <1>3, <1>4 DEF t, u

(***************************************************************************)
(* The first statement and the rest.                                       *)
(***************************************************************************)
LEMMA HeadTail ==
  ASSUME NEW t \in Seq(Statement), Len(t) > 0
  PROVE  /\ t # <<>> /\ Head(t) = t[1] /\ Tail(t) \in Seq(Statement) /\ Len(Tail(t)) = Len(t) - 1
         /\ \A i \in 1..(Len(t) - 1) : Tail(t)[i] = t[i + 1]
         /\ Tail(t) = <<>> <=> Len(t) = 1
  <1>1. t # <<>> /\ Len(t) \in Nat
    BY EmptySeq, LenProperties
  <1>2. /\ Head(t) = t[1] /\ Tail(t) \in Seq(Statement) /\ Len(Tail(t)) = Len(t) - 1
        /\ \A i \in 1..Len(Tail(t)) : Tail(t)[i] = t[i + 1]
    BY <1>1, HeadTailProperties
  <1>3. Tail(t) = <<>> <=> Len(Tail(t)) = 0
    BY <1>2, EmptySeq, LenProperties
  <1> QED
    BY <1>1, <1>2, <1>3

(***************************************************************************)
(* An upgrade by one statement: the next object, or the stamp.             *)
(***************************************************************************)
LEMMA CreatingTail ==
  ASSUME NEW t \in Seq(Statement), NEW n \in Nat, NEW e \in Nat, NEW v, n <= e, Creating(t, n, e, v)
  PROVE  /\ t # <<>> /\ Tail(t) \in Seq(Statement)
         /\ n = e => Head(t) = Stamp(v) /\ Tail(t) = <<>>
         /\ n < e => Head(t) = Creation[n + 1] /\ Tail(t) # <<>> /\ Creating(Tail(t), n + 1, e, v)
  <1>1. Len(t) = e - n + 1 /\ Len(t) > 0
    BY DEF Creating
  <1>2. /\ t # <<>> /\ Head(t) = t[1] /\ Tail(t) \in Seq(Statement) /\ Len(Tail(t)) = Len(t) - 1
        /\ \A i \in 1..(Len(t) - 1) : Tail(t)[i] = t[i + 1]
        /\ Tail(t) = <<>> <=> Len(t) = 1
    BY <1>1, HeadTail
  <1>3. CASE n = e
    BY <1>1, <1>2, <1>3 DEF Creating
  <1>4. CASE n < e
    <2>1. Head(t) = Creation[n + 1] /\ Tail(t) # <<>>
      BY <1>1, <1>2, <1>4 DEF Creating
    <2>2. ASSUME NEW j \in 1..(e - (n + 1))
          PROVE  Tail(t)[j] = Creation[n + 1 + j]
      <3>1. j \in 1..(Len(t) - 1) /\ j + 1 \in 1..(e - n) /\ n + (j + 1) = n + 1 + j
        BY <1>1
      <3> QED
        BY <1>2, <3>1 DEF Creating
    <2>3. Tail(t)[e - (n + 1) + 1] = Stamp(v)
      <3>1. e - n \in 1..(Len(t) - 1) /\ e - (n + 1) + 1 = e - n
        BY <1>1, <1>4
      <3> QED
        BY <1>2, <3>1 DEF Creating
    <2>4. Len(Tail(t)) = e - (n + 1) + 1
      BY <1>1, <1>2
    <2> QED
      BY <1>2, <1>4, <2>1, <2>2, <2>3, <2>4 DEF Creating
  <1> QED
    BY <1>3, <1>4

(***************************************************************************)
(* A downgrade by one statement: the last object, the type, or the stamp.  *)
(***************************************************************************)
LEMMA UndoingTail ==
  ASSUME NEW t \in Seq(Statement), NEW n \in Nat, NEW b \in Nat, NEW d \in 0..1, NEW v,
         b <= n, Undoing(t, n, b, d, v)
  PROVE  /\ t # <<>> /\ Tail(t) \in Seq(Statement)
         /\ b < n => Head(t) = Undo(n) /\ Tail(t) # <<>> /\ Undoing(Tail(t), n - 1, b, d, v)
         /\ n = b /\ d = 1 => /\ Head(t) = DropType("org_role")
                              /\ Tail(t) # <<>> /\ Undoing(Tail(t), n, b, 0, v)
         /\ n = b /\ d = 0 => Head(t) = Stamp(v) /\ Tail(t) = <<>>
  <1>1. Len(t) = n - b + d + 1 /\ Len(t) > 0
    BY DEF Undoing
  <1>2. /\ t # <<>> /\ Head(t) = t[1] /\ Tail(t) \in Seq(Statement) /\ Len(Tail(t)) = Len(t) - 1
        /\ \A i \in 1..(Len(t) - 1) : Tail(t)[i] = t[i + 1]
        /\ Tail(t) = <<>> <=> Len(t) = 1
    BY <1>1, HeadTail
  <1>3. CASE n = b /\ d = 0
    BY <1>1, <1>2, <1>3 DEF Undoing
  <1>4. CASE n = b /\ d = 1
    <2>1. Len(t) = 2 /\ t[1] = DropType("org_role") /\ t[2] = Stamp(v)
      BY <1>1, <1>4 DEF Undoing
    <2>2. Len(Tail(t)) = 1 /\ Tail(t)[1] = Stamp(v)
      BY <1>2, <2>1
    <2>3. Undoing(Tail(t), n, b, 0, v)
      <3>1. n - b = 0 /\ n - b + 0 + 1 = 1 /\ 1..(n - b) = {}
        BY <1>4
      <3> QED
        BY <2>2, <3>1 DEF Undoing
    <2> QED
      BY <1>2, <1>4, <2>1, <2>3
  <1>5. CASE b < n
    <2>1. Head(t) = Undo(n) /\ Tail(t) # <<>>
      <3>1. 1 \in 1..(n - b) /\ n - 1 + 1 = n /\ Len(t) > 1
        BY <1>1, <1>5
      <3> QED
        BY <1>2, <3>1 DEF Undoing
    <2>2. ASSUME NEW j \in 1..(n - 1 - b)
          PROVE  Tail(t)[j] = Undo(n - 1 - j + 1)
      <3>1. j \in 1..(Len(t) - 1) /\ j + 1 \in 1..(n - b) /\ n - (j + 1) + 1 = n - 1 - j + 1
        BY <1>1
      <3> QED
        BY <1>2, <3>1 DEF Undoing
    <2>3. d = 1 => Tail(t)[n - 1 - b + 1] = DropType("org_role")
      <3>1. d = 1 => n - b \in 1..(Len(t) - 1) /\ n - 1 - b + 1 = n - b
        BY <1>1, <1>5
      <3> QED
        BY <1>2, <3>1 DEF Undoing
    <2>4. Tail(t)[n - 1 - b + d + 1] = Stamp(v)
      <3>1. /\ n - b + d \in 1..(Len(t) - 1)
            /\ n - 1 - b + d + 1 = n - b + d
        BY <1>1, <1>5
      <3> QED
        BY <1>2, <3>1 DEF Undoing
    <2>5. Len(Tail(t)) = n - 1 - b + d + 1
      BY <1>1, <1>2
    <2> QED
      BY <1>2, <1>5, <2>1, <2>2, <2>3, <2>4, <2>5 DEF Undoing
  <1> QED
    BY <1>3, <1>4, <1>5

(***************************************************************************)
(* The version can always be stamped.                                      *)
(***************************************************************************)
LEMMA StampStatement ==
  ASSUME NEW s \in Schema, NEW v \in 0..5
  PROVE  CanRun(s, Stamp(v)) /\ Run(s, Stamp(v)) = [s EXCEPT !.version = v]
  BY DEF CanRun, Run, Stamp

(***************************************************************************)
(* A type can be dropped when no table uses it.                            *)
(***************************************************************************)
LEMMA DropTypeStatement ==
  ASSUME NEW s \in Schema, NEW y
  PROVE  /\ CanRun(s, DropType(y)) <=> y \notin TypesOf(s.tables)
         /\ Run(s, DropType(y)) = [s EXCEPT !.types = @ \ {y}]
  BY DEF CanRun, Run, DropType

(***************************************************************************)
(* The chain has five revisions.                                           *)
(***************************************************************************)
LEMMA LenChain == Len(Chain) = 5
  BY DEF Chain

-----------------------------------------------------------------------------
(* The steps.                                                              *)

(***************************************************************************)
(* The empty database.                                                     *)
(***************************************************************************)
LEMMA InitKeeps == Init => IInv
  <1> SUFFICES ASSUME Init PROVE IInv
    OBVIOUS
  <1>0. End[0] = 0
    BY EndFacts
  <1>1. TablesUpTo(0) = {} /\ IndexesUpTo(0) = {}
    BY DEF TablesUpTo, IndexesUpTo
  <1>2. TypesOf({}) = {}
    BY DEF TypesOf
  <1>3. Sound(Empty) /\ AtVersion(Empty)
    BY <1>0, <1>1, <1>2 DEF Sound, AtVersion, Holds, Empty, Schema
  <1> QED
    BY <1>3, EmptySeq DEF Init, IInv, Types, Idle, Between, Upgrading, Downgrading, NoNewLeftovers,
       WhyFailed, Running

(***************************************************************************)
(* An upgrade begins with the committed schema.                            *)
(***************************************************************************)
LEMMA UpgradeHeadKeeps == ASSUME IInv, UpgradeHead PROVE IInv'
  <1>1. Types'
    BY EmptySeq DEF IInv, UpgradeHead, Types, Sound, AtVersion, Holds, Idle
  <1>2. (Idle /\ Upgrading /\ Downgrading /\ NoNewLeftovers /\ WhyFailed)'
    BY DEF IInv, UpgradeHead, Idle, Upgrading, Downgrading, NoNewLeftovers, WhyFailed, Running, NoLeftovers
  <1>3. Between'
    BY DEF IInv, UpgradeHead, Types, Between, AtVersion, Holds
  <1> QED
    BY <1>1, <1>2, <1>3 DEF IInv

(***************************************************************************)
(* A downgrade begins with the committed schema and with all its objects   *)
(* to drop.                                                                *)
(***************************************************************************)
LEMMA DowngradeKeeps == ASSUME IInv, Downgrade PROVE IInv'
  <1>1. PICK v \in 1..5 : v = schema.version /\ Holds(schema, End[v])
    BY DEF IInv, Downgrade, Types, AtVersion, Sound, Schema
  <1>2. /\ todo' \in Seq(Statement) /\ todo' # <<>>
        /\ Undoing(todo', End[v], End[v - 1], Extra(v), v - 1)
    BY <1>1, UndoingStart DEF Downgrade
  <1>3. PICK n \in 0..16, d \in 0..1 : /\ n = End[v] /\ d = Extra(v)
                                       /\ End[v - 1] <= n /\ n <= End[v] /\ 0 < v
                                       /\ d = 1 => v = 1
    BY <1>1, Bounds
  <1>4. /\ work' = schema /\ schema' = schema /\ status' = "running" /\ cmd' = "downgrade"
    BY DEF Downgrade
  <1>5. DowngradeAt(n, d)'
    BY <1>1, <1>2, <1>3, <1>4 DEF DowngradeAt, Holds
  <1>6. Types'
    BY <1>2, <1>4 DEF IInv, Types, Sound, AtVersion, Holds
  <1>7. Downgrading'
    BY <1>2, <1>5 DEF Downgrading
  <1> QED
    BY <1>2, <1>4, <1>6, <1>7 DEF IInv, Idle, Between, Upgrading, NoNewLeftovers,
       WhyFailed, Running

(***************************************************************************)
(* The upgrade goes on where the last revision has ended.                  *)
(***************************************************************************)
LEMMA NextRevisionKeeps == ASSUME IInv, NextRevision PROVE IInv'
  <1>1. PICK v \in 1..5 : v = work.version + 1 /\ v - 1 = work.version /\ Holds(work, End[v - 1])
    BY LenChain DEF IInv, NextRevision, Types, Between, AtVersion, Sound, Schema
  <1>2. todo' \in Seq(Statement) /\ todo' # <<>> /\ Creating(todo', End[v - 1], End[v], v)
    BY <1>1, CreatingStart DEF NextRevision
  <1>3. PICK n \in 0..16 : n = End[v - 1] /\ End[v - 1] <= n /\ n <= End[v]
    BY Bounds
  <1>4. /\ work' = work /\ schema' = schema /\ status' = "running" /\ cmd' = "upgrade"
    BY DEF NextRevision, Running
  <1>5. UpgradeAt(n)'
    BY <1>1, <1>2, <1>3, <1>4 DEF UpgradeAt, Holds
  <1>6. Types'
    BY <1>2, <1>4 DEF IInv, Types, Sound, AtVersion, Holds
  <1>7. NoNewLeftovers'
    BY <1>4 DEF IInv, NextRevision, NoNewLeftovers, NoLeftovers, Running
  <1>8. Upgrading'
    BY <1>5 DEF Upgrading
  <1> QED
    BY <1>2, <1>4, <1>6, <1>7, <1>8 DEF IInv, Idle, Between, Downgrading, WhyFailed, Running

(***************************************************************************)
(* A rollback goes back to the committed schema, whatever the reason.      *)
(***************************************************************************)
LEMMA RollBackKeeps ==
  ASSUME IInv, NEW o, RollBack(o), o # "running",
         o = "failed" => cmd = "upgrade" /\ ~NoLeftovers(schema)
  PROVE IInv'
  <1>1. work' = schema /\ schema' = schema /\ todo' = <<>> /\ status' = o /\ cmd' = cmd
    BY DEF RollBack
  <1>2. Types'
    BY <1>1, EmptySeq DEF IInv, Types, Sound, AtVersion, Holds
  <1>3. Between'
    BY <1>1 DEF IInv, Types, Between, AtVersion, Holds
  <1>4. WhyFailed'
    BY <1>1 DEF WhyFailed, NoLeftovers
  <1> QED
    BY <1>1, <1>2, <1>3, <1>4 DEF IInv, Idle, Upgrading, Downgrading, NoNewLeftovers, Running

(***************************************************************************)
(* A commit comes between two revisions.                                   *)
(***************************************************************************)
LEMMA CommitKeeps == ASSUME IInv, Commit PROVE IInv'
  <1>1. schema' = work /\ work' = work /\ todo' = todo /\ cmd' = cmd /\ status' = "done" /\ todo = <<>>
    BY DEF Commit
  <1>2. AtVersion(work)
    BY <1>1 DEF IInv, Between
  <1>3. Types'
    BY <1>1, <1>2 DEF IInv, Types, Sound, AtVersion, Holds
  <1>4. Between'
    BY <1>1, <1>2 DEF Between, AtVersion, Holds
  <1> QED
    BY <1>1, <1>3, <1>4 DEF IInv, Idle, Upgrading, Downgrading, NoNewLeftovers, WhyFailed, Running

(***************************************************************************)
(* A type that no table uses can go.                                       *)
(***************************************************************************)
LEMMA DropLeftoverKeeps == ASSUME IInv, DropLeftover PROVE IInv'
  <1>1. PICK y \in schema.types \ TypesOf(schema.tables) :
            schema' = [schema EXCEPT !.types = @ \ {y}]
    BY DEF DropLeftover
  <1>2. schema' = [version |-> schema.version, tables |-> schema.tables,
                   types |-> schema.types \ {y}, indexes |-> schema.indexes]
    BY <1>1 DEF IInv, Types, Sound, Schema
  <1>3. work' = schema' /\ todo' = <<>> /\ cmd' = cmd /\ status' = "idle"
    BY DEF DropLeftover, IInv, Idle
  <1>4. Sound(schema)' /\ AtVersion(schema)'
    BY <1>1, <1>2 DEF IInv, Types, Sound, Schema, AtVersion, Holds
  <1>5. Types'
    BY <1>3, <1>4, EmptySeq DEF IInv, Types, Sound, AtVersion, Holds
  <1>6. Between'
    BY <1>3, <1>4 DEF Between, AtVersion, Holds
  <1> QED
    BY <1>3, <1>5, <1>6 DEF IInv, Idle, Upgrading, Downgrading, NoNewLeftovers, WhyFailed, Running

(***************************************************************************)
(* The first objects are among all of them.                                *)
(***************************************************************************)
LEMMA UpToMonotone ==
  ASSUME NEW n \in 0..16
  PROVE  TablesUpTo(n) \subseteq TablesUpTo(16) /\ IndexesUpTo(n) \subseteq IndexesUpTo(16)
  <1>1. \A m \in 1..n : m \in 1..16
    OBVIOUS
  <1> QED
    BY <1>1 DEF TablesUpTo, IndexesUpTo

(***************************************************************************)
(* A schema in which the next object is created is a schema with its       *)
(* types.                                                                  *)
(***************************************************************************)
LEMMA CreateSound ==
  ASSUME NEW s \in Schema, Sound(s), NEW n \in Objects, Holds(s, n - 1)
  PROVE  Sound(Run(s, Creation[n]))
  <1> DEFINE w == Run(s, Creation[n])
  <1>1. n \in 0..16
    BY DEF Objects
  <1>2. Holds(w, n) /\ w.version = s.version
    BY CreateObject
  <1>3. w.tables \subseteq TablesUpTo(16) /\ w.indexes \subseteq IndexesUpTo(16)
    BY <1>1, <1>2, UpToMonotone DEF Holds
  <1>4. CASE Creates(n)
    <2>1. w = [version |-> s.version, tables |-> s.tables \cup {Creation[n].table},
               types |-> s.types \cup Creation[n].table.types, indexes |-> s.indexes]
      BY <1>4, RunFacts
    <2>2. Creation[n].table.types \subseteq AllTypes
      BY <1>4, TypeFacts
    <2>3. TypesOf(w.tables) = TypesOf(s.tables) \cup Creation[n].table.types
      BY <1>4, CreateObject
    <2> HIDE DEF w
    <2>4. w \in Schema
      BY <1>3, <2>1, <2>2 DEF Schema
    <2>5. TypesOf(w.tables) \subseteq w.types
      BY <2>1, <2>3 DEF Sound
    <2> QED
      BY <2>4, <2>5 DEF Sound, w
  <1>5. CASE ~Creates(n)
    <2>1. w = [version |-> s.version, tables |-> s.tables,
               types |-> s.types, indexes |-> s.indexes \cup {Creation[n].index}]
      BY <1>5, RunFacts
    <2> QED
      BY <1>3, <2>1 DEF Sound, Schema
  <1> QED
    BY <1>4, <1>5

(***************************************************************************)
(* The same when the last object is dropped.                               *)
(***************************************************************************)
LEMMA DropSound ==
  ASSUME NEW s \in Schema, Sound(s), NEW n \in Objects, Holds(s, n)
  PROVE  Sound(Run(s, Undo(n)))
  <1> DEFINE w == Run(s, Undo(n))
  <1>1. n \in 0..16 /\ n - 1 \in 0..16
    BY DEF Objects
  <1>2. /\ Holds(w, n - 1) /\ w.version = s.version /\ w.types = s.types
        /\ w = [version |-> s.version, tables |-> w.tables, types |-> s.types, indexes |-> w.indexes]
    BY DropObject
  <1>3. w.tables \subseteq s.tables /\ w.tables \subseteq TablesUpTo(16) /\ w.indexes \subseteq IndexesUpTo(16)
    <2>1. TablesUpTo(n - 1) \subseteq TablesUpTo(n)
      BY UpToStep
    <2> QED
      BY <1>1, <1>2, <2>1, UpToMonotone DEF Holds
  <1>5. TypesOf(w.tables) \subseteq TypesOf(s.tables)
    BY <1>3 DEF TypesOf
  <1> QED
    BY <1>2, <1>3, <1>5 DEF Sound, Schema

(***************************************************************************)
(* A statement of an upgrade preserves the invariant.                      *)
(***************************************************************************)
LEMMA StepUpKeeps == ASSUME IInv, Step, cmd = "upgrade" PROVE IInv'
  <1>1. /\ status = "running" /\ todo # <<>> /\ work' = Run(work, Head(todo)) /\ todo' = Tail(todo)
        /\ schema' = schema /\ cmd' = cmd /\ status' = status
    BY DEF Step
  <1>2. /\ Sound(work) /\ Sound(schema) /\ AtVersion(schema) /\ todo \in Seq(Statement)
        /\ work \in Schema
    BY DEF IInv, Types, Sound
  <1>3. PICK n \in 0..16 : UpgradeAt(n)
    BY <1>1 DEF IInv, Upgrading, Running
  <1>4. PICK v \in 1..5 : v = work.version + 1 /\ v - 1 = work.version
    BY <1>2, <1>3 DEF UpgradeAt, Schema
  <1>5. PICK b \in 0..16, e \in 0..16 : b = End[v - 1] /\ e = End[v] /\ b <= n /\ n <= e
    BY <1>3, <1>4, Bounds DEF UpgradeAt
  <1>6. Holds(work, n) /\ Creating(todo, n, e, v)
    BY <1>3, <1>4, <1>5 DEF UpgradeAt
  <1>7. NoLeftovers(schema) => NoLeftovers(work)
    BY <1>1 DEF IInv, NoNewLeftovers, Running
  <1>8. todo' \in Seq(Statement)
    BY <1>1, <1>2, <1>5, <1>6, CreatingTail
  <1>9. CASE n < e
    <2>1. PICK m \in Objects : m = n + 1 /\ n = m - 1 /\ m \in 0..16 /\ b <= m /\ m <= e
      BY <1>5, <1>9 DEF Objects
    <2>2. Head(todo) = Creation[m] /\ todo' # <<>> /\ Creating(todo', m, e, v)
      <3>1. n \in Nat /\ e \in Nat
        OBVIOUS
      <3>2. Head(todo) = Creation[n + 1] /\ Tail(todo) # <<>> /\ Creating(Tail(todo), n + 1, e, v)
        BY <1>2, <1>5, <1>6, <1>9, <3>1, CreatingTail
      <3> QED
        BY <1>1, <2>1, <3>2
    <2>3. work' = Run(work, Creation[m])
      BY <1>1, <2>2
    <2>4. /\ Holds(work', m) /\ work'.version = work.version /\ Sound(work')
          /\ work'.types = IF Creates(m) THEN work.types \cup Creation[m].table.types ELSE work.types
          /\ TypesOf(work'.tables) = IF Creates(m) THEN TypesOf(work.tables) \cup Creation[m].table.types
                                                   ELSE TypesOf(work.tables)
      BY <1>2, <1>6, <2>1, <2>3, CreateObject, CreateSound
    <2>5. UpgradeAt(m)'
      BY <1>3, <1>4, <1>5, <2>1, <2>2, <2>4 DEF UpgradeAt, Holds
    <2>6. Upgrading'
      BY <2>1, <2>5 DEF Upgrading
    <2>7. NoNewLeftovers'
      BY <1>1, <1>7, <2>4 DEF NoNewLeftovers, NoLeftovers
    <2>8. Types'
      BY <1>1, <1>2, <1>8, <2>4 DEF IInv, Types, Sound, AtVersion, Holds
    <2> QED
      BY <1>1, <2>2, <2>6, <2>7, <2>8 DEF IInv, Idle, Between, Downgrading, WhyFailed, Running
  <1>10. CASE n = e
    <2>1. Head(todo) = Stamp(v) /\ todo' = <<>>
      <3>1. e \in Nat /\ e <= e /\ Creating(todo, e, e, v)
        BY <1>6, <1>10
      <3> QED
        BY <1>1, <1>2, <3>1, CreatingTail
    <2>2. work' = [work EXCEPT !.version = v]
      BY <1>1, <1>2, <2>1, StampStatement
    <2>3. work' = [version |-> v, tables |-> work.tables, types |-> work.types, indexes |-> work.indexes]
      BY <1>2, <2>2 DEF Schema
    <2>4. Sound(work') /\ AtVersion(work')
      BY <1>2, <1>5, <1>6, <1>10, <2>3 DEF Sound, Schema, AtVersion, Holds
    <2>5. Types'
      BY <1>1, <1>2, <1>8, <2>4 DEF IInv, Types, Sound, AtVersion, Holds
    <2>6. NoNewLeftovers'
      BY <1>1, <1>7, <2>3 DEF NoNewLeftovers, NoLeftovers
    <2>7. Between'
      BY <2>4 DEF Between, AtVersion, Holds
    <2> QED
      BY <1>1, <2>1, <2>5, <2>6, <2>7 DEF IInv, Idle, Upgrading, Downgrading, WhyFailed, Running
  <1> QED
    BY <1>5, <1>9, <1>10

(***************************************************************************)
(* Where a downgrade is, with the bounds by name.                          *)
(***************************************************************************)
LEMMA RunningDowngrade ==
  ASSUME IInv, status = "running", todo # <<>>, cmd = "downgrade"
  PROVE  \E n \in 0..16, b \in 0..16, d \in 0..1, u \in 0..4 :
            /\ b = End[u] /\ b <= n /\ (d = 1 => u = 0)
            /\ Holds(work, n) /\ Undoing(todo, n, b, d, u)
  <1>1. PICK n \in 0..16, d \in 0..1 : DowngradeAt(n, d)
    BY DEF IInv, Downgrading, Running
  <1>2. PICK u \in 0..4 : u = work.version - 1 /\ (work.version = 1 => u = 0)
    BY <1>1 DEF IInv, Types, Sound, Schema, DowngradeAt
  <1>3. PICK b \in 0..16 : b = End[u]
    BY EndFacts
  <1>4. b <= n /\ (d = 1 => u = 0) /\ Holds(work, n) /\ Undoing(todo, n, b, d, u)
    BY <1>1, <1>2, <1>3 DEF DowngradeAt
  <1> QED
    BY <1>3, <1>4

(***************************************************************************)
(* Every statement of a downgrade can be run.                              *)
(***************************************************************************)
LEMMA DowngradeCanRun ==
  ASSUME IInv, status = "running", todo # <<>>, cmd = "downgrade"
  PROVE  CanRun(work, Head(todo))
  <1>1. work \in Schema /\ todo \in Seq(Statement)
    BY DEF IInv, Types, Sound
  <1>2. PICK n \in 0..16, b \in 0..16, d \in 0..1, u \in 0..4 :
            /\ b = End[u] /\ b <= n /\ (d = 1 => u = 0)
            /\ Holds(work, n) /\ Undoing(todo, n, b, d, u)
    BY RunningDowngrade
  <1>3. CASE b < n
    <2>1. n \in Objects /\ n \in Nat /\ b \in Nat
      BY <1>3 DEF Objects
    <2>2. Head(todo) = Undo(n)
      BY <1>1, <1>2, <1>3, <2>1, UndoingTail
    <2> QED
      BY <1>1, <1>2, <2>1, <2>2, DropObject
  <1>4. CASE n = b /\ d = 1
    <2>1. b = 0
      BY <1>2, <1>4, EndFacts
    <2>2. Head(todo) = DropType("org_role")
      <3>1. n \in Nat /\ b \in Nat
        OBVIOUS
      <3> QED
        BY <1>1, <1>2, <1>4, <3>1, UndoingTail
    <2>3. TypesOf(work.tables) = {}
      BY <1>2, <1>4, <2>1 DEF Holds, TablesUpTo, TypesOf
    <2> QED
      BY <1>1, <2>2, <2>3, DropTypeStatement
  <1>5. CASE n = b /\ d = 0
    <2>1. n \in Nat /\ b \in Nat /\ u \in 0..5
      OBVIOUS
    <2>2. Head(todo) = Stamp(u)
      BY <1>1, <1>2, <1>5, <2>1, UndoingTail
    <2> QED
      BY <1>1, <2>1, <2>2, StampStatement
  <1> QED
    BY <1>2, <1>3, <1>4, <1>5

(***************************************************************************)
(* A statement of a downgrade preserves the invariant.                     *)
(***************************************************************************)
LEMMA StepDownKeeps == ASSUME IInv, Step, cmd = "downgrade" PROVE IInv'
  <1>1. /\ status = "running" /\ todo # <<>> /\ work' = Run(work, Head(todo)) /\ todo' = Tail(todo)
        /\ schema' = schema /\ cmd' = cmd /\ status' = status
    BY DEF Step
  <1>2. /\ Sound(work) /\ Sound(schema) /\ AtVersion(schema) /\ todo \in Seq(Statement)
        /\ work \in Schema
    BY DEF IInv, Types, Sound
  <1>3. PICK n \in 0..16, d \in 0..1 : DowngradeAt(n, d)
    BY <1>1 DEF IInv, Downgrading, Running
  <1>4. PICK v \in 1..5, u \in 0..4 : v = work.version /\ u = v - 1
    BY <1>2, <1>3 DEF DowngradeAt, Schema
  <1>5. PICK b \in 0..16, e \in 0..16 : b = End[u] /\ e = End[v] /\ b <= n /\ n <= e
    BY <1>3, <1>4, Bounds DEF DowngradeAt
  <1>6. /\ Holds(work, n) /\ Undoing(todo, n, b, d, u) /\ (d = 1 => v = 1)
        /\ schema.version = v
    BY <1>3, <1>4, <1>5 DEF DowngradeAt
  <1>7. n \in Nat /\ b \in Nat
    OBVIOUS
  <1>8. todo' \in Seq(Statement)
    BY <1>1, <1>2, <1>5, <1>6, <1>7, UndoingTail
  <1>9. CASE b < n
    <2>1. PICK m \in 0..16 : m = n - 1 /\ b <= m /\ m <= e
      BY <1>5, <1>9
    <2>2. n \in Objects
      BY <1>9 DEF Objects
    <2>3. Head(todo) = Undo(n) /\ todo' # <<>> /\ Undoing(todo', m, b, d, u)
      BY <1>1, <1>2, <1>5, <1>6, <1>7, <1>9, <2>1, UndoingTail
    <2>4. Holds(work', m) /\ work'.version = v /\ Sound(work')
      BY <1>1, <1>2, <1>4, <1>6, <2>1, <2>2, <2>3, DropObject, DropSound
    <2>5. DowngradeAt(m, d)'
      <3>1. work'.version = v /\ schema'.version = v
        BY <1>1, <1>6, <2>4
      <3>2. /\ 0 < work'.version /\ work'.version - 1 = u
            /\ End[work'.version - 1] = b /\ End[work'.version] = e
        BY <1>4, <1>5, <3>1
      <3> QED
        BY <1>6, <2>1, <2>3, <2>4, <3>1, <3>2 DEF DowngradeAt, Holds
    <2>6. Downgrading'
      BY <2>3, <2>5 DEF Downgrading
    <2>7. Types'
      BY <1>1, <1>2, <1>8, <2>4 DEF IInv, Types, Sound, AtVersion, Holds
    <2> QED
      BY <1>1, <2>3, <2>6, <2>7 DEF IInv, Idle, Between, Upgrading, NoNewLeftovers, WhyFailed, Running
  <1>10. CASE n = b /\ d = 1
    <2>1. Head(todo) = DropType("org_role") /\ todo' # <<>> /\ Undoing(todo', n, b, 0, u)
      BY <1>1, <1>2, <1>5, <1>6, <1>7, <1>10, UndoingTail
    <2>2. work' = [work EXCEPT !.types = @ \ {"org_role"}]
      BY <1>1, <1>2, <2>1, DropTypeStatement
    <2>3. work' = [version |-> work.version, tables |-> work.tables,
                   types |-> work.types \ {"org_role"}, indexes |-> work.indexes]
      BY <1>2, <2>2 DEF Schema
    <2>4. b = 0
      BY <1>4, <1>5, <1>6, <1>10, EndFacts
    <2>5. TypesOf(work.tables) = {}
      BY <1>6, <1>10, <2>4 DEF Holds, TablesUpTo, TypesOf
    <2>6. Sound(work') /\ Holds(work', n) /\ work'.version = v
      BY <1>2, <1>4, <1>6, <2>3, <2>5 DEF Sound, Schema, Holds
    <2>7. DowngradeAt(n, 0)'
      <3>1. work'.version = v /\ schema'.version = v
        BY <1>1, <1>6, <2>6
      <3>2. /\ 0 < work'.version /\ work'.version - 1 = u
            /\ End[work'.version - 1] = b /\ End[work'.version] = e
        BY <1>4, <1>5, <3>1
      <3> QED
        BY <1>5, <2>1, <2>6, <3>1, <3>2 DEF DowngradeAt, Holds
    <2>8. Downgrading'
      <3>1. 0 \in 0..1 /\ (\E m \in 0..16, c \in 0..1 : DowngradeAt(m, c)')
        BY <2>7
      <3> QED
        BY <2>1, <3>1 DEF Downgrading
    <2>9. Types'
      BY <1>1, <1>2, <1>8, <2>6 DEF IInv, Types, Sound, AtVersion, Holds
    <2> QED
      BY <1>1, <2>1, <2>8, <2>9 DEF IInv, Idle, Between, Upgrading, NoNewLeftovers, WhyFailed, Running
  <1>11. CASE n = b /\ d = 0
    <2>1. Head(todo) = Stamp(u) /\ todo' = <<>>
      <3>1. Head(todo) = Stamp(u) /\ Tail(todo) = <<>>
        BY <1>2, <1>5, <1>6, <1>7, <1>11, UndoingTail
      <3> QED
        BY <1>1, <3>1
    <2>2. work' = [work EXCEPT !.version = u]
      BY <1>1, <1>2, <1>4, <2>1, StampStatement
    <2>3. work' = [version |-> u, tables |-> work.tables, types |-> work.types, indexes |-> work.indexes]
      BY <1>2, <2>2 DEF Schema
    <2>4. Sound(work') /\ AtVersion(work')
      BY <1>2, <1>5, <1>6, <1>11, <2>3 DEF Sound, Schema, AtVersion, Holds
    <2>5. Types'
      BY <1>1, <1>2, <1>8, <2>4 DEF IInv, Types, Sound, AtVersion, Holds
    <2>6. Between'
      BY <2>4 DEF Between, AtVersion, Holds
    <2>7. Downgrading'
      BY <1>1, <1>4, <1>6, <2>1, <2>3 DEF Downgrading
    <2> QED
      BY <1>1, <2>1, <2>5, <2>6, <2>7 DEF IInv, Idle, Upgrading, NoNewLeftovers, WhyFailed, Running
  <1> QED
    BY <1>5, <1>9, <1>10, <1>11

(***************************************************************************)
(* A statement that fails is a CREATE TABLE of an upgrade whose type is    *)
(* there without a table.                                                  *)
(***************************************************************************)
LEMMA FailureHasLeftovers == ASSUME IInv, Error PROVE cmd = "upgrade" /\ ~NoLeftovers(schema)
  <1>1. status = "running" /\ todo # <<>> /\ ~CanRun(work, Head(todo))
    BY DEF Error
  <1>2. cmd = "upgrade"
    BY <1>1, DowngradeCanRun DEF IInv, Types
  <1>3. work \in Schema /\ todo \in Seq(Statement)
    BY DEF IInv, Types, Sound
  <1>4. PICK n \in 0..16 : UpgradeAt(n)
    BY <1>1, <1>2 DEF IInv, Upgrading, Running
  <1>5. PICK v \in 1..5 : v = work.version + 1
    BY <1>3, <1>4 DEF UpgradeAt, Schema
  <1>6. PICK e \in 0..16 : e = End[v] /\ n <= e
    BY <1>4, <1>5, Bounds DEF UpgradeAt
  <1>7. Holds(work, n) /\ Creating(todo, n, e, v)
    BY <1>4, <1>5, <1>6 DEF UpgradeAt
  <1>8. CASE n < e
    <2>1. PICK m \in Objects : m = n + 1 /\ n = m - 1
      BY <1>6, <1>8 DEF Objects
    <2>2. n \in Nat /\ e \in Nat
      OBVIOUS
    <2>3. Head(todo) = Creation[m]
      BY <1>3, <1>6, <1>7, <1>8, <2>1, <2>2, CreatingTail
    <2>4. Creates(m) /\ Creation[m].table.types \cap work.types # {}
      BY <1>1, <1>3, <1>7, <2>1, <2>3, CreateObject
    <2>5. work.types # TypesOf(work.tables)
      BY <1>7, <2>1, <2>4, NewTypes DEF Holds
    <2> QED
      BY <1>1, <1>2, <2>5 DEF IInv, NoNewLeftovers, NoLeftovers, Running
  <1>9. CASE n = e
    <2>1. Head(todo) = Stamp(v)
      <3>1. e \in Nat /\ e <= e /\ Creating(todo, e, e, v)
        BY <1>7, <1>9
      <3> QED
        BY <1>3, <3>1, CreatingTail
    <2>2. v \in 0..5
      OBVIOUS
    <2> QED
      BY <1>1, <1>3, <2>1, <2>2, StampStatement
  <1> QED
    BY <1>6, <1>8, <1>9

-----------------------------------------------------------------------------
(* The theorems.                                                           *)

(***************************************************************************)
(* The invariant holds in every behavior: whatever a transaction sees is   *)
(* the first objects of the order of creation, and what is left to run     *)
(* begins with the next or the last of them.                               *)
(***************************************************************************)
THEOREM MigrationsInductive == Spec => []IInv
  <1>1. Init => IInv
    BY InitKeeps
  <1>2. IInv /\ [Next]_vars => IInv'
    <2> SUFFICES ASSUME IInv, [Next]_vars PROVE IInv'
      OBVIOUS
    <2>1. CASE UpgradeHead
      BY <2>1, UpgradeHeadKeeps
    <2>2. CASE Downgrade
      BY <2>2, DowngradeKeeps
    <2>3. CASE NextRevision
      BY <2>3, NextRevisionKeeps
    <2>4. CASE Step
      BY <2>4, StepUpKeeps, StepDownKeeps DEF IInv, Types
    <2>5. CASE Error
      BY <2>5, FailureHasLeftovers, RollBackKeeps DEF Error
    <2>6. CASE Crash
      BY <2>6, RollBackKeeps DEF Crash
    <2>7. CASE Commit
      BY <2>7, CommitKeeps
    <2>8. CASE DropLeftover
      BY <2>8, DropLeftoverKeeps
    <2>9. CASE UNCHANGED vars
      BY <2>9 DEF vars, IInv, Types, Sound, AtVersion, Holds, Idle, Between, Upgrading, Downgrading,
         UpgradeAt, DowngradeAt, NoNewLeftovers, NoLeftovers, WhyFailed, Running
    <2> QED
      BY <2>1, <2>2, <2>3, <2>4, <2>5, <2>6, <2>7, <2>8, <2>9 DEF Next
  <1> QED
    BY <1>1, <1>2, PTL DEF Spec

(***************************************************************************)
(* Wherever a command fails or is killed, the committed schema is that of  *)
(* its version (revisions/0001..0005): each downgrade undoes its upgrade,  *)
(* types aside.                                                            *)
(***************************************************************************)
THEOREM CommittedSchema == Spec => []SchemaMatchesVersion
  <1>1. IInv => SchemaMatchesVersion
    <2> SUFFICES ASSUME IInv PROVE SchemaMatchesVersion
      OBVIOUS
    <2>1. PICK v \in 0..5 : v = schema.version
      BY DEF IInv, Types, Sound, Schema
    <2>2. Holds(schema, End[v]) /\ TypesOf(schema.tables) \subseteq schema.types
      BY <2>1 DEF IInv, Types, AtVersion, Sound
    <2> QED
      BY <2>1, <2>2, OpsUpTo DEF SchemaMatchesVersion, Holds
  <1> QED
    BY <1>1, MigrationsInductive, PTL

(***************************************************************************)
(* A command does all of its work or nothing of it                         *)
(* (context.begin_transaction in env.py).                                  *)
(***************************************************************************)
THEOREM CommandsAreAtomic == Spec => AllOrNothing
  <1>1. IInv /\ [Next]_vars =>
          [schema'.version # schema.version =>
             schema'.version = IF cmd = "upgrade" THEN Len(Chain) ELSE schema.version - 1]_vars
    <2> SUFFICES ASSUME IInv, Next, schema'.version # schema.version
                 PROVE  schema'.version = IF cmd = "upgrade" THEN Len(Chain) ELSE schema.version - 1
      OBVIOUS
    <2>1. CASE Commit
      <3>1. schema' = work /\ status = "running" /\ todo = <<>>
        BY <2>1 DEF Commit
      <3>2. CASE cmd = "upgrade"
        BY <2>1, <3>1, <3>2 DEF Commit
      <3>3. CASE cmd = "downgrade"
        <4>1. work.version + 1 = schema.version
          BY <3>1, <3>3 DEF IInv, Downgrading, Running
        <4>2. work.version \in 0..5 /\ schema.version \in 0..5
          BY DEF IInv, Types, Sound, Schema
        <4> QED
          BY <3>1, <3>3, <4>1, <4>2
      <3> QED
        BY <3>2, <3>3 DEF IInv, Types
    <2>2. CASE DropLeftover
      <3>1. schema'.version = schema.version
        BY <2>2 DEF DropLeftover, IInv, Types, Sound, Schema
      <3> QED
        BY <3>1
    <2>3. CASE UpgradeHead \/ Downgrade \/ NextRevision \/ Step \/ Error \/ Crash
      BY <2>3 DEF UpgradeHead, Downgrade, NextRevision, Step, Error, Crash, RollBack
    <2> QED
      BY <2>1, <2>2, <2>3 DEF Next
  <1> QED
    BY <1>1, MigrationsInductive, PTL DEF Spec, AllOrNothing

(***************************************************************************)
(* A downgrade never fails: it drops things in an order that foreign keys  *)
(* and types allow.                                                        *)
(***************************************************************************)
THEOREM DowngradesSucceed == Spec => []DowngradeNeverFails
  <1>1. IInv => DowngradeNeverFails
    BY DEF IInv, WhyFailed, DowngradeNeverFails
  <1> QED
    BY <1>1, MigrationsInductive, PTL

(***************************************************************************)
(* An upgrade that is not killed fails only on types that a downgrade has  *)
(* left behind.                                                            *)
(***************************************************************************)
THEOREM OnlyLeftoversFail == Spec => []FailsOnlyOnLeftovers
  <1>1. IInv => FailsOnlyOnLeftovers
    BY DEF IInv, WhyFailed, NoLeftovers, FailsOnlyOnLeftovers
  <1> QED
    BY <1>1, MigrationsInductive, PTL

(***************************************************************************)
(* The tables and indexes of the head are those that the models declare.   *)
(***************************************************************************)
LEMMA HeadObjects ==
  /\ TablesUpTo(16) = ModelTables
  /\ IndexesUpTo(16) = UNION {m.indexes : m \in Models}
  <1>1. TablesUpTo(16) = {Creation[n].table : n \in {1, 2, 4, 7, 9, 12, 14, 15}}
    BY KindFacts, Cases16 DEF TablesUpTo
  <1>2. IndexesUpTo(16) = {Creation[n].index : n \in {3, 5, 6, 8, 10, 11, 13, 16}}
    BY KindFacts, Cases16 DEF IndexesUpTo
  <1>3. {Creation[n].table : n \in {1, 2, 4, 7, 9, 12, 14, 15}} = ModelTables
    <2>1. /\ Organization.table = Creation[1].table /\ User.table = Creation[2].table
          /\ OrgMember.table = Creation[4].table /\ Project.table = Creation[7].table
          /\ Task.table = Creation[9].table /\ Label.table = Creation[12].table
          /\ TaskLabel.table = Creation[14].table /\ Approval.table = Creation[15].table
      BY CreationFacts DEF CreateTable, Declared, Organization, User, OrgMember, Project, Task,
         Label, TaskLabel, Approval
    <2> QED
      BY <2>1 DEF ModelTables, Models
  <1>4. {Creation[n].index : n \in {3, 5, 6, 8, 10, 11, 13, 16}} = UNION {m.indexes : m \in Models}
    <2>1. /\ Organization.indexes = {} /\ User.indexes = {Creation[3].index}
          /\ OrgMember.indexes = {Creation[5].index, Creation[6].index}
          /\ Project.indexes = {Creation[8].index}
          /\ Task.indexes = {Creation[10].index, Creation[11].index}
          /\ Label.indexes = {Creation[13].index} /\ TaskLabel.indexes = {}
          /\ Approval.indexes = {Creation[16].index}
      BY CreationFacts DEF CreateIndex, Declared, Organization, User, OrgMember, Project, Task,
         Label, TaskLabel, Approval
    <2> QED
      BY <2>1 DEF Models
  <1> QED
    BY <1>1, <1>2, <1>3, <1>4

(***************************************************************************)
(* The enum types of the models are all the types there are.               *)
(***************************************************************************)
LEMMA HeadTypes == TypesOf(ModelTables) = AllTypes
  <1>1. /\ Organization.table.types = {} /\ User.table.types = {}
        /\ OrgMember.table.types = {"org_role"} /\ Project.table.types = {"project_status"}
        /\ Task.table.types = {"task_status", "task_priority"} /\ Label.table.types = {}
        /\ TaskLabel.table.types = {} /\ Approval.table.types = {"approval_status"}
    BY DEF Declared, Organization, User, OrgMember, Project, Task, Label, TaskLabel, Approval
  <1> QED
    BY <1>1 DEF TypesOf, ModelTables, Models, AllTypes

(***************************************************************************)
(* At the head the schema has the tables, enum types, indexes and unique   *)
(* constraints that the models declare (what alembic check compares).      *)
(***************************************************************************)
THEOREM HeadIsModels == Spec => []HeadMatchesModels
  <1>1. IInv => HeadMatchesModels
    <2> SUFFICES ASSUME IInv, schema.version = 5
                 PROVE  /\ schema.tables = ModelTables
                        /\ schema.indexes = UNION {m.indexes : m \in Models}
                        /\ schema.types = TypesOf(ModelTables)
      BY LenChain DEF HeadMatchesModels
    <2>1. Holds(schema, 16) /\ schema.types \subseteq AllTypes /\ TypesOf(schema.tables) \subseteq schema.types
      BY EndFacts DEF IInv, Types, AtVersion, Sound, Schema
    <2> QED
      BY <2>1, HeadObjects, HeadTypes DEF Holds
  <1> QED
    BY <1>1, MigrationsInductive, PTL

=============================================================================
