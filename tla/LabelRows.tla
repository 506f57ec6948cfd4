----------------------------- MODULE LabelRows ------------------------------
(***************************************************************************)
(* The rows of the labels and task_labels tables and their unique keys,    *)
(* shared by the abstract specification LabelBoard and by Labels.          *)
(*                                                                         *)
(* An operation is named by the key it is about: <<organization, name>>    *)
(* for the creation of a label, <<task, label>> for attaching and          *)
(* detaching one.  The organization of a task (through its project) and    *)
(* the members of an organization are constants: no route changes the      *)
(* first, and the second only grows.  The routes ask for the lowest role,  *)
(* so that any membership will do.                                         *)
(***************************************************************************)
CONSTANTS Users,      \* registered, active users
          Orgs,       \* organizations
          Names,      \* label names
          Tasks,      \* tasks
          LabelIds,   \* the label ids Postgres may generate
          None,       \* no row, no user, no key
          OrgOf,      \* the organization of each task's project
          MembersOf   \* the members of each organization

ASSUME LabelsAssumption ==
    /\ OrgOf \in [Tasks -> Orgs]
    /\ MembersOf \in [Orgs -> SUBSET Users]
    /\ None \notin Orgs \X Names            \* an id without a row is told from a label

NameKeys == Orgs \X Names
PairKeys == Tasks \X LabelIds

Operations == [kind : {"create"}, user : Users, key : NameKeys]
                \cup [kind : {"attach", "detach"}, user : Users, key : PairKeys]

\* labels maps an id to the organization and name of its row, None without.
LabelTable == [LabelIds -> NameKeys \cup {None}]

HasLabel(labels, key) == \E l \in LabelIds : labels[l] = key

\* The organization in which an operation asks for a role.
OrgAsked(op) == IF op.kind = "create" THEN op.key[1] ELSE OrgOf[op.key[1]]

Permitted_AnyLabel(labels, op) == op.user \in MembersOf[OrgAsked(op)]

\* require_org_role or require_task_role, and before an attachment
\* _get_label_in_tasks_org: the label exists, in the organization of the task.
Permitted(labels, op) ==
    /\ op.user \in MembersOf[OrgAsked(op)]
    /\ op.kind = "attach" => /\ labels[op.key[2]] # None
                             /\ labels[op.key[2]][1] = OrgOf[op.key[1]]
=============================================================================
