-------------------------------- MODULE Rbac --------------------------------
(***************************************************************************)
(* The role hierarchy of an organization (app/core/rbac.py) and the values *)
(* of the org_role enum (app/models/org_member.py).                        *)
(***************************************************************************)
EXTENDS Naturals

OrgRole == {"owner", "admin", "manager", "member"}

RoleRank == [role \in OrgRole |-> CASE role = "member"  -> 1
                                    [] role = "manager" -> 2
                                    [] role = "admin"   -> 3
                                    [] role = "owner"   -> 4]

\* A role carries every permission of the roles below it.
RoleSatisfies(actual, minimum) == RoleRank[actual] >= RoleRank[minimum]
=============================================================================
