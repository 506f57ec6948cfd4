CONSTANTS
    Users = {u1, u2}
    Orgs = {o1, o2}
    Projects = {p1}
    Tasks = {t1}
    Emails = {e1, e2}
    InviteRoles = {"admin", "member"}
    None = None
    Requests = {r1, r2}
SPECIFICATION Spec
SYMMETRY Symmetry
INVARIANTS TypeOK KeysUnique OwnerFromTheStart TenantsApart ConflictIsReal
PROPERTIES Granted ImplementsTenants
