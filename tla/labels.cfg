SPECIFICATION Spec
CONSTANTS
    u1 = u1
    u2 = u2
    o1 = o1
    o2 = o2
    t1 = t1
    Users = {u1, u2}
    Orgs = {o1, o2}
    Names = {bug}
    Tasks = {t1}
    LabelIds = {l1, l2}
    None = None
    OrgOf <- MCOrgOf
    MembersOf <- MCMembersOf
    Requests = {r1, r2}
INVARIANTS
    TypeOK
    NamesUnique
    SameOrg
    ConflictIsReal
PROPERTY
    ImplementsLabelBoard
