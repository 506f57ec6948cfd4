CONSTANTS
    m1 = m1
    m2 = m2
    e1 = e1
    x1 = x1
    None = None
    Users = {m1}
    RoleOf <- OneReviewer
    Tasks = {t1, t2}
    Approvals = {a1, a2}
    Requests = {r1, r2}
    CreateStatuses = {"in_progress", "done"}
    PatchStatuses = {"in_progress", "done"}
SPECIFICATION OverlapSpec
SYMMETRY Symmetry
INVARIANTS RequestBinding UnexposedDoneHasApprover UnexposedOnePending
PROPERTIES ImplementsContract UnexposedDecisionsStand
