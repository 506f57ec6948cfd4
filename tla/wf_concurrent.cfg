CONSTANTS
    m1 = m1
    m2 = m2
    e1 = e1
    x1 = x1
    None = None
    Users = {m1, e1}
    RoleOf <- ManagerAndMember
    Tasks = {t1}
    Approvals = {a1, a2}
    Requests = {r1, r2}
    CreateStatuses = {"in_progress", "done"}
    PatchStatuses = {"in_progress", "done", "unset", "null"}
SPECIFICATION Spec
SYMMETRY Symmetry
INVARIANTS TypeOK AuditTrail RequestBinding LockDiscipline NoWaitCycle
PROPERTIES MoveToDoneIsAnApproval ImplementsAuditLog
