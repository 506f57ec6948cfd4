CONSTANTS
    m1 = m1
    m2 = m2
    e1 = e1
    x1 = x1
    None = None
    Users = {e1}
    RoleOf <- MemberAlone
    Tasks = {t1}
    Approvals = {a1, a2}
    Requests = {r1}
    CreateStatuses = {"todo", "done"}
    PatchStatuses = {"todo"}
SPECIFICATION Spec
INVARIANTS DoneHasApprover
