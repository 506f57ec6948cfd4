CONSTANTS
    m1 = m1
    m2 = m2
    e1 = e1
    x1 = x1
    None = None
    Users = {m1, m2}
    RoleOf <- TwoReviewers
    Tasks = {t1}
    Approvals = {a1, a2}
    Requests = {r1, r2}
    CreateStatuses = {"todo"}
    PatchStatuses = {"in_progress"}
SPECIFICATION Spec
INVARIANTS DoneHasApprover
