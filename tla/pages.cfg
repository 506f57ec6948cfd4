CONSTANTS
    Tasks = {t1, t2, t3, t4}
    Limit = 2
    MaxTime = 3
SPECIFICATION Spec
SYMMETRY Symmetry
INVARIANTS TypeOK NothingSkipped RepeatsBounded
