\* Three requests in one task: safety and the refinement of Docket.
SPECIFICATION Spec
CONSTANTS
    Requests = {r1, r2, r3}
    Tasks = {t1}
    Cases = {c2}
    CaseIds = {c2, cX}
    TrialIds <- MCTrialIds
    Persons = {p1}
    PersonIds = {p1, pX}
    Dates = {d1}
    Courts = {}
    SeedTrials <- OneSeed
    Nil = Nil
    Keep = Keep
    Free = Free
    c1 = c1
    c2 = c2
    cX = cX
    p1 = p1
    pX = pX
    d1 = d1
    d2 = d2
    k1 = k1
SYMMETRY RequestSymmetry
INVARIANTS TypeOK NumbersContiguous NumberNeverTaken AnsweredIsCommitted
PROPERTIES DocketSpec
CHECK_DEADLOCK FALSE
