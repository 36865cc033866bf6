\* A judge assigned while a hearing of the same trial is being recorded, in one task.
SPECIFICATION UnsupervisedSpec
CONSTANTS
    Requests = {r1, r2}
    Tasks = {t1}
    Cases = {c2}
    CaseIds = {c2}
    TrialIds <- MCTrialIds
    Persons = {p1}
    PersonIds = {p1}
    Dates = {d1}
    Courts = {}
    SeedTrials <- OneSeed
    Nil = Nil
    Keep = Keep
    Free = Free
    c1 = c1
    c2 = c2
    cX = cX
    p1 = p1
    pX = pX
    d1 = d1
    d2 = d2
    k1 = k1
PROPERTIES HealthAnswered
CHECK_DEADLOCK FALSE
