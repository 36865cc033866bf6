\* Two requests on two tasks and two cases, under fair scheduling and health checks.
SPECIFICATION FairSpec
CONSTANTS
    Requests = {r1, r2}
    Tasks = {t1, t2}
    Cases = {c1, c2}
    CaseIds = {c1, c2}
    TrialIds <- MCTrialIds
    Persons = {p1}
    PersonIds = {p1, pX}
    Dates = {d1}
    Courts = {}
    SeedTrials <- MCSeedTrials
    Nil = Nil
    Keep = Keep
    Free = Free
    c1 = c1
    c2 = c2
    cX = cX
    p1 = p1
    pX = pX
    d1 = d1
    d2 = d2
    k1 = k1
PROPERTIES EveryRequestSettles
CHECK_DEADLOCK FALSE
