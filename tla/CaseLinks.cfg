SPECIFICATION Spec
CONSTANTS
    Requests = {r1, r2}
    CaseIds = {c1, cX}
    PersonIds = {a, b, x}
    EvidenceIds <- MCEvidenceIds
    EvidenceLists <- MCEvidenceLists
    SuspectLists <- MCSuspectLists
    Texts = {t1, t2}
    SeedRows <- MCSeedRows
    New = New
    Nil = Nil
    c1 = c1
    cX = cX
    a = a
    b = b
    x = x
    e1 = e1
    e2 = e2
    t1 = t1
    t2 = t2
SYMMETRY RequestSymmetry
INVARIANTS LinksAreGrounded AllOrNothing OnlyDisorderDeadlocks
CHECK_DEADLOCK FALSE
