SPECIFICATION Spec
CONSTANTS
    Requests = {r1, r2, r3}
    CaseIds = {1, 2}
    Persons = {o1, o2}
    PersonIds = {o1, o2, x}
    Officers = {o1, o2}
    Dates = {d1}
    Today = d1
    Patches <- MCPatches
    SeedCases <- MCSeedCases
    SeedAssigned <- MCSeedAssigned
    Nil = Nil
    o1 = o1
    o2 = o2
    x = x
    d1 = d1
SYMMETRY RequestSymmetry
INVARIANTS TypeOK CloseStands ClosedIsDated OpenedOnce AssignmentStands
CHECK_DEADLOCK FALSE
