\* Three overlapping punishment requests.
SPECIFICATION Spec
CONSTANTS
    Requests = {r1, r2, r3}
    Cases = {case1}
    Trials = {t1}
    CaseOf <- MCCaseOf
    TrialIds = {t1, tX}
    Persons = {a, b}
    PersonIds = {a, b, x}
    PersonLists <- MCLists
    Columns <- MCColumns
    Values <- MCValues
    Sentences <- MCSentences
    SeedCriminals = {a}
    SeedPunished <- MCSeedPunished
    Nil = Nil
    NoRow = NoRow
    t1 = t1
    tX = tX
    case1 = case1
    a = a
    b = b
    x = x
INVARIANTS TypeOK EveryoneOrNobody GivenFieldsStand OrderedListsNeverDeadlock
SYMMETRY RequestSymmetry
CHECK_DEADLOCK FALSE
