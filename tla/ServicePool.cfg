SPECIFICATION PoolSpec
CONSTANTS
    Reads = {}
    Writes = {w1, w2}
    Late = {w1}
    Probes = {h1}
    Readies = {y1}
    Tasks = {t1}
    TaskOf <- MCTaskOf
    Rows = {k1, k2}
    NoRow = NoRow
    Threads = 2
    Connections = 2
    t1 = t1
INVARIANTS NoConnectionLeaks StandstillNeedsCrowd StandstillTimesOut
PROPERTIES EveryRequestEnds
CHECK_DEADLOCK FALSE
