SPECIFICATION Spec
CONSTANTS
    Deployments = {d1, d2, d3}
    Releases <- MCReleases
    Clients = {c1, c2}
    Absent = Absent
    testimony = testimony
INVARIANTS NeverClash ServedOnItsSchema
PROPERTIES HistorySpec MigrationEnds
CHECK_DEADLOCK FALSE
