SPECIFICATION Spec
CONSTANTS
    Requests = {r1, r2, r3}
    Names = {ann, bob}
    Emails = {a1, b1}
    Passwords = {p, q}
    SeedUsers <- MCSeedUsers
    AccessLife = 1
    RefreshLife = 2
    MaxTime = 3
    ann = ann
    bob = bob
    a1 = a1
    b1 = b1
    p = p
    q = q
SYMMETRY RequestSymmetry
INVARIANTS TypeOK RegistrationsAgree
PROPERTIES SessionsEnd PasswordStands
CHECK_DEADLOCK FALSE
