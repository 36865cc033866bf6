SPECIFICATION Spec
CONSTANTS
    Requests = {r1, r2, r3}
    Evidence = {e1, e2}
    EvidenceIds = {e1, e2, eX}
    Types = {pdf, png}
    SentTypes = {pdf, png, exe}
    MaxSize = 2
    Sizes = {1, 2, 3, 4}
    Notes = {n1}
    Keys <- MCKeys
    KeyOf <- MCKeyOf
    SeedKey <- MCSeedKey
    SeedFile <- MCSeedFile
    Nil = Nil
    e1 = e1
    e2 = e2
    eX = eX
    pdf = pdf
    png = png
    exe = exe
SYMMETRY RequestSymmetry
INVARIANTS TypeOK FileOfAnsweredUpload UploadStands
CHECK_DEADLOCK FALSE
