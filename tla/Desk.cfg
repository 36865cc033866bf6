SPECIFICATION Spec
CONSTANTS
    Calls = {1, 2, 3}
    Names = {ann, bob}
    Streets = {mill, dock}
    Cities = {york, hull}
    SeedAddresses <- MCSeedAddresses
    SeedPersons <- MCSeedPersons
    Nil = Nil
    Sessions = {s1}
    OtherClients <- MCOtherClients
    SomeName = ann
    SomeAddress <- MCAddress
    ann = ann
    bob = bob
    mill = mill
    dock = dock
    york = york
    hull = hull
INVARIANTS DeskTypeOK EditStands PickedIsSaved
CHECK_DEADLOCK FALSE
