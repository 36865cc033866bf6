SPECIFICATION FairSpec
CONSTANTS
    s1 = s1
    s2 = s2
    Sessions <- MCSessions
    MaxPresses = 2
INVARIANTS WrittenOnce MessageIsTrue
PROPERTIES CallSettles FoundInTheEnd
CHECK_DEADLOCK FALSE
