SPECIFICATION Spec
CONSTANTS
    Calls = 3
    Deals = {1}
    Slots = {h1, h2}
    MaxClockSkew = 1
    Cap = 2
    Ahead = 0
    Behind = 1
    MaxDelay = 1
    MaxTime = 3
    MaxRestarts = 1
SYMMETRY SlotSymmetry
INVARIANTS
    TypeOK
    ServedOnce
    AnsweredMeansServed
    AbandonedStaysHome
CHECK_DEADLOCK FALSE
