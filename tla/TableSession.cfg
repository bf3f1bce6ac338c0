SPECIFICATION FocusSpec
CONSTANTS
    Players = {p1, p2}
    N = 2
    PublicKinds <- Public
    PrivateKinds <- Reveals
    MaxSent = 3
    MaxServed = 1
SYMMETRY Symmetry
INVARIANTS
    TypeOK
    PrivateOnce
    HandledPerReplay
    HandledIsLogged
    ReplayCoversTail
PROPERTIES
    RosterFrozen
CHECK_DEADLOCK FALSE
