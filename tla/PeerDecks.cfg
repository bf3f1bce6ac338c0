SPECIFICATION Spec
CONSTANTS
    N = 2
    HoleCards = 1
    BoardCards = 1
    DeckSize = 4
    Perms <- TwoPerms
    MaxReplays = 0
INVARIANTS
    SameFinalDeck
CHECK_DEADLOCK FALSE
