SPECIFICATION Spec
CONSTANTS
    N = 2
    HoleCards = 1
    BoardCards = 1
    DeckSize = 4
    Perms <- TwoPerms
    MaxReplays = 1
INVARIANTS
    TypeOK
    ReadIsRight
    QuietDecks
CHECK_DEADLOCK FALSE
