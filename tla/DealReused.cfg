SPECIFICATION Spec
CONSTANTS
    N = 2
    HoleCards = 1
    BoardCards = 1
    DeckSize = 4
    Perms <- OnePerm
    MaxHands = 1
    MaxLate = 1
    MaxRestarts = 1
INVARIANTS
    SecretsNeverReused
CHECK_DEADLOCK FALSE
