SPECIFICATION Spec
CONSTANTS
    Players = {alice, bob, carol}
    N = 2
INVARIANTS
    TypeOK
    PlayedOnPot
    ShownTxidIsReal
PROPERTIES
    NeverDowngraded
    SessionMovesOn
CHECK_DEADLOCK FALSE
