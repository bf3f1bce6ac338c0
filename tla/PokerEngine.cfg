SPECIFICATION TablesSpec
CONSTANTS
    N = 4
    SmallBlind = 1
    BigBlind = 3
    Stacks = {1, 2, 4, 5, 6, 7}
    Scores = {0, 1}
INVARIANTS
    TypeOK
    SeatAccounts
    BoardMatchesStreet
    SomeoneActs
    StreetsMatched
    PotPaidExactly
    SidePotsFair
PROPERTIES
    RaisesAreFull
    HandShortens
    HandEnds
CHECK_DEADLOCK FALSE
