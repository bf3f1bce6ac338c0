SPECIFICATION Spec
CONSTANTS
    N = 2
    Pot = 4
    BigBlind = 2
    RefundFee = 1
    SettlementFee = 1
    FeeHeadroom = 1
    RefundDelay = 2
    FloorDelay = 0
    LadderStep = 1
    Results <- ResultsOf4
    MaxHeight = 3
INVARIANTS
    StallPaysBalances
CHECK_DEADLOCK FALSE
