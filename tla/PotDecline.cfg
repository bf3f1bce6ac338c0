SPECIFICATION Spec
CONSTANTS
    N = 2
    Pot = 8
    BigBlind = 2
    RefundFee = 1
    SettlementFee = 1
    FeeHeadroom = 1
    RefundDelay = 2
    FloorDelay = 0
    LadderStep = 1
    Results <- ResultsOf8
    MaxHeight = 3
INVARIANTS
    AgreedSettlementSigned
CHECK_DEADLOCK FALSE
