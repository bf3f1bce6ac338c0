SPECIFICATION FairSpec
CONSTANTS
    N = 2
    Pot = 6
    BigBlind = 2
    RefundFee = 2
    SettlementFee = 3
    FeeHeadroom = 2
    RefundDelay = 2
    FloorDelay = 0
    LadderStep = 1
    Results <- ResultsOf6
    MaxHeight = 3
INVARIANTS
    TypeOK
    LadderDescends
    DealtOnCurrentRefund
PROPERTIES
    ImplementsEscrow
    StaleRefundLoses
    ExitEnds
CHECK_DEADLOCK FALSE
