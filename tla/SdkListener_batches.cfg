SPECIFICATION FairSpec
CONSTANTS
    s1 = s1  s2 = s2  x1 = x1
    Null = Null
    SyncMessage <- TwoSync
    AsyncMessage <- OneAsync
    ActionCount <- Sizes
    MaxLosses = 1
INVARIANTS
    Conserved
    HandledPerDelivery
    AnswersAreTrue
    Answered
PROPERTIES
    EverySettled
CHECK_DEADLOCK FALSE
