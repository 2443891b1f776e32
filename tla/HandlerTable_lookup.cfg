SPECIFICATION TableSpec
CONSTANTS
    h1 = h1  h2 = h2  h3 = h3  c1 = c1  a1 = a1  a2 = a2
    Null = Null
    Handler <- ThreeHandlers
    Cloud <- OneCloud
    ActionType <- TwoActions
    MaxVersion = 3
SYMMETRY Symmetry
INVARIANTS NewestHandlerFound RecentActionFound
CHECK_DEADLOCK FALSE
