SPECIFICATION Spec
CONSTANTS
    p1 = p1  p2 = p2  w1 = w1  w2 = w2  n1 = n1  n2 = n2  n3 = n3  t1 = t1  t2 = t2
    Null = Null
    Thread <- TwoThreads
    Tenant <- OneTenant
    Name <- TwoNames
    NetworkId <- TwoIds
    MayFail = FALSE
PROPERTIES NamesRegisteredOnce
