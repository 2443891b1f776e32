SPECIFICATION Spec
CONSTANTS
    r1 = r1  m1 = m1  m2 = m2  a1 = a1  i1 = i1  i2 = i2
    t1 = t1  t2 = t2  f1 = f1  v1 = v1  Null = Null
    Thread <- TwoThreads
    Region <- OneRegion
    Mode <- TwoModes
    Alias <- OneAlias
    TenantId <- TwoIds
    Description <- NoDescription
    Field <- OneField
    Checked <- OneField
    Value <- OneValue
    Offered <- Commands
SYMMETRY Alike
INVARIANTS TypeOK TenantModeConfigured AtMostOneDefault
PROPERTIES MoveIsComplete ImplementsPolicy
