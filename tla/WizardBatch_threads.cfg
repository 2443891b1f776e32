SPECIFICATION BatchSpec
CONSTANTS
    a1 = a1  id1 = id1  id2 = id2  s1 = s1  s2 = s2  f1 = f1  v1 = v1
    p1 = p1  n1 = n1  i1 = i1  i2 = i2  t1 = t1  t2 = t2
    Null = Null
    NoBatch = NoBatch
    Thread <- TwoThreads
    Alias <- OneAlias
    RegionId <- TwoIds
    ShapeId <- Shapes
    Field <- OneField
    Value <- OneValue
    Mapping <- OneMapping
    NativeId <- OneNative
    ImageId <- TwoImages
    Offered <- Commands
    MaxEdited = 1
    Wizard <- Wizards
    Runner <- OneRunner
SYMMETRY Alike
INVARIANTS
    TypeOK ShapesDistinct RegionsHaveCounters DoublesAreExplained
     
PROPERTIES ShapesOnlyGrow ImplementsRegistry
