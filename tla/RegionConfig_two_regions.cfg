SPECIFICATION Spec
CONSTANTS
    a1 = a1  a2 = a2  id1 = id1  id2 = id2  s1 = s1  f1 = f1  v1 = v1
    p1 = p1  n1 = n1  i1 = i1  i2 = i2  i3 = i3  t1 = t1
    Null = Null
    Thread <- OneThread
    Alias <- TwoAliases
    RegionId <- TwoIds
    ShapeId <- OneShape
    Field <- OneField
    Value <- OneValue
    Mapping <- OneMapping
    NativeId <- OneNative
    ImageId <- ThreeImages
    Offered <- Commands
    MaxEdited = 2
INVARIANTS ImagesRegisteredOnce
