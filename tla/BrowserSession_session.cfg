CONSTANTS
    agent = agent
    sdk = sdk
    region = region
    spaced = spaced
    general = general
    beans = beans
    heap = heap
    stack = stack
    used = used
    limit = limit
    Root = Root
    NoTab = NoTab
    Titles <- MCTitles
    FirstTab = agent
    Fixed <- MCFixed
    Unlinked <- MCUnlinked
    JmxLists <- MCJmxLists
    JmxTabs <- MCJmxTabs
    JmxUnlinked <- MCJmxUnlinked
SPECIFICATION Spec
INVARIANTS
    TypeOK
    ChoiceIsShown
    OneTabPerList
PROPERTIES
    ImplementsMemory
    OutageIsSeen
    OtherListsKept
