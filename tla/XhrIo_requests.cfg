CONSTANTS
    app = app
    watch = watch
    Types <- MCTypes
    Registered <- MCRegistered
    Again = {"complete"}
    MaxRequests = 2
    MaxEntries = 3
SPECIFICATION Spec
CHECK_DEADLOCK FALSE
INVARIANTS
    LifecycleOrder
    FreeOrActive
    MonitorReleased
    WalksAreLocked
PROPERTIES
    EveryRequestEnds
