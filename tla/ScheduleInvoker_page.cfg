SPECIFICATION Spec
CONSTANTS
    Request = {r1, r2, r3, r4}
    Null = Null
INVARIANTS
    TasksInOnePlace
PROPERTIES
    AcceptedIsExecuted
CHECK_DEADLOCK FALSE
