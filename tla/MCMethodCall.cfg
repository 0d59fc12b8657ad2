SPECIFICATION Spec
CONSTANT MaxList = 2
CHECK_DEADLOCK FALSE
INVARIANTS
    WellFramed
    ArgumentsArrive
    ArgumentsInOrder
    CallsToldApart
