CONSTANTS
    Workers = {w1, w2}
    NEventTasks = 2
    NComponentTasks = 2
    Subsidiary = {1}
    Points = {p0, p1}
    InitPoint = p0
    DisableAfterFork = FALSE
    MaxEvaluations = 3
    MaxSettings = 3
    NoOffset = NoOffset
    NoPoint = NoPoint
    NotSent = NotSent
    Garbage = Garbage
SPECIFICATION Spec
INVARIANTS TypeOK OffsetsFollow
PROPERTY ImplementsSerial
CHECK_DEADLOCK FALSE
