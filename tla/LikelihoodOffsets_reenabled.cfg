CONSTANTS
    Workers = {w1, w2}
    NEventTasks = 2
    NComponentTasks = 1
    Subsidiary = {}
    Points = {p0, p1}
    InitPoint = p0
    DisableAfterFork = TRUE
    MaxEvaluations = 3
    MaxSettings = 3
    NoOffset = NoOffset
    NoPoint = NoPoint
    NotSent = NotSent
    Garbage = Garbage
SPECIFICATION Spec
INVARIANTS OffsetsFollow
CHECK_DEADLOCK FALSE
