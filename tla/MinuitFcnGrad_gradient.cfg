CONSTANTS
    p0 = p0
    p1 = p1
    p2 = p2
    b = b
    Workers = {w1, w2}
    Points = {p0, p1, p2, b}
    Setups <- AllSetups
    Origin = Origin
    Starts = {p0, b}
    Unset = Unset
    Wall = Wall
    NoValue = NoValue
    None = None
SPECIFICATION Spec
INVARIANTS TypeOK OneFunctionOnMaster OneFunctionOnWorkers CentralValue GradientAtPoint
SYMMETRY Symmetry
