CONSTANTS
    RoutineNames <- MCRoutineNames
    Instrs = {"ld", "rmw", "cmov"}
    Shape <- MCShape
    Predicated = {"cmov"}
    Addrs = {"x", "y"}
    MaxDepth = 2
    MaxSteps = 5
SPECIFICATION Spec
INVARIANT TypeOK
INVARIANT RoiTraceExact
INVARIANT MissTraceAddrs
CHECK_DEADLOCK FALSE
