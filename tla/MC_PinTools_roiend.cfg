CONSTANTS
    RoutineNames <- MCRoutineNames
    Instrs = {"ld", "rmw", "cmov"}
    Shape <- MCShape
    Predicated = {"cmov"}
    Addrs = {"x", "y"}
    MaxDepth = 2
    MaxSteps = 5
SPECIFICATION Spec
INVARIANT RoiEndBodyNotTraced
CHECK_DEADLOCK FALSE
