SPECIFICATION Spec
CONSTANTS
    BYTE = 4
    SCALE = 8
    Unit = 12
    Routes = {"user", "kernel", "none"}
    NumWorkers = {1, 2, 3}
    MaxAbs = {12, 63, 96}
    Gradients <- MCGradients
    NoLane = NoLane
CHECK_DEADLOCK FALSE
INVARIANTS SumExact ReportedModular ReportedClose
