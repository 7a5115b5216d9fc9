CONSTANTS
    MaxConc = 2
    NModes = 2
    Rows = {1, 2}
    NzSamples = 2
    ZSamples = 1
    HaveMprev = TRUE
    UserMethods = {"Default"}
    UserAllMethods = {"Default", "Atomic", "Duplicated", "Iterated"}
    NzIndices <- MCNzIndices
    Asyncs = {FALSE, TRUE}
    Steppers = {"SGD", "Adam"}
    RowBlock = 2
    EpochIters = 1
    NComps = 64
SPECIFICATION Spec
INVARIANTS TypeOK GradientExact DispatchAccepts
CHECK_DEADLOCK FALSE
