CONSTANTS
    Grid <- MCGrid
    TDims <- MCTDims
    Tensor <- MCTensorSparse
    Garbage = Garbage
    BatchNz = 4
    BatchZ = 4
    ValueNz = 100000
    ValueZ = 100000
    MaxEpochs = 1000
    EpochSize = "none"
SPECIFICATION SetupSpec
INVARIANTS
    InitFactorsFinite
