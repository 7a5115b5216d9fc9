CONSTANTS
  Methods = {"trad", "fedopt"}
  FedAvg = FALSE
  MaxEpochs = 3
  EpochIters = 2
  DpIters = 2
  LossVals = {1999, 2000, 2001, 2003}
  NaN = NaN
  None = None
SPECIFICATION Spec
INVARIANTS TypeOK RollbackKept BestIsMinimum ImprovementNeverRejected
PROPERTY BestSnapshotRefined
