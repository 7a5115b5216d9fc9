CONSTANTS
  Methods = {"trad"}
  FedAvg = FALSE
  MaxEpochs = 3
  EpochIters = 2
  DpIters = 1
  LossVals <- NegativeLossVals
  NaN = NaN
  None = None
SPECIFICATION Spec
INVARIANTS ImprovementNeverRejected
