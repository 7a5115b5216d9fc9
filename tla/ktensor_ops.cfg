CONSTANTS
  NModes = 2
  Dims <- MCDims
  NComps = 2
  Vals <- MCVals
  BlockLens = {1, 2, 4}
SPECIFICATION Spec
INVARIANTS TensorPreserved NormFsqExact ColumnsNormalized BlockedValueExact IsEqualDocumented
