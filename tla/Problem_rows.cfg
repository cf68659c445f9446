SPECIFICATION Spec
CONSTANTS
  linear = linear  plain = plain  vector = vector  foreign = foreign
  Constraints <- AllConstraints
  Null = Null
  InputSize = 1
  InOf <- Ins
  OutOf <- Outs
  Differentiable <- DifferentiableOnes
  Intervals <- TwoIntervals
  Scales = {2, 3}
  Levels <- ThreeLevels
  Infinity = 100
  Sizes = {1, 2}
  MaxConstraints = 2
INVARIANTS VectorsAgree RowsKeepTheirScaling ViolationsHaveTheirSign
CHECK_DEADLOCK FALSE
