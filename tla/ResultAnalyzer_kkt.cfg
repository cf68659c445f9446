CONSTANTS
  one = one
  two = two
  null = null
  plain = plain
  Constraints <- MCConstraints
  Null = Null
  InputSize = 2
  InOf <- MCInOf
  OutOf <- MCOutOf
  Differentiable = {one, two, null}
  Gradients <- MCGradients
  Objective <- MCObjective
  Situations <- MCSituations
  ArgumentSituations <- MCArgumentSituations
  Intervals <- MCIntervals
  Levels <- MCLevels
  Scales = {1}
  Sizes = {}
  Multipliers = {1}
  Infinity = 9
  MaxConstraints = 2
  MaxOutputs = 3
  MaxMultipliers = 1
  MaxFailures = 1
SPECIFICATION AnalyzerSpec
INVARIANT
  KKTPointsSatisfyTheConditions
CHECK_DEADLOCK FALSE
