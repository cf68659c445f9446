CONSTANTS
  p = p
  q = q
  d = d
  simpleP = simpleP
  simpleQ = simpleQ
  fiveD = fiveD
  checkP = checkP
  checkQ = checkQ
  squares = squares
  Functions <- MCFunctions
  Kind <- MCKind
  Adaptee <- MCAdaptee
  Sparse <- MCSparse
  Inputs <- MCInputs
  Outputs <- MCOutputs
  Terms <- MCTerms
  Slip <- MCSlip
  Pattern <- MCPattern
  Checker <- MCChecker
  Points <- MCPoints
  Epsilon = 4
  OtherStep = 2
  Precision = 2
  MaxCalls = 2
SPECIFICATION Spec
INVARIANTS
  TypeOK
  GuardIsRestored
  UserCodeIsGuarded
  AllocationsAreAllowed
  AnswersAreExact
  ChecksFindErrors
PROPERTY EvaluationEnds
CHECK_DEADLOCK FALSE
