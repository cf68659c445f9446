SPECIFICATION FactorySpec
CONSTANTS
  Factories = {f1, f2, f3}
  Plugins = {ipopt, nag}
INVARIANTS Balanced SolverLivesInScope
CHECK_DEADLOCK FALSE
