SPECIFICATION LoggedSpec
CONSTANTS
  Multiplexers = {mux}
  Loggers = {logger}
  Members = {c1}
  Raw = Raw
  NoCallback = NoCallback
  Supported = TRUE
  MaxIterations = 2
  MaxMembers = 2
  Recorder = logger
  Requests <- FullLogging
  NbConstraints = 2
  Differentiable = {1}
  Violations = {0, 1}
  Unknown = Unknown
  MaxCalls = 2
INVARIANTS TypeOK CallbackIsAlive RowsAreCutAtTheEnd RowsAlign LoggedViolationIsTrue
PROPERTY LogsAreKept
CHECK_DEADLOCK FALSE
