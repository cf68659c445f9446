SPECIFICATION Spec
CONSTANTS
  Multiplexers = {mux}
  Loggers = {logger}
  Members = {c1, c2}
  Raw = Raw
  NoCallback = NoCallback
  Supported = TRUE
  MaxIterations = 1
  MaxMembers = 1
PROPERTY UnregistersItself
CHECK_DEADLOCK FALSE
