CONSTANTS
  Pool = 2
  QuietSetup = FALSE
SPECIFICATION Spec
INVARIANT EchoHasWriter
CHECK_DEADLOCK FALSE
