CONSTANTS
  Layouts <- MCLayouts
  Values = {0, 1, 60, 233}
  MaxOptions = 2
  ApiArgs <- MCApiArgs
SPECIFICATION Spec
INVARIANTS ProgramInv DefaultsAccepted WireSize ExitMatchesReport RendersOnlyWritten
CHECK_DEADLOCK FALSE
