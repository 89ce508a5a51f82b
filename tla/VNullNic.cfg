CONSTANTS
  Layouts <- MCLayouts
  Values = {1}
  MaxOptions = 0
  ApiArgs <- MCApiArgs
SPECIFICATION Spec
INVARIANT NullMeansDefault
CHECK_DEADLOCK FALSE
