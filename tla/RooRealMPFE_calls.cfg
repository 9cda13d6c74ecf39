SPECIFICATION Spec
CONSTANTS
  N = 2
  NPar = 1
  Values = {1, 2}
  Bad <- MCBad
  Zero <- MCZero
  FitModes = {"CollectErrors"}
  MaxBuffered = 2
INVARIANTS TypeOK SumIsCurrent OffsetsTogether ErrorsOfThisPoint
PROPERTIES CallsEnd
CHECK_DEADLOCK FALSE
