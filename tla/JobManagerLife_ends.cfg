SPECIFICATION Spec
CONSTANTS
  N = 2
  Jobs = {1, 2}
  MaxCrashes = 1
INVARIANTS TypeOK JobsKnown TestIsComplete NoFalseAlarm
PROPERTIES CallsEnd
