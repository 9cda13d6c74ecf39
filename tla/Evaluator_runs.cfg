SPECIFICATION Spec
CONSTANTS
  a = a
  b = b
  f = f
  r = r
  t = t
  Input = Input
  SumW = SumW
  Squared = Squared
  Torn = Torn
  Vars <- MCVars
  Order <- MCOrder
  Servers <- MCServers
  Reducer = r
  Top = t
  Failing = {f}
  Values = {1, 2}
  Datasets = {1, 2}
  Zeros <- MCZeros
INVARIANTS TypeOK RunIsCurrent OneOffsetPerFit FullValueForProgram
