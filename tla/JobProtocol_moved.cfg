CONSTANTS
  L = L
  G = G
  v0 = v0
  v1 = v1
  Displaced = Displaced
  NotSent = NotSent
  NoJob = NoJob
  NoTask = NoTask
  NWorkers = 1
  Jobs <- MCJobs
  GradientJobs <- MCGradientJobs
  NTasks <- TwoEach
  NParams = 2
  Values = {v0, v1}
  Points <- MCPoints
  InitPoint <- MCInitPoint
  QueueType = "FIFO"
  Priority <- LastFirst
  MaxCalls = 2
SPECIFICATION Spec
INVARIANTS
  SameAsSerial
