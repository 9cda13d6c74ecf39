CONSTANTS
  L = L
  G = G
  v0 = v0
  v1 = v1
  Displaced = Displaced
  NotSent = NotSent
  NoJob = NoJob
  NoTask = NoTask
  NWorkers = 2
  Jobs <- MCJobs
  GradientJobs <- MCGradientJobs
  NTasks <- TwoAndOne
  NParams = 1
  Values = {v0, v1}
  Points <- MCPoints
  InitPoint <- MCInitPoint
  QueueType = "Priority"
  Priority <- LastFirst
  MaxCalls = 2
SPECIFICATION FairSpec
INVARIANTS
  TypeOK
  AskOnce
  OnlyThisCall
  OneCopyPerTask
  StateArrives
  NoReadOfNothing
  ResultsOfThisPoint
PROPERTIES
  ImplementsEvaluation
  AsksForEver
