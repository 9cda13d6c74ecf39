SPECIFICATION Spec
CONSTANTS
  x = x
  a = a
  p = p
  s = s
  h = h
  t = t
  d = d
  NoGuard = NoGuard
  Leaves <- MCLeaves
  Funcs <- MCFuncs
  Densities <- MCDensities
  Values = {1, 2}
  InitServers <- MCServers
  Redirections <- MCRedirections
  Optimized <- MCOptimized
  Sampler = s
  Sampled = x
  Samples <- MCSamples
  Graph <- MCGraph
  Batch <- MCBatch
  Failing = {h}
  Asked = {d, h}
INVARIANTS CleanIsRefilled
