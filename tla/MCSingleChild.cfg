SPECIFICATION FairSpec
CONSTANTS
  NumSegs = 2
  WorkSegs = {2}
  MaxAttempts = 1
  StopSamples = 1
  ChildTimeout = 0
  CancelGrace = 1
  StopSettle = 0
  StopTimeout = 1
  Maps = {m1}
  Seeds = {s1}
  MaxTasks = 1
  MaxRestarts = 0
INVARIANT SingleActiveChild
