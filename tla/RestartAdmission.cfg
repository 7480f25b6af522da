SPECIFICATION Spec
CONSTANTS
  Sessions = {"s1"}
  Targets = {"t1", "t2"}
  Views = {"v"}
  Pairs = {"p"}
  Limit <- MCLimit
  MaxConcurrent <- MCMaxConcurrent
  Configurations <- MCConfigurations
  MaxCrashes = 1
  MaxFaults = 0
CHECK_DEADLOCK FALSE
INVARIANT AdmittedStateRestarts
