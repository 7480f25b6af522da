SPECIFICATION SumSpec
CONSTANTS
  c1 = c1
  c2 = c2
  c3 = c3
  c4 = c4
  k1 = k1
  k2 = k2
  a = a
  b = b
  Callers = {c1, c2, c3, c4}
  Keys = {k1, k2}
  Aggregates = {a, b}
  Plan <- MCPlan
  None = None
  MaxFaults = 3
  Kinds = {"agent", "target"}
  GuestFrames = 2
  Works <- MCWorks
  Shapes = {"bidi", "server"}
  Capacity = 2
  StreamFrames = 3
  Clients = {"k1", "k2"}
  MaximumConnections = 1
  Attempts = {"e1", "e2"}
  RunnerCrashes = 1
  References <- MCReferences
  Documents = {"x", "y"}
  Fingerprints = {"f1", "f2"}
  Supported <- MCSupported
  Hosts = {"h1", "h2"}
  Configurations <- MCConfigurations
  Deployments <- MCDeployments
  HostCrashes = 1
INVARIANTS TypesHold AppliedExactlyOnce ViewsAgree 
PROPERTIES RefinesExactlyOnce CommittedIsAnswered NothingAfterDrain CallsEnd
