SPECIFICATION ReplaySpec
CONSTANTS
  Execs = {e1}
  Targets = {t1}
  Runs = {r1}
  Ops = {o1}
  Incidents = {i1}
  Bundles = {b1}
  None = None
  AgentAsks = {"booting", "ready", "quiescing"}
  TargetAsks = {"instrumenting", "ready"}
  RunAsks = {"preparing", "observing", "running", "quarantined"}
  ExecAsks = {"lost"}
  OpAsks = {"cancelled"}
  ScopeAsks <- MCScopes
  EvidenceAsks <- MCEvidence
  IntentAsks = {{}}
  TTLs = {1}
  ClockSlip = 0
  MaxGen = 2
  MaxTime = 1
CHECK_DEADLOCK FALSE
INVARIANTS CommittedRecordsReplay
