SPECIFICATION Spec
CONSTANTS
  Execs = {e1}
  Targets = {t1}
  Runs = {r1}
  Ops = {o1}
  Incidents = {i1}
  Bundles = {b1}
  None = None
  AgentAsks = {"booting", "ready"}
  TargetAsks = {"instrumenting", "ready"}
  RunAsks = {"preparing", "observing", "running", "quarantined"}
  ExecAsks = {"lost"}
  OpAsks = {"completed"}
  ScopeAsks <- MCScopes
  EvidenceAsks <- MCEvidence
  IntentAsks = {{}}
  TTLs = {1}
  ClockSlip = 0
  MaxGen = 2
  MaxTime = 0
CHECK_DEADLOCK FALSE
INVARIANT QuiescedGenerationIsIdle
