SPECIFICATION FairSpec
CONSTANTS
  Execs = {e1}
  Targets = {t1}
  Runs = {r1, r2}
  Ops = {o1}
  Incidents = {}
  Bundles = {b1}
  None = None
  AgentAsks = {"booting", "ready", "quiescing", "sealed", "failed"}
  TargetAsks = {"instrumenting", "ready", "resettable", "failed"}
  RunAsks = {"preparing", "observing", "running", "lost"}
  ExecAsks = {"cancelled"}
  OpAsks = {"running", "cancelled"}
  ScopeAsks <- MCScopes
  EvidenceAsks <- MCEvidence
  IntentAsks = {{}}
  TTLs = {1}
  ClockSlip = 1
  MaxGen = 2
  MaxTime = 2
CHECK_DEADLOCK FALSE
INVARIANTS TypeOK LeasePhasesAgree ReferencesResolve OnlyCurrentGenerationLives TerminatedLeaseIsDrained QuiescingIsIdle ExpiryOnlyWhenDue
PROPERTIES ClosedLeaseOnlyDrains OutcomesAreFinal RolloverIsSingle OverdueLeaseEnds
