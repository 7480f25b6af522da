SPECIFICATION Spec
CONSTANTS
  Attempts = {"e1", "e2"}
  MaxCrashes = 1
INVARIANT LostByRestart
