CONSTANTS
  d1 = d1
  d2 = d2
SPECIFICATION Spec
INVARIANTS
  TypeOK   StateReopens
PROPERTIES
  RecordsAreKept 
