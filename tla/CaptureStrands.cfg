SPECIFICATION FairSpec
CONSTANTS
  MaxHead = 1
  MaxRecords = 1
  MaxCrashes = 1
  MaxFaults = 0
PROPERTY TerminationNeverStrands
