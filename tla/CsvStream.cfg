SPECIFICATION FairSpec
CONSTANTS
  Limit = 2
  HighWater = 2
  MaxRows = 11
INVARIANTS
  TypeOK
  JobsCutTheFile
  RecordsAreBounded
PROPERTIES
  UploadEnds
  KeepsTheContract
CHECK_DEADLOCK FALSE
