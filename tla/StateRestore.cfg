CONSTANTS
  File = {kernel, memory}
  Present = {kernel}
  Backup = {kernel, memory}
  MaxRestore = 1
  MaxFault = 2
SPECIFICATION Spec
INVARIANT
  OldOrNewSurvives
CHECK_DEADLOCK FALSE
