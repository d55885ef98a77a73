CONSTANTS
  Steer = {s}
  Tool = {a, b}
  TargetTurns = 2
  ExtensionTurns = 1
  AbsoluteTurns = 4
  MaxToolCalls = 3
  MaxStuck = 1
  MaxBatch = 2
SPECIFICATION Spec
INVARIANT
  NothingForgotten
CHECK_DEADLOCK FALSE
