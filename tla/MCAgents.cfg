CONSTANTS
  Steer = {s, t}
  Tool = {a, b}
  TargetTurns = 2
  ExtensionTurns = 1
  AbsoluteTurns = 4
  MaxToolCalls = 3
  MaxStuck = 1
  MaxBatch = 2
  r1 = r1
  r2 = r2
  r3 = r3
  r4 = r4
  Crews = {{r1, r2}, {r3}}
  l1 = l1
  l2 = l2
  NoRun = NoRun
  Worker = {w1, w2}
  MaxCool = 1
  Tokens = {1, 2}
  RunToolCalls = 1
  Runtime = 1
  MaxAgents = 2
  MaxTotalTokens = 3
  MissionToolCalls = 2
  MaxRuntime = 2
  MaxClock = 1
  MaxFault = 1
  Source = {source}
  Body = {t1, t2}
  Gone = Gone
  Unfit = Unfit
  Nothing = Nothing
  MaxWrite = 2
  MaxStop = 1
SPECIFICATION AllSpec
INVARIANTS
  AllTypeOK
  ModelsAreToldRight
  LimitsHold
  ConsoleHolds
PROPERTY
  AgentsEnd
CHECK_DEADLOCK FALSE
