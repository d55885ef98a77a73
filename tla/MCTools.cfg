CONSTANTS
  c1 = c1
  c2 = c2
  call = call
  write = write
  r1 = r1
  r2 = r2
  Call = {c1, c2}
  Key = {call, write}
  Run = {r1, r2}
  NoCall = NoCall
  NoKey = NoKey
  RunOf <- Runs
  KindOf <- Kinds
  UserCall = {c2}
  Repeatable = {write}
  Risky = {call}
  Sandboxed = {call, write}
  Pathlike = {write}
  Pluggable = {call}
  Modes = {"on-request", "always"}
  MaxRound = 2
  MaxRetry = 1
  MaxEdit = 1
  MaxCrash = 1
  f = f
  g = g
  h = h
  File = {f, g, h}
  wide = wide
  narrow = narrow
  Preview = {wide, narrow}
  FilesOf <- Edited
  Invocation = {i, j}
  NoInvocation = NoInvocation
  MaxUserEdit = 1
  MaxKill = 1
  MaxTear = 1
  server1 = server1
  plugin1 = plugin1
  plugin2 = plugin2
  skill1 = skill1
  Server = {server1}
  Plugin = {plugin1, plugin2}
  Skill = {skill1}
  ServersOf <- ServersBrought
  SkillsOf <- SkillsBrought
  NeedsOf <- Needs
  NoOne = NoOne
  MaxTool = 2
  MaxFault = 1
  MaxChange = 1
  path1 = path1
  path2 = path2
  Path = {path1, path2}
  Given <- UserRules
  MaxRule = 2
  NoRule = NoRule
  MaxSaveFault = 2
  MaxRuleKill = 1
  Letter = {"a", "/"}
  MaxPattern = 4
  MaxValue = 3
  Session = {home, child}
  Home = home
  Model = {m1, m2}
  Fallback = m2
  Placeholder = unconfigured
  NoModel = NoModel
  Unset = Unset
  MaxMissed = 1
  Known = {builtin}
  Custom = {mine}
  VectorModel = {e1, e2}
  First = e1
  Secret = {k1, k2}
  Nobody = Nobody
  MaxFailure = 2
SYMMETRY Invocations
SPECIFICATION AllSpec
INVARIANTS
  AllTypeOK
  JournalTellsTruth
  ConsentHolds
  UserDecides
  ServersHold
  ConfigurationHolds
PROPERTIES
  ImplementsToolLedger
  RefusedChangeIsUndone
CHECK_DEADLOCK FALSE
