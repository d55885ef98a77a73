CONSTANTS
  Goal = {g1, g2}
  NoGoal = NoGoal
  Message = {m}
  Choice = {a}
  Caller = {p, q}
  MaxVersion = 3
  MaxCrash = 1
  Session = {home, child}
  Home = home
  Note = {n1, n2}
  Pinned = {n2}
  MaxSeries = 4
  MaxCheckpoint = 1
  File = {kernel, wal, memory}
  Present = {kernel, wal}
  Backup = {kernel, memory}
  MaxRestore = 2
  MaxFault = 2
  Memo = {r1, r2}
  Document = {doc}
  Query = {question}
  Profile = {p1, p2}
  Absent = Absent
  Chunk = 1
  MaxGeneration = 3
  MaxEdit = 1
  MaxKill = 1
  short = short
  long = long
  MaxItem = 5
  Window = 6
  first = first
  second = second
  Server = {first, second}
  MaxFlow = 2
  MaxGrant = 2
  MaxDeath = 1
  Store = {kernel_db, tools_db, list_db}
  Process = {{kernel_db, tools_db}, {list_db}}
  NoStore = NoStore
  Order = {k1, k2}
  NoOrder = NoOrder
  SchemaVersion = 2
  MaxUpset = 1
SPECIFICATION AllSpec
INVARIANTS
  AllTypeOK
  RecoveryIsExact
  KeptIsWhole
PROPERTIES
  ImplementsSession
  ProjectOpens
CHECK_DEADLOCK FALSE
