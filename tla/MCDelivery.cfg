CONSTANTS
  Effect = {1, 2}
  Report = {ok, failed}
  Runner = {r1, r2}
  NoEffect = NoEffect
  NoReport = NoReport
  MaxUpset = 2
  Caller = {c}
  NoCaller = NoCaller
  Reader = Reader
  MaxCall = 2
  MaxNote = 2
  MaxQueue = 1
  Room = 1
  MaxPost = 2
  MaxMessage = 2
  MaxResume = 2
  Dialects = {"chat", "responses", "messages"}
  Parts = 2
  MaxCallIndex = 2
  MaxText = 1
  MaxTurn = 2
  MaxMore = 1
  Channel = 1
SPECIFICATION AllSpec
INVARIANTS
  TypeOK
  OneHolder
  AckMeansRecorded
  CallsHold
PROPERTIES
  DeliveryEnds
  ImplementsLedger
CHECK_DEADLOCK FALSE
