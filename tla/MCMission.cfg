CONSTANTS
  Task = {t1, t2, t3}
  Run = {r1, r2, r3}
  Approval = {a1, a2}
  NoTask = NoTask
  NoRun = NoRun
  NoApproval = NoApproval
  MaxVersion = 18
  Feature = {"fullStack", "frontend", "localization", "platform", "release"}
  MaxWorker = 4
  MaxFail = 1
  MaxMerge = 2
  MaxRaise = 1
  visit = visit
  revisit = revisit
  click = click
  Nothing = Nothing
  MaxNoise = 1
  MaxFault = 1
  MaxKill = 1
SPECIFICATION AllSpec
SYMMETRY Symmetry
INVARIANTS
  TypeOK
  RunsMirrorNodes
  ApprovalsMirrorNodes
  DependenciesFirst
  NoSilentStall
  ClosedMissionQuiet
  EffectsFollowRuns
  TeamHolds
PROPERTIES
  OutcomeIsFinal
  ImplementsDag
CHECK_DEADLOCK FALSE
