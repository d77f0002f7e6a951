CONSTANTS
  w1 = w1
  o1 = o1
  o2 = o2
  o3 = o3
  text = text
  photos = photos
  s1 = s1
  s2 = s2
  s3 = s3
  r1 = r1
  r2 = r2
  k1 = k1
  k2 = k2
  k3 = k3
  None = None
  MaxItems = 2
  Workspaces = {w1}
  Operations = {o1, o2, o3}
  Plans = {text, photos}
  ItemCount <- MCItemCount
  Faults = {"store", "spawn", "crash"}
  Op = {o1, o2}
  Session = {s1, s2, s3}
  NoOne = NoOne
  MaxVersion = 4
  MaxEvents = 2
  Events = {"materials", "member", "feishu", "reset", "remove", "stop", "again", "timeout", "crash", "store", "thread"}
  RetiredSession = {s1, s2}
  Requester = {r1, r2}
  Worker = {k1, k2, k3}
  Troubles = {"hermes", "spawn", "store", "crash"}
SPECIFICATION MCFairSpec
INVARIANTS
  TypesOK
  OneRunningPerWorkspace
  ThreadOwnsRunningRow
  StepsTellTheOutcome
  OneTurn
  OneRunningOperation
  ChangeIsItsOwn
  OneWorker
PROPERTIES
  SettledIsFinal
  OutcomeIsFinal
  EverythingSettles
CHECK_DEADLOCK FALSE
