CONSTANTS
  o1 = o1
  o2 = o2
  Op = {o1, o2}
  s1 = s1
  s2 = s2
  s3 = s3
  Session = {s1, s2, s3}
  NoOne = NoOne
  MaxVersion = 4
  MaxEvents = 2
  Events = {"materials", "member", "feishu", "reset", "remove", "stop", "again", "timeout", "crash", "store", "thread"}
SPECIFICATION TurnsSpec
CHECK_DEADLOCK FALSE
INVARIANT
  ResetForgets
