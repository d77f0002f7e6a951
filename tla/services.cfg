CONSTANTS
  x1 = x1
  x2 = x2
  x3 = x3
  y1 = y1
  y2 = y2
  z1 = z1
  z2 = z2
  None = None
  Request = {x1, x2, x3}
  Projection = {y1, y2}
  Draft = {1, 2, 3}
  Events = {"die", "lease", "lost", "rejected", "cover", "deleted", "reset"}
  MaxEvents = 4
  Image = {"M1", "M2", "M3"}
  Ready = {"M1", "M3"}
  Words = {"one", "two", "caption"}
  Bodies <- ArticleBodies
  NoCover = "none"
  MaxEdits = 2
  MaxChanges = 2
  NoOne = None
  Absent = None
  Thread = {x1, x2, x3}
  MaxTokenEvents = 3
  Visitor = {z1, z2}
  Instance = {y1, y2}
  PerMinute = 2
  PerDay = 3
  MaxTurnsKept = 1
  MaxVisits = 4
  MaxMinutes = 1
  VisitEvents = {"leave", "die", "db", "model"}
  MaxVisitEvents = 1
  Specialist = {"meeting", "general"}
  MaxTurns = 3
  MaxReverts = 1
  AgentEvents = {"stop", "die", "db", "model"}
  MaxAgentEvents = 2
  ToolCall = {x1, x2, x3}
  Member = {m1}
  Workspace = {y1, y2, w3}
  Initial = {y1, y2}
  Tools = {"create", "delete", "select", "suggest", "describe", "write", "import"}
  MaxMessages = 2
  MaxCommands = 1
  FeishuEvents = {"store", "timeout", "expire", "member", "elsewhere"}
  MaxFeishuEvents = 1
  Handler = {y1, y2}
  Candidate = {z1, z2}
  Section = {1, 2}
  MaxVotes = 3
  MaxVotings = 4
  Person = {z1, z2}
  Role = {"timer", "speech"}
  Timer = "timer"
  NoRole = None
  MaxCheckins = 4
  Topics = "topics"
  Regular = {"speech"}
  Name = {z1, z2}
  Minute = {1}
  NoName = None
  MaxTimings = 3
  Text = {1, 2}
  MaxIds = 4
  MaxSegments = 2
  MaxSaves = 2
  PageTools = {"set_duration"}
  Says = {{}, {"save"}, {"yes"}}
  Gone = {0}
  RoleTaker = {m1}
  Duration = {0, 9}
  DayTime = {1155, 1164}
  MaxPageSegments = 4
  MaxPageTurns = 4
  MaxCalls = 4
  MaxPageEdits = 1
SYMMETRY Interchangeable
SPECIFICATION MCSpec
CHECK_DEADLOCK FALSE
INVARIANTS
  PartsTypeOK
  ConfirmationsHold
  DraftIsShown
  OneRotationIsSurvived
  ConversationsHold
  VisitsHold
  VotesAreCounted
  RecordsHold
  MeetingHolds
  TimesHold
  EditingHolds
  EditsApply
