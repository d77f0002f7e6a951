CONSTANTS
  Tools = {"add_segment", "set_title", "revert_last_turn"}
  Says = {{}}
  Gone = {}
  Role = {m1}
  Duration = {9}
  Minute = {1155}
  NoOne = NoOne
  None = None
  MaxSegments = 3
  MaxTurns = 3
  MaxCalls = 1
  MaxEdits = 0
SPECIFICATION Spec
INVARIANT UndoTargetsTheLastChange
CHECK_DEADLOCK FALSE
