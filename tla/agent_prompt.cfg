CONSTANTS
  Specialist = {"meeting", "general"}
  MaxTurnsKept = 2
  MaxTurns = 4
  MaxReverts = 0
  Events = {}
  MaxEvents = 0
SPECIFICATION Spec
INVARIANT KeepsItsPrompt
CHECK_DEADLOCK FALSE
