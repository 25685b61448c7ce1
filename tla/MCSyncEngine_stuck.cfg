\* A sync ends between a write and the save of its record.
CONSTANTS
  a1 = a1
  a2 = a2
  Order <- OneAgent
  Runs = {r1}
  Resolutions = {"opencode-wins"}
  Faults = TRUE
  MaxVersion = 2
  MaxEdits = 0
  MaxTime = 0
SPECIFICATION Spec
INVARIANTS KeepsOnlyEdits
CHECK_DEADLOCK FALSE
