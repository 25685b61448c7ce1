\* Syncs of two agents one after the other; one watched file.
CONSTANTS
  a1 = a1
  a2 = a2
  Order <- TwoAgents
  Runs = {r1}
  Resolutions = {"orqenix-wins"}
  Faults = FALSE
  MaxVersion = 2
  MaxEdits = 1
  MaxTime = 0
  Files = {f1}
  Batches = {b1, b2}
  MaxChanges = 3
  MaxWatches = 1
SPECIFICATION MCSpec
INVARIANTS IndexFollows
PROPERTIES EditsSettle WatchCatchesUp
CHECK_DEADLOCK FALSE
