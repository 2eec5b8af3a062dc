CONSTANTS
  None = None
  Resources = {r1}
  Kinds <- MCKinds
  Reconcilers = {1, 2}
  Enabled = {"watcher", "reconciler", "collector"}
  MaxClock = 1
  MaxChanges = 0
  Faults = {"statement", "disconnect", "crash"}
  MaxFaults = 1
SPECIFICATION FairSpec
PROPERTIES ExistenceConverges
