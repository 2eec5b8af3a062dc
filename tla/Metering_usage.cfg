CONSTANTS
  None = None
  Resources = {r1}
  Kinds <- MCKinds
  Reconcilers = {1}
  Enabled = {"watcher", "metering", "reconciler"}
  MaxClock = 2
  MaxChanges = 1
  Faults = {"insert", "statement", "crash", "disconnect", "repeat"}
  MaxFaults = 1
SPECIFICATION Spec
INVARIANTS MeteredOnce NoGap DeletionSettled
