SPECIFICATION FairSpec
CONSTANTS
  Events = {e1, e2, w1}
  FromWatcher = {w1}
  Consumers = {c1, c2}
  MaxLog = 4
  Faults = {"publish", "process", "commit", "crash", "rebalance", "stop"}
  MaxFaults = 2
  None = None
INVARIANTS CommittedWasHanded LostPerFailure
PROPERTY NeverStuck
CHECK_DEADLOCK FALSE
