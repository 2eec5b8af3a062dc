CONSTANTS
  Pods = {p1}
  BatchSize = 2
  MaxClock = 1
  MaxLives = 1
  MaxOther = 1
  Faults = {"post", "ack", "stop", "crash"}
  MaxFaults = 3
  None = None
SPECIFICATION FairSpec
INVARIANTS SecondsAddUp BilledPerProcess
PROPERTY Delivers
