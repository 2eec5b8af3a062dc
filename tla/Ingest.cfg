CONSTANTS
  a1 = a1
  a2 = a2
  b = b
  c = c
  None = None
  Clients = {1, 2}
  Requests = {r1, r2, r3}
  Events <- MCEvents
  Keys <- MCKeys
  Key <- MCKey
  Resource <- MCResource
  Time <- MCTime
  Batch <- MCBatch
  Qualities <- MCQualities
  MaxAge = 0
  MaxFuture = 0
  MaxClock = 1
  Faults = {"error", "lostack", "timeout", "crash"}
  MaxFaults = 2
SPECIFICATION FairSpec
INVARIANTS ReceiptsMatchEffects
PROPERTIES ImplementsEventLog EveryoneAnswered
CHECK_DEADLOCK FALSE
