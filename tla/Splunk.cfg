CONSTANTS
  Ids = {1, 2, 3, 4, 5}
  Writer <- MCOneWriter
  Forwarders = {1}
  BatchSize = 2
  SplunkFaults = {"cursor", "query", "post", "ack", "advance", "crash"}
  MaxSplunkFaults = 3
SPECIFICATION SplunkFairSpec
INVARIANTS CursorBehindSent SentPerFault
PROPERTY EventuallySent
