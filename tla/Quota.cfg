SPECIFICATION FairSpec
CONSTANTS
  Projects = {"a", "b"}
  Meters = {"cpu", "*"}
  AllMeters = "*"
  Plans <- MCPlans
  Faults = {"read", "eval", "insert", "crash"}
  None = None
INVARIANTS AlertsOfTheirWindow WindowsTile
PROPERTIES LoneWriteFits RefusedWhenUsedUp EventuallyAlerted
