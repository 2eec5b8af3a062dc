CONSTANTS
  None = None
  Ids = {1, 2, 3, 4, 5, 6, 7, 8}
  Entry <- MCEntries
  Rates <- MCRates
  RulePrice = 7
  Raters = {1}
  Batch = 2
  Faults = {"rates", "fetch", "sum", "insert", "ack", "mark", "crash"}
  MaxFaults = 2
  Month = 10
  Day = 5
  DefaultLimit = 5
  MaxLimit = 10
  Malformed = Malformed
SPECIFICATION FairSpec
INVARIANTS TiersAreGraduated RatedIsCosted ChargedPerFault PeriodBilledAsWhole ReportsAccount
PROPERTY EventuallyRated
