SPECIFICATION MCSpec
CONSTANTS
  Files = {f1, f2}
  Contents = {a, b}
  Dirs <- MCDirs
  Seeders = {i1, i2}
  Engines = {e1}
  DefaultRates <- MCRates
  DefaultQuotas <- MCQuotas
  Projects = {p1, p2}
  Tenants = {t1, t2}
  Readers = {r1}
  MaxMoves = 1
  Default = Default
  Faults = {"upsert", "query", "crash"}
  MaxFaults = 2
  None = None
INVARIANTS UnchangedMeansFresh SeededOnce SeededWhole
PROPERTIES EventuallyReloaded EventuallyCoherent
CHECK_DEADLOCK FALSE
