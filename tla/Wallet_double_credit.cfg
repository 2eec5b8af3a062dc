CONSTANTS
  Tenants = {t1}
  WalletIds = {w1}
  CostIds = {1, 2}
  Requests = {r1, r2}
  Refs = {x}
  None = None
  TopUpAmounts = {1}
  CostAmounts = {1}
  Grain = 1
  Overlap = TRUE
  Faults = {}
  MaxFaults = 0
  MaxRows = 5
SPECIFICATION Spec
INVARIANTS NoDoubleCredit
