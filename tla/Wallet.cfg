CONSTANTS
  Tenants = {t1, t2}
  WalletIds = {w1, w2}
  CostIds = {1, 2}
  Requests = {r1, r2}
  Refs = {x}
  None = None
  TopUpAmounts = {8}
  CostAmounts = {5, 6}
  Grain = 4
  Overlap = FALSE
  Faults = {"check", "topup", "read", "deduct", "lostack", "refresh", "crash"}
  MaxFaults = 1
  MaxRows = 3
SPECIFICATION MCSpec
INVARIANTS FloorRespected LedgerExplainsBalance NeverOverApplied NoDoubleCredit AppliedIsDeducted
PROPERTIES KeepsSettling
