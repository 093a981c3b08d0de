SPECIFICATION Spec
CONSTANTS
  r1 = r1
  r2 = r2
  r3 = r3
  ann = ann
  bob = bob
  shirt = shirt
  mug = mug
  sale = sale
  NoCode = NoCode
  Skus = {shirt, mug}
  Users = {ann, bob}
  Codes = {sale}
  Requests = {r1, r2}
  UserOf <- TwoUsers
  LinesOf <- TwoLines
  CodeOf <- TwoCodes
  UsageLimit <- LimitOne
  PerUserLimit <- LimitOne
  MaxQuantity = 2
  Backorder = {mug}
  Cancels = {k1, k2}
  Admins = {}
  StaffMoves = {}
  Deltas <- Up
  Faults <- AllFaults
  MaxFaults = 2
INVARIANTS
  StockNeverUndercounted
  SlotsNeverUndercounted
  UsageLimitKept
  NoOversell
PROPERTIES
  ImplementsLedger
CHECK_DEADLOCK FALSE
