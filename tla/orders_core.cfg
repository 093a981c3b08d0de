SPECIFICATION FairSpec
CONSTANTS
  Backorder = {}
  r1 = r1
  r2 = r2
  r3 = r3
  ann = ann
  bob = bob
  shirt = shirt
  mug = mug
  sale = sale
  NoCode = NoCode
  Skus = {shirt, mug}
  Users = {ann, bob}
  Codes = {sale}
  Requests = {r1, r2, r3}
  Cancels = {k1, k2}
  Admins = {}
  UserOf <- MCUsers
  LinesOf <- MCLines
  CodeOf <- MCCodes
  UsageLimit <- LimitOne
  PerUserLimit <- LimitOne
  StaffMoves = {}
  Deltas <- Up
  MaxQuantity = 2
  Faults <- NoFaults
  MaxFaults = 0
INVARIANTS
  StockConserved
  SlotsConserved
  NumbersGapless
PROPERTIES
  ImplementsLedger
  ReservationsSettle
CHECK_DEADLOCK FALSE
