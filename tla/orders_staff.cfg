SPECIFICATION Spec
CONSTANTS
  r1 = r1
  r2 = r2
  r3 = r3
  ann = ann
  bob = bob
  shirt = shirt
  mug = mug
  sale = sale
  NoCode = NoCode
  Skus = {shirt, mug}
  Users = {ann, bob}
  Codes = {sale}
  Requests = {r1}
  UserOf <- OneUsers
  LinesOf <- OneLines
  CodeOf <- OneCodes
  UsageLimit <- LimitOne
  PerUserLimit <- LimitOne
  MaxQuantity = 2
  Backorder = {}
  Cancels = {k1, k2}
  Admins = {a1, a2}
  StaffMoves <- ForwardMoves
  Deltas = {}
  Faults <- NoFaults
  MaxFaults = 0
INVARIANTS
  TypeOK
PROPERTIES
  DeliveredNotCancelled
CHECK_DEADLOCK FALSE
