SPECIFICATION Spec
CONSTANTS
  r1 = r1
  r2 = r2
  r3 = r3
  ann = ann
  bob = bob
  shirt = shirt
  mug = mug
  sale = sale
  NoCode = NoCode
  Skus = {shirt, mug}
  Users = {ann, bob}
  Codes = {sale}
  Requests = {r1, r2}
  UserOf <- TwoUsers
  LinesOf <- TwoLines
  CodeOf <- TwoCodes
  UsageLimit <- LimitOne
  PerUserLimit <- LimitOne
  MaxQuantity = 3
  Backorder = {}
  Cancels = {k1}
  Admins = {a1}
  StaffMoves <- ForwardMoves
  Deltas = {}
  Faults <- NoFaults
  MaxFaults = 0
PROPERTIES
  CancelledStaysCancelled
CHECK_DEADLOCK FALSE
