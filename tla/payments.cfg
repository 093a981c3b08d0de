SPECIFICATION FairSpec
CONSTANTS
  c1 = c1
  c2 = c2
  c3 = c3
  mon = mon
  Creators = {c1, c2, c3}
  OrderOf <- SameOrder
  MethodOf <- Methods
  Carried <- Bodies
  Orders = {mon}
  Handlers = {h1, h2}
  Refunders = {a1}
  MaxCrashes = 1
INVARIANT OnePaymentPerOrder
INVARIANT PaidRecordsCapture
PROPERTY ImplementsLifecycle
PROPERTY CapturedIsRecorded
\* Requests are finite in number and no customer is obliged to pay.
CHECK_DEADLOCK FALSE
