CONSTANTS
  Orders = {o1, o2}
  Customers = {c1}
  c1 = c1
  Payments = {p1, p2}
  Requests = {r1, r2}
  Customer <- OneCustomer
  MaxFailures = 1
  None = None
SPECIFICATION Spec
INVARIANTS
  TypeOK
  NoDoubleCharge
  SettledOnce
PROPERTIES
  ImplementsOrderPayment
  SettlementCompletes
