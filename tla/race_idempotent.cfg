\* Is fulfilment idempotent on the payment id?
CONSTANTS
  u1 = u1  p1 = p1  p2 = p2  o1 = o1  o2 = o2  w1 = w1  w2 = w2
  Users = {u1}
  Plans = {p1}
  Quotas = {"contact_view"}
  Limit <- MCLimit
  Duration <- MCDuration
  Workers = {w1, w2}
  Orders = {o1}
  Purposes = {"plan_purchase"}
  Options = {"plan_only", "full"}
  Events = {"payment.captured"}
  Products = {}
  CatalogPrice <- MCCatalogPrice
  Losable = {}
  Assigned = {u1}
  Amounts = {6}
  InitialPrice <- MCInitialPrice
  InitialCharge = 4
  MaxDay = 0
  MaxAdminEdits = 0
  MaxCrashes = 0
  MaxRemovals = 0
SPECIFICATION Spec
INVARIANTS Idempotent
CHECK_DEADLOCK FALSE
