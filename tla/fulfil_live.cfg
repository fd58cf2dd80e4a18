\* Plan and PDF purchases with two crashes, a price change and any number of order
\* rows that fail to be saved: recorded once, for its amount, noted and settled?
CONSTANTS
  u1 = u1  p1 = p1  p2 = p2  o1 = o1  o2 = o2  w1 = w1  w2 = w2
  Users = {u1}
  Plans = {p1}
  Quotas = {"contact_view"}
  Limit <- MCLimit
  Duration <- MCDuration
  Workers = {w1, w2}
  Orders = {o1}
  Purposes = {"plan_purchase", "astrology_pdf"}
  Options = {"plan_only", "full"}
  Events = {"payment.captured"}
  Products = {"jathakam"}
  CatalogPrice <- MCCatalogPrice
  Losable = {o1}
  Assigned = {u1}
  Amounts = {6}
  InitialPrice <- MCInitialPrice
  InitialCharge = 4
  MaxDay = 0
  MaxAdminEdits = 1
  MaxCrashes = 2
  MaxRemovals = 0
SPECIFICATION LiveSpec
INVARIANTS TypeOK AtMostOnceUnlessOverlap PlanOnlyAmountExact FulfilledHasTransaction
           AcknowledgedIsNoted
PROPERTIES CapturedSettles
CHECK_DEADLOCK FALSE
