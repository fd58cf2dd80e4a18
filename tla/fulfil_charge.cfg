\* A purchase and the remaining service charge, with plan removal.
CONSTANTS
  u1 = u1  p1 = p1  p2 = p2  o1 = o1  o2 = o2  w1 = w1  w2 = w2
  Users = {u1}
  Plans = {p1}
  Quotas = {"contact_view"}
  Limit <- MCLimit
  Duration <- MCDuration
  Workers = {w1, w2}
  Orders = {o1, o2}
  Purposes = {"plan_purchase", "service_charge"}
  Options = {"plan_only"}
  Events = {"payment.captured"}
  Products = {}
  CatalogPrice <- MCCatalogPrice
  Losable = {}
  Assigned = {}
  Amounts = {6}
  InitialPrice <- MCInitialPrice
  InitialCharge = 4
  MaxDay = 0
  MaxAdminEdits = 0
  MaxCrashes = 0
  MaxRemovals = 1
SYMMETRY MCSymmetry
SPECIFICATION Spec
INVARIANTS LockedSnapshotIsCurrent
CHECK_DEADLOCK FALSE
PROPERTIES BooksKept
