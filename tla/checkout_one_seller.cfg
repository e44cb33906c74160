CONSTANTS
  d1 = d1
  d2 = d2
  p1 = p1
  p2 = p2
  s1 = s1
  s2 = s2
  a1 = a1
  a2 = a2
  NoAccount = NoAccount
  Drafts = {d1, d2}
  Products = {p1, p2}
  Sellers = {s1, s2}
  Accounts = {a1, a2}
  Requests <- MCSales
  Owner <- MCOwner
  Amount <- MCAmount
  SellerOf <- MCOneSeller
  Gratis <- MCPaid
  InitStock <- MCStock
  Repeats = 1
  Faults = {}
SPECIFICATION FairSpec
CHECK_DEADLOCK FALSE
PROPERTY SaleCredited
