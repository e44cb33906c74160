SPECIFICATION StorefrontSpec
CONSTANTS
  p1 = p1
  p2 = p2
  seller = seller
  other = other
  adm = adm
  ann = ann
  bob = bob
  Nobody = Nobody
  Nothing = Nothing
  Products = {p1, p2}
  Goods = {p1, p2}
  Customers = {ann, bob}
  Authors = {ann, bob}
  Administrators = {adm}
  Tens = {bob}
  MinReviews = 1
  MostUnits = 3
  SellerOf <- MCSellerOf
  CategoryOf <- MCCategoryOf
  OldCarts <- MCOldCarts
  Requests <- MCRequests
  CartRequests <- MCCartRequests
  Mixes <- MCMixes
INVARIANTS
  StorefrontTypeOK
  AmountExplained
  LockedByWorker
PROPERTIES
  OpenedCartOnly
  LockByOwner
  RatingsForward
  CopyCatchesUp
  PagesCatchUp
CHECK_DEADLOCK FALSE
