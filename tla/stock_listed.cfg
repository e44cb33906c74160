CONSTANTS
  seller = seller
  adm = adm
  take = take
  takeToo = takeToo
  putBack = putBack
  setStock = setStock
  setPrice = setPrice
  edit = edit
  remove = remove
  recover = recover
  ban = ban
  unban = unban
  NoOne = NoOne
  Omitted = Omitted
  Requests = {take, takeToo, putBack, setStock, setPrice, edit, remove, recover, ban, unban}
  Seller = seller
  Admins = {adm}
  Kind <- MCKinds
  By <- MCBy
  NewStock <- MCNewStock
  NewPrice <- MCNewPrice
  Amount <- MCAmount
  Reservation <- MCReservation
  Mixes <- MCMixes
  Prices = {0, 1}
  Limit = 2
SPECIFICATION FairSpec
CHECK_DEADLOCK FALSE
INVARIANT TypeOK
PROPERTIES StockMoves NeverSoldDeleted RestoreSettles
