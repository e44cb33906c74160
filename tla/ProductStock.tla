----------------------------- MODULE ProductStock -----------------------------
(***************************************************************************)
(* One product of the catalogue under concurrent requests: the seller      *)
(* edits, deletes and restores it, an admin bans and restores it, drafts   *)
(* reserve units of it and give them back.                                 *)
(*                                                                         *)
(* Every edit reads and checks the product with a plain query and writes   *)
(* later, unconditionally.  Only reserve locks the row.  updateProduct     *)
(* saves the entity it read: TypeORM reads the row once more and writes    *)
(* the columns that differ from the entity's.                              *)
(***************************************************************************)
EXTENDS Naturals

CONSTANTS
  Requests,     \* messages; one that withRetry repeats is one more
  Mixes,        \* the sets of requests that may meet
  Kind,         \* what each asks for
  By,           \* the account that asks
  Seller,       \* the product's account
  Admins,       \* the accounts that is_admin accepts
  NewStock,     \* the stock an edit names, or Omitted
  NewPrice,     \* the price an edit names, or Omitted
  Omitted,
  Amount,       \* the units a reservation takes or a restoration returns
  Reservation,  \* the reservation that a restoration compensates
  Prices,
  Limit,        \* the largest stock: the column is a SMALLINT UNSIGNED
  NoOne         \* no account

Stocks == 0..Limit
Edits  == {"update_stock", "update_price", "update_product",
           "delete_product", "restore_product", "ban_product", "unban_product"}
Kinds  == Edits \cup {"reserve", "restore_stock"}

MaxAttempts == 3

ASSUME ProductAssumption ==
  /\ Limit \in Nat
  /\ Mixes \subseteq SUBSET Requests
  /\ Kind \in [Requests -> Kinds]
  /\ Seller # NoOne /\ NoOne \notin Admins /\ Seller \notin Admins
  /\ Omitted \notin Stocks \cup Prices
  /\ NewStock \in [Requests -> Stocks \cup {Omitted}]
  /\ NewPrice \in [Requests -> Prices \cup {Omitted}]
  /\ \A r \in Requests :
       /\ Kind[r] = "update_stock" => NewStock[r] # Omitted
       /\ Kind[r] = "update_price" => NewPrice[r] # Omitted
  /\ Amount \in [Requests -> Nat \ {0}]
  /\ Reservation \in [Requests -> Requests]
  /\ \A r \in Requests : Kind[r] = "restore_stock" =>
       Kind[Reservation[r]] = "reserve" /\ Amount[r] = Amount[Reservation[r]]

VARIABLES
  stock,      \* product.stock
  price,      \* product.price; discount_percentage is treated the same way
  deletedBy,  \* meta.deleted_by, written together with meta.deleted
  active,     \* the seller's status, in the account service
  pc,         \* what each request does next
  seen,       \* the columns updateProduct read first
  snap,       \* the columns its save() read to compare with
  asked,      \* the seller's status as reserve was told it
  tries,      \* attempts of restore_stock that failed
  result      \* whether it took effect

vars == <<stock, price, deletedBy, active, pc, seen, snap, asked, tries, result>>

Columns == [stock : Stocks, price : Prices]
Row == [stock |-> stock, price |-> price]

TypeOK ==
  /\ stock \in Stocks
  /\ price \in Prices
  /\ deletedBy \in Admins \cup {Seller, NoOne}
  /\ active \in BOOLEAN
  /\ pc \in [Requests -> {"unsent", "new", "checked", "saving", "done"}]
  /\ seen \in [Requests -> Columns]
  /\ snap \in [Requests -> Columns]
  /\ asked \in [Requests -> BOOLEAN]
  /\ tries \in [Requests -> 0..MaxAttempts]
  /\ result \in [Requests -> {"none", "ok", "refused"}]

\* A product as createProduct leaves it, with some stock.
Init ==
  /\ stock \in Stocks
  /\ price \in Prices
  /\ deletedBy = NoOne
  /\ active \in BOOLEAN
  /\ \E mix \in Mixes : pc = [r \in Requests |-> IF r \in mix THEN "new" ELSE "unsent"]
  /\ seen = [r \in Requests |-> Row]
  /\ snap = [r \in Requests |-> Row]
  /\ asked = [r \in Requests |-> FALSE]
  /\ tries = [r \in Requests |-> 0]
  /\ result = [r \in Requests |-> "none"]

Answers(r, answer) ==
  /\ pc' = [pc EXCEPT ![r] = "done"]
  /\ result' = [result EXCEPT ![r] = answer]

Goes(r, step) ==
  /\ pc' = [pc EXCEPT ![r] = step]
  /\ UNCHANGED result

-----------------------------------------------------------------------------
(* Requests of the seller and of admins: read and check, then write.       *)

\* The seller edits and deletes what is not deleted, and restores what it
\* deleted itself; an admin's request does not look at deletedBy.
Allowed(r) ==
  IF Kind[r] \in {"ban_product", "unban_product"}
  THEN By[r] \in Admins
  ELSE /\ By[r] = Seller
       /\ deletedBy = IF Kind[r] = "restore_product" THEN Seller ELSE NoOne

Check(r) ==
  /\ Kind[r] \in Edits /\ pc[r] = "new" /\ Allowed(r)
  /\ seen' = IF Kind[r] = "update_product" THEN [seen EXCEPT ![r] = Row] ELSE seen
  /\ Goes(r, "checked")
  /\ UNCHANGED <<stock, price, deletedBy, active, snap, asked, tries>>

Refuse(r) ==
  /\ Kind[r] \in Edits /\ pc[r] = "new" /\ ~Allowed(r)
  /\ Answers(r, "refused")
  /\ UNCHANGED <<stock, price, deletedBy, active, seen, snap, asked, tries>>

Writes(r, kind) == Kind[r] = kind /\ pc[r] = "checked" /\ Answers(r, "ok")

UpdateStock(r) ==
  /\ Writes(r, "update_stock")
  /\ stock' = NewStock[r]
  /\ UNCHANGED <<price, deletedBy, active, seen, snap, asked, tries>>

UpdatePrice(r) ==
  /\ Writes(r, "update_price")
  /\ price' = NewPrice[r]
  /\ UNCHANGED <<stock, deletedBy, active, seen, snap, asked, tries>>

\* One transaction: no stock, and deleted.
DeleteProduct(r) ==
  /\ Writes(r, "delete_product")
  /\ stock' = 0
  /\ deletedBy' = Seller
  /\ UNCHANGED <<price, active, seen, snap, asked, tries>>

\* restoreProduct and unbanProduct write the same; neither touches the stock.
Undelete(r) ==
  /\ Writes(r, "restore_product") \/ Writes(r, "unban_product")
  /\ deletedBy' = NoOne
  /\ UNCHANGED <<stock, price, active, seen, snap, asked, tries>>

BanProduct(r) ==
  /\ Writes(r, "ban_product")
  /\ deletedBy' = By[r]
  /\ UNCHANGED <<stock, price, active, seen, snap, asked, tries>>

\* The transaction of updateProduct: save() reads the row again,
Reload(r) ==
  /\ Kind[r] = "update_product" /\ pc[r] = "checked"
  /\ snap' = [snap EXCEPT ![r] = Row]
  /\ Goes(r, "saving")
  /\ UNCHANGED <<stock, price, deletedBy, active, seen, asked, tries>>

\* and writes what differs.  A column the body omits has the value read first;
\* a price it names is a number, never equal to the DECIMAL's string.
Save(r) ==
  LET Units == IF NewStock[r] = Omitted THEN seen[r].stock ELSE NewStock[r] IN
  /\ Kind[r] = "update_product" /\ pc[r] = "saving"
  /\ stock' = IF Units = snap[r].stock THEN stock ELSE Units
  /\ price' = IF NewPrice[r] # Omitted THEN NewPrice[r]
              ELSE IF seen[r].price = snap[r].price THEN price ELSE seen[r].price
  /\ Answers(r, "ok")
  /\ UNCHANGED <<deletedBy, active, seen, snap, asked, tries>>

-----------------------------------------------------------------------------
(* reserve and restore_stock.                                              *)

\* The products, then their sellers' status, before the transaction.
AskSeller(r) ==
  /\ Kind[r] = "reserve" /\ pc[r] = "new"
  /\ asked' = [asked EXCEPT ![r] = active]
  /\ Goes(r, "checked")
  /\ UNCHANGED <<stock, price, deletedBy, active, seen, snap, tries>>

\* Mutant of Reserve: deletedBy is only looked at before the transaction.
ReserveUnlisted(r) ==
  /\ Kind[r] = "reserve" /\ pc[r] = "checked"
  /\ stock >= Amount[r]
  /\ asked[r]
  /\ stock' = stock - Amount[r]
  /\ Answers(r, "ok")
  /\ UNCHANGED <<price, deletedBy, active, seen, snap, asked, tries>>

\* Under FOR UPDATE, until the commit.
Reserve(r) ==
  /\ Kind[r] = "reserve" /\ pc[r] = "checked"
  /\ deletedBy = NoOne
  /\ stock >= Amount[r]
  /\ asked[r]
  /\ stock' = stock - Amount[r]
  /\ Answers(r, "ok")
  /\ UNCHANGED <<price, deletedBy, active, seen, snap, asked, tries>>

\* restore_stock follows a reservation that succeeded; a deleted product is
\* skipped, which counts as done.
RestoreLooks(r) ==
  /\ Kind[r] = "restore_stock" /\ pc[r] = "new"
  /\ result[Reservation[r]] = "ok"
  /\ IF deletedBy = NoOne THEN Goes(r, "checked") ELSE Answers(r, "refused")
  /\ UNCHANGED <<stock, price, deletedBy, active, seen, snap, asked, tries>>

\* Mutant of RestoreStock: the column is not bounded.
RestoreUnbounded(r) ==
  /\ Kind[r] = "restore_stock" /\ pc[r] = "checked"
  /\ stock' = stock + Amount[r]
  /\ Answers(r, "ok")
  /\ UNCHANGED <<price, deletedBy, active, seen, snap, asked, tries>>

RestoreStock(r) ==
  /\ Kind[r] = "restore_stock" /\ pc[r] = "checked"
  /\ stock + Amount[r] <= Limit
  /\ stock' = stock + Amount[r]
  /\ Answers(r, "ok")
  /\ UNCHANGED <<price, deletedBy, active, seen, snap, asked, tries>>

\* Mutant of RestoreFails: attempts are not counted.
RestoreRetries(r) ==
  /\ Kind[r] = "restore_stock" /\ pc[r] = "checked"
  /\ Goes(r, "new")
  /\ UNCHANGED <<stock, price, deletedBy, active, seen, snap, asked, tries>>

\* A database error, or a stock out of range: rolled back and tried again,
\* three times in all.
RestoreFails(r) ==
  /\ Kind[r] = "restore_stock" /\ pc[r] = "checked"
  /\ tries' = [tries EXCEPT ![r] = @ + 1]
  /\ IF tries[r] + 1 < MaxAttempts THEN Goes(r, "new") ELSE Answers(r, "refused")
  /\ UNCHANGED <<stock, price, deletedBy, active, seen, snap, asked>>

-----------------------------------------------------------------------------

\* Mutant of Fails: what was taken before the error is not rolled back.
FailsHalfway(r) ==
  /\ pc[r] \in {"checked", "saving"} /\ Kind[r] # "restore_stock"
  /\ Answers(r, "refused")
  /\ IF Kind[r] = "reserve" /\ stock >= Amount[r]
     THEN stock' = stock - Amount[r] ELSE UNCHANGED stock
  /\ UNCHANGED <<price, deletedBy, active, seen, snap, asked, tries>>

\* The handler's catch: an error, an unavailable product of the same
\* reservation, or a category that does not exist rolls everything back.
Fails(r) ==
  /\ pc[r] \in {"checked", "saving"} /\ Kind[r] # "restore_stock"
  /\ Answers(r, "refused")
  /\ UNCHANGED <<stock, price, deletedBy, active, seen, snap, asked, tries>>

\* The seller is suspended, banned, deletes its account, or is restored.
SellerChanges ==
  /\ active' = ~active
  /\ UNCHANGED <<stock, price, deletedBy, pc, seen, snap, asked, tries, result>>

EditNext(r) ==
  \/ Check(r) \/ Refuse(r)
  \/ UpdateStock(r) \/ UpdatePrice(r) \/ Reload(r) \/ Save(r)
  \/ DeleteProduct(r) \/ Undelete(r) \/ BanProduct(r)

StockNext(r) ==
  \/ AskSeller(r) \/ Reserve(r)
  \/ RestoreLooks(r) \/ RestoreStock(r) \/ RestoreFails(r)

Next == (\E r \in Requests : EditNext(r) \/ StockNext(r) \/ Fails(r)) \/ SellerChanges

Spec == Init /\ [][Next]_vars

Restorations == {r \in Requests : Kind[r] = "restore_stock"}

\* A restoration that was delivered is worked on.
Fairness == \A r \in Restorations : WF_vars(RestoreLooks(r) \/ RestoreStock(r) \/ RestoreFails(r))

FairSpec == Spec /\ Fairness

-----------------------------------------------------------------------------
(* Properties.                                                             *)

TookEffect(r) == result[r] = "none" /\ result'[r] = "ok"

\* What a request does to the stock when it takes effect.  A seller's update
\* that names the stock it found may leave a concurrent change as it is.
Moves(r) ==
  /\ Kind[r] = "reserve" => stock' = stock - Amount[r]
  /\ Kind[r] = "restore_stock" => stock' = stock + Amount[r]
  /\ Kind[r] = "update_stock" => stock' = NewStock[r]
  /\ Kind[r] = "update_product" => stock' \in {stock, NewStock[r]}
  /\ Kind[r] = "delete_product" => stock' = 0
  /\ Kind[r] \in {"update_price", "restore_product", "ban_product", "unban_product"} =>
       stock' = stock

\* The stock changes only by what one request says, from what it is at that
\* moment: no reservation or restoration is undone by another request.
StockMoves ==
  [][/\ \A r \in Requests : TookEffect(r) => Moves(r)
     /\ stock' # stock => \E r \in Requests : TookEffect(r)]_vars

\* A unit is reserved only of a product that is not deleted or banned, also
\* when it becomes so while the reservation is under way.
NeverSoldDeleted ==
  [][\A r \in Requests :
       TookEffect(r) /\ Kind[r] = "reserve" => deletedBy = NoOne /\ deletedBy' = NoOne]_vars

\* A restoration ends, whatever fails: it does not retry forever.
RestoreSettles ==
  \A r \in Restorations :
    pc[r] = "new" /\ result[Reservation[r]] = "ok" ~> pc[r] = "done"

-----------------------------------------------------------------------------
(* What the documentation says.                                            *)

\* PUT /product/:productId: fields omitted from the body keep their values.
OmittedKept ==
  [][\A r \in Requests :
       TookEffect(r) /\ Kind[r] = "update_product" =>
         /\ NewStock[r] = Omitted => stock' = stock
         /\ NewPrice[r] = Omitted => price' = price]_vars
=============================================================================
