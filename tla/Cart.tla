--------------------------------- MODULE Cart ---------------------------------
(***************************************************************************)
(* The carts: the rows of cart_db and the copy of each cart in Redis.      *)
(*                                                                         *)
(* A request opens its account's cart from the copy, if there is one, and  *)
(* otherwise from the tables, where a cart is created for an account that  *)
(* has none.  What it writes is computed from what it opened; it drops the *)
(* copy when it has written, purchases and delistings excepted.  A failing *)
(* Redis command counts as a miss, or as done.                             *)
(***************************************************************************)
EXTENDS Naturals, Functions

CONSTANTS
  Customers,     \* accounts that may buy
  Goods,         \* products
  CartRequests,  \* messages: [id, kind, by, product, units, row, again]
  OldCarts,      \* the carts there are at first, by account
  MostUnits      \* the largest amount: the column is a SMALLINT UNSIGNED

CartKinds == {"get", "add", "remove", "set", "clear", "reserve", "bought"}

\* A row or a cart is named by the request that inserted it; 0 is none.
Ids    == Nat
NoRow  == [id |-> 0, amount |-> 0]
Rows   == [id : Ids, amount : 0..MostUnits]
Copies == [id : Ids, rows : [Goods -> Rows]]
NoCart == [id |-> 0, rows |-> [p \in Goods |-> NoRow]]

ASSUME CartAssumption ==
  /\ MostUnits \in Nat
  /\ CartRequests \subseteq
       [id : Nat \ {0}, kind : CartKinds, by : Customers, product : Goods,
        units : Nat, row : Ids, again : Nat]
  /\ \A q, r \in CartRequests : q.id = r.id => q = r
  /\ OldCarts \in [Customers -> Copies]
  /\ \A r \in CartRequests : r.kind = "add" => r.units > 0

\* What the keys of the tables say of the rows there are at first.
ASSUME OldCartsAssumption ==
  /\ \A a \in Customers :
       /\ OldCarts[a].id = 0 => OldCarts[a] = NoCart
       /\ \A p \in Goods : OldCarts[a].rows[p].id = 0 => OldCarts[a].rows[p] = NoRow
       /\ \A r \in CartRequests :
            r.id # OldCarts[a].id /\ \A p \in Goods : r.id # OldCarts[a].rows[p].id
  /\ \A a, b \in Customers : a # b =>
       /\ OldCarts[a].id = OldCarts[b].id => OldCarts[a].id = 0
       /\ \A p, q \in Goods : OldCarts[a].rows[p].id = OldCarts[b].rows[q].id =>
                              OldCarts[a].rows[p].id = 0

VARIABLES
  cart,       \* the account's cart with its rows, or NoCart
  cached,     \* cart:<account>, or NoCart
  listed,     \* the products that are not deleted, in the product service
  delisting,  \* delete.products.from.carts messages in flight
  step,       \* what each request does next
  copy,       \* the cart it opened
  found,      \* the amount the save() of an addition read
  answer      \* what it answered

cartVars == <<cart, cached, listed, delisting, step, copy, found, answer>>

CartTypeOK ==
  /\ cart \in [Customers -> Copies]
  /\ cached \in [Customers -> Copies]
  /\ listed \subseteq Goods
  /\ delisting \subseteq Goods
  /\ step \in [CartRequests ->
       {"unsent", "later", "new", "creating", "opened", "listed", "active", "found",
        "gone", "saved", "done"}]
  /\ copy \in [CartRequests -> Copies]
  /\ found \in [CartRequests -> 0..MostUnits]
  /\ answer \in [CartRequests -> {"none", "ok", "refused", "error"}]

\* The requests of mix are on their way; repetitions later.
CartInit(mix) ==
  /\ cart = OldCarts
  /\ cached \in [Customers -> {NoCart}] \cup {OldCarts}
  /\ delisting = {}
  /\ step = [r \in CartRequests |-> IF r \notin mix THEN "unsent"
                                   ELSE IF r.again = 0 THEN "new" ELSE "later"]
  /\ copy = [r \in CartRequests |-> NoCart]
  /\ found = [r \in CartRequests |-> 0]
  /\ answer = [r \in CartRequests |-> "none"]

CartGoes(r, next) ==
  /\ step' = [step EXCEPT ![r] = next]
  /\ UNCHANGED answer

CartAnswers(r, reply) ==
  /\ step' = [step EXCEPT ![r] = "done"]
  /\ answer' = [answer EXCEPT ![r] = reply]

\* withRetry in the gateway: no answer for 3 s, so the message is sent again.
Resend(r) ==
  /\ step[r] = "later"
  /\ \E q \in CartRequests : q.id = r.again /\ step[q] \notin {"unsent", "done"}
  /\ CartGoes(r, "new")
  /\ UNCHANGED <<cart, cached, listed, delisting, copy, found>>

\* A cart with the rows of some of its products.
Only(view, some) ==
  [id |-> view.id, rows |-> [p \in Goods |-> IF p \in some THEN view.rows[p] ELSE NoRow]]

-----------------------------------------------------------------------------
(* Opening the cart.                                                       *)

Opens(r) == r.kind \notin {"clear", "reserve"} /\ step[r] = "new"

\* GET cart:<account>.  getCart answers with the copy.
OpenCached(r) ==
  /\ Opens(r) /\ cached[r.by] # NoCart
  /\ copy' = [copy EXCEPT ![r] = cached[r.by]]
  /\ IF r.kind = "get" THEN CartAnswers(r, "ok") ELSE CartGoes(r, "opened")
  /\ UNCHANGED <<cart, cached, listed, delisting, found>>

\* A miss: myCart reads the tables,
MyCart(r) ==
  /\ Opens(r)
  /\ IF cart[r.by] # NoCart
     THEN copy' = [copy EXCEPT ![r] = cart[r.by]] /\ CartGoes(r, "opened")
     ELSE UNCHANGED copy /\ CartGoes(r, "creating")
  /\ UNCHANGED <<cart, cached, listed, delisting, found>>

\* and inserts a cart, unless another request has: account_id is UNIQUE.
CreateCart(r) ==
  LET new == [NoCart EXCEPT !.id = r.id] IN
  /\ step[r] = "creating" /\ cart[r.by] = NoCart
  /\ cart' = [cart EXCEPT ![r.by] = new]
  /\ copy' = [copy EXCEPT ![r] = new]
  /\ CartGoes(r, "opened")
  /\ UNCHANGED <<cached, listed, delisting, found>>

-----------------------------------------------------------------------------
(* getCart.                                                                *)

\* An empty cart is answered as it is; of another only what is listed.
ListGoods(r) ==
  /\ r.kind = "get" /\ step[r] = "opened"
  /\ IF copy[r].rows = NoCart.rows
     THEN UNCHANGED copy /\ CartAnswers(r, "ok")
     ELSE /\ copy' = [copy EXCEPT ![r] = Only(copy[r], listed)]
          /\ CartGoes(r, "listed")
  /\ UNCHANGED <<cart, cached, listed, delisting, found>>

\* SET cart:<account> EX 30.
FillCart(r) ==
  /\ step[r] = "listed"
  /\ cached' \in {cached, [cached EXCEPT ![r.by] = copy[r]]}
  /\ CartAnswers(r, "ok")
  /\ UNCHANGED <<cart, listed, delisting, copy, found>>

\* Mutant of CopyExpires: SET without EX.
CopyExpiresNever(a) == FALSE /\ UNCHANGED cartVars

CopyExpires(a) ==
  /\ cached[a] # NoCart
  /\ cached' = [cached EXCEPT ![a] = NoCart]
  /\ UNCHANGED <<cart, listed, delisting, step, copy, found, answer>>

-----------------------------------------------------------------------------
(* addToCart.                                                              *)

Opened(r, kind) == r.kind = kind /\ step[r] = "opened"

\* is_active.
AskActive(r) ==
  /\ Opened(r, "add")
  /\ IF r.product \in listed THEN CartGoes(r, "active") ELSE CartAnswers(r, "refused")
  /\ UNCHANGED <<cart, cached, listed, delisting, copy, found>>

Had(r)   == copy[r].rows[r.product]
NewAmount(r) == Had(r).amount + r.units

\* save() of a row that the cart had looks for it by its id,
FindRow(r) ==
  LET row == cart[r.by].rows[r.product] IN
  /\ step[r] = "active" /\ Had(r) # NoRow
  /\ IF row.id = Had(r).id
     THEN found' = [found EXCEPT ![r] = row.amount] /\ CartGoes(r, "found")
     ELSE UNCHANGED found /\ CartGoes(r, "gone")
  /\ UNCHANGED <<cart, cached, listed, delisting, copy>>

\* Mutant of UpdateRow: the total is added to the amount of the row.
UpdateRowTwice(r) ==
  LET row == cart[r.by].rows[r.product] IN
  /\ step[r] = "found" /\ row.amount + NewAmount(r) <= MostUnits
  /\ cart' = IF row.id # Had(r).id THEN cart
             ELSE [cart EXCEPT ![r.by].rows[r.product].amount = row.amount + NewAmount(r)]
  /\ CartGoes(r, "saved")
  /\ UNCHANGED <<cached, listed, delisting, copy, found>>

\* Mutant of UpdateRow: the column is not bounded.
UpdateRowUnbounded(r) ==
  LET row == cart[r.by].rows[r.product] IN
  /\ step[r] = "found"
  /\ cart' = IF row.id # Had(r).id \/ NewAmount(r) = found[r] THEN cart
             ELSE [cart EXCEPT ![r.by].rows[r.product].amount = NewAmount(r)]
  /\ CartGoes(r, "saved")
  /\ UNCHANGED <<cached, listed, delisting, copy, found>>

\* and writes the amount if it is not that of the row; by then the row may be
\* gone, and no row is updated.
UpdateRow(r) ==
  LET row == cart[r.by].rows[r.product] IN
  /\ step[r] = "found" /\ NewAmount(r) <= MostUnits
  /\ cart' = IF row.id # Had(r).id \/ NewAmount(r) = found[r] THEN cart
             ELSE [cart EXCEPT ![r.by].rows[r.product].amount = NewAmount(r)]
  /\ CartGoes(r, "saved")
  /\ UNCHANGED <<cached, listed, delisting, copy, found>>

\* A row the cart did not have, or that save() did not find: inserted, with
\* the id it had.  Its cart must exist, with no other row of the product.
InsertRow(r) ==
  /\ \/ step[r] = "active" /\ Had(r) = NoRow
     \/ step[r] = "gone"
  /\ cart[r.by] # NoCart /\ cart[r.by].id = copy[r].id
  /\ cart[r.by].rows[r.product] = NoRow
  /\ NewAmount(r) <= MostUnits
  /\ cart' = [cart EXCEPT ![r.by].rows[r.product] =
                [id |-> IF step[r] = "gone" THEN Had(r).id ELSE r.id, amount |-> NewAmount(r)]]
  /\ CartGoes(r, "saved")
  /\ UNCHANGED <<cached, listed, delisting, copy, found>>

-----------------------------------------------------------------------------
(* deleteFromCart, setAmount, deleteCart, makeReserve.                     *)

\* Mutant of Named: AND cartId = .. is missing.
NamedAnywhere(r, a, p) == cart[a].rows[p] # NoRow /\ cart[a].rows[p].id = r.row

\* WHERE id = .. AND cartId = ..
Named(r, a, p) ==
  /\ cart[a].rows[p] # NoRow
  /\ cart[a].rows[p].id = r.row /\ cart[a].id = copy[r].id

NamedBy(r) == {x \in Customers \X Goods : Named(r, x[1], x[2])}

\* What a DELETE of some rows leaves.
Without(gone) ==
  [a \in Customers |-> Only(cart[a], {p \in Goods : <<a, p>> \notin gone})]

RemoveRow(r) ==
  /\ Opened(r, "remove") \/ (Opened(r, "set") /\ r.units = 0)
  /\ cart' = Without(NamedBy(r))
  /\ IF NamedBy(r) # {} THEN CartGoes(r, "saved") ELSE CartAnswers(r, "refused")
  /\ UNCHANGED <<cached, listed, delisting, copy, found>>

SetAmount(r) ==
  /\ Opened(r, "set") /\ r.units \in 1..MostUnits
  /\ cart' = [a \in Customers |->
                [id |-> cart[a].id,
                 rows |-> [p \in Goods |-> IF <<a, p>> \in NamedBy(r)
                                          THEN [id |-> r.row, amount |-> r.units]
                                          ELSE cart[a].rows[p]]]]
  /\ IF NamedBy(r) # {} THEN CartGoes(r, "saved") ELSE CartAnswers(r, "refused")
  /\ UNCHANGED <<cached, listed, delisting, copy, found>>

\* The rows go with the cart: ON DELETE CASCADE.
ClearCart(r) ==
  /\ r.kind = "clear" /\ step[r] = "new"
  /\ cart' = [cart EXCEPT ![r.by] = NoCart]
  /\ IF cart[r.by] # NoCart THEN CartGoes(r, "saved") ELSE CartAnswers(r, "refused")
  /\ UNCHANGED <<cached, listed, delisting, copy, found>>

\* The rows that reserve is asked for, of the tables and never of the copy: the
\* whole cart, or the row of an id if it is the account's.
MakeReserve(r) ==
  LET taken == Only(cart[r.by], {p \in Goods : r.row \in {0, cart[r.by].rows[p].id}}) IN
  /\ r.kind = "reserve" /\ step[r] = "new"
  /\ copy' = [copy EXCEPT ![r] = taken]
  /\ CartAnswers(r, IF taken.rows = NoCart.rows THEN "refused" ELSE "ok")
  /\ UNCHANGED <<cart, cached, listed, delisting, found>>

\* DEL cart:<account>, awaited; it may fail, of which only setAmount tells.
DropCopy(r) ==
  /\ step[r] = "saved"
  /\ \/ cached' = [cached EXCEPT ![r.by] = NoCart] /\ CartAnswers(r, "ok")
     \/ UNCHANGED cached
        /\ CartAnswers(r, IF r.kind = "set" /\ r.units > 0 THEN "error" ELSE "ok")
  /\ UNCHANGED <<cart, listed, delisting, copy, found>>

-----------------------------------------------------------------------------
(* What other services ask for: the copy is not dropped.                   *)

\* A product of an order that was paid.
RemoveBought(r) ==
  /\ Opened(r, "bought")
  /\ cart' = Without({x \in Customers \X Goods : x[2] = r.product /\ cart[x[1]].id = copy[r].id})
  /\ CartAnswers(r, "ok")
  /\ UNCHANGED <<cached, listed, delisting, copy, found>>

\* A product that was deleted or banned goes from every cart.
RemoveDelisted(p) ==
  /\ p \in delisting
  /\ delisting' = delisting \ {p}
  /\ cart' = Without(Customers \X {p})
  /\ UNCHANGED <<cached, listed, step, copy, found, answer>>

\* Nothing is retried: the message, or its DELETE, is lost.
DelistingLost(p) ==
  /\ p \in delisting
  /\ delisting' = delisting \ {p}
  /\ UNCHANGED <<cart, cached, listed, step, copy, found, answer>>

\* The catch of every handler: the database or the product service fails, the
\* amount is out of range, or a key is violated.
CartFails(r) ==
  /\ step[r] \in {"new", "creating", "opened", "active", "found", "gone"}
  /\ CartAnswers(r, "error")
  /\ UNCHANGED <<cart, cached, listed, delisting, copy, found>>

CartWork(r) ==
  \/ OpenCached(r) \/ MyCart(r) \/ CreateCart(r)
  \/ ListGoods(r) \/ FillCart(r)
  \/ AskActive(r) \/ FindRow(r) \/ UpdateRow(r) \/ InsertRow(r)
  \/ RemoveRow(r) \/ SetAmount(r) \/ ClearCart(r) \/ MakeReserve(r) \/ DropCopy(r)
  \/ RemoveBought(r) \/ CartFails(r)

CartStep ==
  \/ \E r \in CartRequests : CartWork(r) \/ Resend(r)
  \/ \E p \in Goods : RemoveDelisted(p) \/ DelistingLost(p)
  \/ \E a \in Customers : CopyExpires(a)

\* The product service lists and delists, and says so or not.
Delist ==
  /\ listed' \in SUBSET Goods
  /\ delisting' \in SUBSET Goods
  /\ UNCHANGED <<cart, cached, step, copy, found, answer>>

CartNext == CartStep \/ Delist

CartSpec ==
  /\ \E mix \in SUBSET CartRequests : CartInit(mix)
  /\ listed \in SUBSET Goods
  /\ [][CartNext]_cartVars

-----------------------------------------------------------------------------
(* Properties.                                                             *)

\* A setAmount may have written although dropping the copy failed.
Saved(r) ==
  \/ step[r] = "saved"
  \/ step[r] = "done" /\ (answer[r] = "ok" \/ (r.kind = "set" /\ answer[r] = "error"))

\* The messages that added a product to a cart and have been saved.  One that
\* the gateway repeats is a second message to this service: it bears no token.
Additions(a, p) ==
  {r \in CartRequests : r.kind = "add" /\ r.by = a /\ r.product = p /\ Saved(r)}

\* The amounts a row was set to, or that the cart had at first, or none.
Bases(a, p, row) ==
  {0, OldCarts[a].rows[p].amount}
    \cup {r.units : r \in {q \in CartRequests :
                            q.kind = "set" /\ q.by = a /\ q.row = row.id /\ Saved(q)}}

\* An amount that was set, plus the units of some messages, none of them twice.
Explained(a, p, row) ==
  \E base \in Bases(a, p, row), some \in SUBSET Additions(a, p) :
    row.amount = base + SumFunctionOnSet([r \in CartRequests |-> r.units], some)

\* Whatever overlaps or goes by an old copy: the amounts in the carts are
\* explained by the messages of their accounts that reached the service.  Of
\* clicks it says nothing: what the gateway repeats is added twice.
AmountExplained ==
  \A a \in Customers, p \in Goods :
    cart[a].rows[p] # NoRow => Explained(a, p, cart[a].rows[p])

\* Rows change only by a request of the account that opened this very cart: not
\* by one of another account that names them, and not by one that opened a
\* cart of the account's that has been cleared since.
OpenedCartOnly ==
  [][\A a \in Customers :
       cart'[a].rows # cart[a].rows =>
         \/ delisting' # delisting
         \/ cart'[a] = NoCart
         \/ \E r \in CartRequests :
              step'[r] # step[r] /\ r.by = a /\ copy[r].id = cart[a].id]_cartVars

\* When nobody changes a cart any more, the copy soon agrees with the rows, or
\* there is none; also after purchases and delistings, which do not drop it.
CopyCatchesUp == <>[](\A a \in Customers : cached[a] \in {NoCart, Only(cart[a], listed)})
=============================================================================
