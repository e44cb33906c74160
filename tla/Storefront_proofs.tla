--------------------------- MODULE Storefront_proofs ---------------------------
(***************************************************************************)
(* What holds of all carts and requests: the amounts stay within their     *)
(* column and are what was asked for, and rows change only by a request    *)
(* that opened their very cart.  Then carts and catalogue together: each   *)
(* goes on as its own specification says, so what was proved of either     *)
(* holds of both.                                                          *)
(*                                                                         *)
(* A copy of a cart may be old, and what it names may be gone or there     *)
(* again.  What matters is that an id never comes to mean something else:  *)
(* no cart id two accounts, no row id two carts.                           *)
(***************************************************************************)
EXTENDS Storefront, Catalogue_proofs, Sums_proofs, TLAPS

CartSteps == {"unsent", "later", "new", "creating", "opened", "listed", "active", "found",
              "gone", "saved", "done"}
CartReplies == {"none", "ok", "refused", "error"}

\* An id of 0 is no cart, and no row.
Made ==
  {v \in Copies : /\ v.id = 0 => v = NoCart
                  /\ \A p \in Goods : v.rows[p].id = 0 => v.rows[p] = NoRow}

Typed ==
  /\ CartTypeOK
  /\ cart \in [Customers -> Made]
  /\ cached \in [Customers -> Made]
  /\ copy \in [CartRequests -> Made]

\* Where an account and a cart, or a row and a cart, are seen together: in the
\* tables, in Redis, or by a request.
OfAccount(a, i) ==
  \/ cart[a].id = i
  \/ cached[a].id = i
  \/ \E r \in CartRequests : r.by = a /\ copy[r].id = i

RowOf(v, i, j) == v.id = i /\ \E p \in Goods : v.rows[p].id = j

InCart(j, i) ==
  \/ \E a \in Customers : RowOf(cart[a], i, j) \/ RowOf(cached[a], i, j)
  \/ \E r \in CartRequests : RowOf(copy[r], i, j)

OneOwner ==
  \A a, b \in Customers, i \in Nat \ {0} : OfAccount(a, i) /\ OfAccount(b, i) => a = b
OneCart ==
  \A j \in Nat \ {0}, i, k \in Nat : InCart(j, i) /\ InCart(j, k) => i = k

\* Nothing has the id of a request that has yet to insert it.
Early == {"unsent", "later", "new", "creating"}
Ended == {"saved", "done"}
Fresh ==
  \A r \in CartRequests :
    /\ step[r] \in Early => \A a \in Customers : ~OfAccount(a, r.id)
    /\ step[r] \notin Ended => \A i \in Nat : ~InCart(r.id, i)

\* What a request knows where it is.
Knows(r) ==
  /\ step[r] \in {"opened", "listed", "active", "found", "gone"} => copy[r].id # 0
  /\ step[r] \in {"found", "gone"} => Had(r) # NoRow
Known == \A r \in CartRequests : Knows(r)

CartInv == Typed /\ OneOwner /\ OneCart /\ Fresh /\ Known

\* Every id that v has, an account's copy, has been seen there.
Older(v, a) ==
  /\ v.id # 0 => OfAccount(a, v.id)
  /\ \A p \in Goods : v.rows[p].id # 0 => InCart(v.rows[p].id, v.id)

-----------------------------------------------------------------------------

\* The fields of a cart that was made: row and cart without an id are none at all.
LEMMA MadeFields ==
  ASSUME NEW v \in Made
  PROVE  /\ v \in Copies /\ v.id \in Nat /\ v.rows \in [Goods -> Rows]
         /\ v = [id |-> v.id, rows |-> v.rows]
         /\ v.id = 0 => v = NoCart
         /\ \A p \in Goods : /\ v.rows[p] \in Rows /\ v.rows[p].id \in Nat
                             /\ v.rows[p].amount \in 0..MostUnits
                             /\ v.rows[p].id = 0 => v.rows[p] = NoRow
  BY DEF Made, Copies, Rows, Ids

\* The absence of a cart counts as one: an account begins without.
LEMMA NoCartMade == NoCart \in Made
  BY CartAssumption DEF NoCart, NoRow, Made, Copies, Rows, Ids

\* Keeping some rows of a cart keeps its id, and invents no row.
LEMMA OnlyMade ==
  ASSUME NEW v \in Made, NEW some
  PROVE  /\ Only(v, some) \in Made /\ Only(v, some).id = v.id
         /\ \A p \in Goods : Only(v, some).rows[p] \in {v.rows[p], NoRow}
<1>1. NoRow \in Rows /\ NoRow.id = 0
  BY CartAssumption DEF NoRow, Rows, Ids
<1>2. Only(v, some) \in Copies /\ Only(v, some).id = v.id
  BY <1>1, MadeFields DEF Only, Copies, Ids
<1>3. \A p \in Goods : Only(v, some).rows[p] \in {v.rows[p], NoRow}
  BY DEF Only
<1>4. v.id = 0 => Only(v, some) = NoCart
  BY MadeFields DEF Only, NoCart
<1>5. \A p \in Goods : Only(v, some).rows[p].id = 0 => Only(v, some).rows[p] = NoRow
  BY <1>1, <1>3, MadeFields
<1> QED BY <1>2, <1>3, <1>4, <1>5 DEF Made

\* Some rows of a cart show no id that the cart did not show.
LEMMA OlderOnly ==
  ASSUME NEW v \in Made, NEW a, Older(v, a), NEW some
  PROVE  Older(Only(v, some), a)
<1>1. NoRow.id = 0
  BY DEF NoRow
<1> QED BY <1>1, OnlyMade DEF Older

\* What the tables, Redis and the requests hold has been seen, by definition.
LEMMA SeenOlder ==
  ASSUME Typed
  PROVE  /\ \A a \in Customers : Older(cart[a], a) /\ Older(cached[a], a)
         /\ \A r \in CartRequests : Older(copy[r], r.by)
  BY CartAssumption DEF Older, OfAccount, InCart, RowOf

\* A row of a cart that has been seen has been seen in that cart.
LEMMA OlderRow ==
  ASSUME NEW v, NEW a, Older(v, a), NEW i, NEW j, j # 0, RowOf(v, i, j)
  PROVE  InCart(j, i)
<1> PICK p \in Goods : v.id = i /\ v.rows[p].id = j
  BY DEF RowOf
<1> QED BY DEF Older

\* No cart shows no id.
LEMMA OlderNone == \A a : Older(NoCart, a)
  BY DEF Older, NoCart, NoRow

\* A step after which nothing is seen that was not seen before.
LEMMA Quiet ==
  ASSUME CartInv, Typed',
         \A a \in Customers : Older(cart'[a], a) /\ Older(cached'[a], a),
         \A r \in CartRequests : Older(copy'[r], r.by),
         \A r \in CartRequests :
           /\ step'[r] \in Early => step[r] \in Early
           /\ step'[r] \notin Ended => step[r] \notin Ended,
         Known'
  PROVE  CartInv'
<1>1. \A a \in Customers, i \in Nat \ {0} : OfAccount(a, i)' => OfAccount(a, i)
  BY DEF Older, OfAccount
<1>2. \A j \in Nat \ {0}, i \in Nat : InCart(j, i)' => InCart(j, i)
  <2> SUFFICES ASSUME NEW j \in Nat \ {0}, NEW i \in Nat, InCart(j, i)'
               PROVE  InCart(j, i)
    OBVIOUS
  <2>1. ASSUME NEW a \in Customers, RowOf(cart'[a], i, j) \/ RowOf(cached'[a], i, j)
        PROVE  InCart(j, i)
    BY <2>1, OlderRow
  <2>2. ASSUME NEW r \in CartRequests, RowOf(copy'[r], i, j)
        PROVE  InCart(j, i)
    BY <2>2, OlderRow
  <2> QED BY <2>1, <2>2 DEF InCart, RowOf
<1>3. OneOwner'
  BY <1>1 DEF CartInv, OneOwner
<1>4. OneCart'
  BY <1>2 DEF CartInv, OneCart
<1>5. Fresh'
  BY <1>1, <1>2, CartAssumption DEF CartInv, Fresh
<1> QED BY <1>3, <1>4, <1>5 DEF CartInv
-----------------------------------------------------------------------------
(* Steps of requests.                                                          *)

\* Going on to a step moves only the request that does.
LEMMA CartGoesTyped ==
  ASSUME CartTypeOK, NEW r \in CartRequests, NEW next \in CartSteps, CartGoes(r, next)
  PROVE  /\ step' \in [CartRequests -> CartSteps] /\ answer' \in [CartRequests -> CartReplies]
         /\ step'[r] = next /\ \A q \in CartRequests \ {r} : step'[q] = step[q]
  BY DEF CartTypeOK, CartGoes, CartSteps, CartReplies

\* Answering ends only the request that answers.
LEMMA CartAnswersTyped ==
  ASSUME CartTypeOK, NEW r \in CartRequests, NEW reply \in CartReplies, CartAnswers(r, reply)
  PROVE  /\ step' \in [CartRequests -> CartSteps] /\ answer' \in [CartRequests -> CartReplies]
         /\ step'[r] = "done" /\ \A q \in CartRequests \ {r} : step'[q] = step[q]
  BY DEF CartTypeOK, CartAnswers, CartSteps, CartReplies

\* The step of one request that writes copies of what has been seen.
Moved(r) ==
  /\ step' \in [CartRequests -> CartSteps] /\ answer' \in [CartRequests -> CartReplies]
  /\ \A q \in CartRequests \ {r} :
       step'[q] = step[q] /\ copy'[q] = copy[q] /\ found'[q] = found[q]
  /\ step[r] \notin Early => step'[r] \notin Early
  /\ step[r] \in Ended => step'[r] \in Ended

\* A step of one request that shows its account nothing new: the shape of all
\* but the two insertions.
LEMMA MovedKeeps ==
  ASSUME CartInv, NEW r \in CartRequests, Moved(r), UNCHANGED <<listed, delisting>>,
         cart' \in [Customers -> Made], cached' \in [Customers -> Made],
         copy' \in [CartRequests -> Made], found' \in [CartRequests -> 0..MostUnits],
         \A a \in Customers : Older(cart'[a], a) /\ Older(cached'[a], a),
         Older(copy'[r], r.by), Knows(r)'
  PROVE  CartInv'
<1>1. Typed'
  BY DEF CartInv, Typed, CartTypeOK, Moved, CartSteps, CartReplies, Made
<1>2. \A q \in CartRequests : Older(copy'[q], q.by)
  BY SeenOlder DEF CartInv, Moved
<1>3. Known'
  BY DEF CartInv, Known, Knows, Had, Moved
<1>4. \A q \in CartRequests :
        /\ step'[q] \in Early => step[q] \in Early
        /\ step'[q] \notin Ended => step[q] \notin Ended
  BY DEF Moved
<1> QED BY <1>1, <1>2, <1>3, <1>4, Quiet

\* The fields of a request, from the assumption on the constant.
LEMMA BuyFields ==
  ASSUME NEW r \in CartRequests
  PROVE  /\ r.id \in Nat \ {0} /\ r.by \in Customers /\ r.product \in Goods
         /\ r.units \in Nat /\ r.row \in Nat /\ r.kind \in CartKinds
  BY CartAssumption DEF Ids

\* A step that leaves the carts and their copies alone.
LEMMA StayKeeps ==
  ASSUME CartInv, NEW r \in CartRequests, Moved(r),
         UNCHANGED <<cart, cached, listed, delisting, copy>>,
         found' \in [CartRequests -> 0..MostUnits], Knows(r)'
  PROVE  CartInv'
<1>1. Typed
  BY DEF CartInv
<1> QED BY <1>1, SeenOlder, MovedKeeps DEF Typed

\* The gateway asks again: the request starts over and knows nothing yet.
LEMMA ResendKeeps ==
  ASSUME CartInv, NEW r \in CartRequests, Resend(r)
  PROVE  CartInv'
<1>1. CartTypeOK
  BY DEF CartInv, Typed
<1>2. Moved(r) /\ step'[r] = "new"
  BY <1>1, CartGoesTyped DEF Resend, Moved, Early, Ended, CartSteps
<1>3. Knows(r)'
  BY <1>2 DEF Knows
<1> QED BY <1>1, <1>2, <1>3, StayKeeps DEF Resend, CartTypeOK

\* isActive is asked, or a call of the request fails.
LEMMA AskKeeps ==
  ASSUME CartInv, NEW r \in CartRequests, AskActive(r) \/ CartFails(r)
  PROVE  CartInv'
<1>1. CartTypeOK
  BY DEF CartInv, Typed
<1>2. CASE AskActive(r)
  <2>1. Moved(r) /\ step'[r] \in {"active", "done"}
    BY <1>1, <1>2, CartGoesTyped, CartAnswersTyped
    DEF AskActive, Opened, Moved, Early, Ended, CartSteps, CartReplies
  <2>2. Knows(r)'
    BY <1>2, <2>1 DEF AskActive, Opened, CartInv, Known, Knows
  <2> QED BY <1>1, <1>2, <2>1, <2>2, StayKeeps DEF AskActive, CartTypeOK
<1>3. CASE CartFails(r)
  <2>1. Moved(r) /\ step'[r] = "done"
    BY <1>1, <1>3, CartAnswersTyped DEF CartFails, Moved, Early, Ended, CartReplies
  <2>2. Knows(r)'
    BY <2>1 DEF Knows
  <2> QED BY <1>1, <1>3, <2>1, <2>2, StayKeeps DEF CartFails, CartTypeOK
<1> QED BY <1>2, <1>3

\* The row is looked up in the cart that was opened.
LEMMA FindKeeps ==
  ASSUME CartInv, NEW r \in CartRequests, FindRow(r)
  PROVE  CartInv'
<1>1. CartTypeOK /\ Typed
  BY DEF CartInv, Typed
<1>2. cart[r.by].rows[r.product].amount \in 0..MostUnits
  BY <1>1, BuyFields, MadeFields DEF Typed
<1>3. Moved(r) /\ step'[r] \in {"found", "gone"}
  BY <1>1, CartGoesTyped DEF FindRow, Moved, Early, Ended, CartSteps, CartTypeOK
<1>4. found' \in [CartRequests -> 0..MostUnits]
  BY <1>1, <1>2 DEF FindRow, CartTypeOK
<1>5. Knows(r)'
  BY <1>3 DEF FindRow, CartInv, Known, Knows, Had
<1> QED BY <1>3, <1>4, <1>5, StayKeeps DEF FindRow

\* A step that opens a cart, or answers with one.
LEMMA OpenKeeps ==
  ASSUME CartInv, NEW r \in CartRequests, NEW v \in Made, Older(v, r.by), Moved(r),
         copy' = [copy EXCEPT ![r] = v], UNCHANGED <<cart, cached, listed, delisting, found>>,
         step'[r] \notin {"found", "gone"}, v.id # 0 \/ step'[r] = "done"
  PROVE  CartInv'
<1>1. Typed
  BY DEF CartInv
<1>2. copy' \in [CartRequests -> Made] /\ copy'[r] = v
  BY <1>1 DEF Typed
<1>3. Knows(r)'
  BY <1>2 DEF Knows
<1> QED BY <1>1, <1>2, <1>3, SeenOlder, MovedKeeps DEF Typed, CartTypeOK

\* The cart is opened from Redis.
LEMMA OpenCachedKeeps ==
  ASSUME CartInv, NEW r \in CartRequests, OpenCached(r)
  PROVE  CartInv'
<1>1. CartTypeOK /\ Typed
  BY DEF CartInv, Typed
<1>2. cached[r.by] \in Made /\ cached[r.by].id # 0 /\ Older(cached[r.by], r.by)
  BY <1>1, BuyFields, MadeFields, SeenOlder DEF OpenCached, Typed
<1>3. Moved(r) /\ step'[r] \in {"opened", "done"}
  BY <1>1, CartGoesTyped, CartAnswersTyped
  DEF OpenCached, Opens, Moved, Early, Ended, CartSteps, CartReplies, CartTypeOK
<1> QED BY <1>2, <1>3, OpenKeeps DEF OpenCached

\* The cart is opened from the tables, or is about to be created.
LEMMA MyCartKeeps ==
  ASSUME CartInv, NEW r \in CartRequests, MyCart(r)
  PROVE  CartInv'
<1>1. CartTypeOK /\ Typed
  BY DEF CartInv, Typed
<1>2. cart[r.by] \in Made /\ Older(cart[r.by], r.by)
  BY <1>1, BuyFields, SeenOlder DEF Typed
<1>3. Moved(r) /\ step'[r] \in {"opened", "creating"}
  BY <1>1, CartGoesTyped DEF MyCart, Opens, Moved, Early, Ended, CartSteps, CartTypeOK
<1>4. CASE cart[r.by] # NoCart
  <2>1. cart[r.by].id # 0
    BY <1>2, <1>4, MadeFields
  <2> QED BY <1>2, <1>3, <1>4, <2>1, OpenKeeps DEF MyCart
<1>5. CASE cart[r.by] = NoCart
  <2>1. step'[r] = "creating"
    BY <1>1, <1>5, CartGoesTyped DEF MyCart, CartSteps
  <2>2. Knows(r)'
    BY <2>1 DEF Knows
  <2> QED BY <1>1, <1>3, <1>5, <2>2, StayKeeps DEF MyCart, CartTypeOK
<1> QED BY <1>4, <1>5

\* Rows of products no longer for sale are left out of the answer.
LEMMA ListKeeps ==
  ASSUME CartInv, NEW r \in CartRequests, ListGoods(r)
  PROVE  CartInv'
<1>1. CartTypeOK /\ Typed /\ copy[r] \in Made /\ Older(copy[r], r.by) /\ copy[r].id # 0
  BY SeenOlder DEF CartInv, Typed, Known, Knows, ListGoods
<1>2. Only(copy[r], listed) \in Made /\ Only(copy[r], listed).id # 0
  BY <1>1, OnlyMade
<1>3. Older(Only(copy[r], listed), r.by)
  BY <1>1, OlderOnly
<1>4. Moved(r) /\ step'[r] \in {"listed", "done"}
  BY <1>1, CartGoesTyped, CartAnswersTyped
  DEF ListGoods, Moved, Early, Ended, CartSteps, CartReplies, CartTypeOK
<1>5. CASE copy[r].rows = NoCart.rows
  <2>1. copy' = [copy EXCEPT ![r] = copy[r]]
    BY <1>1, <1>5 DEF ListGoods, CartTypeOK
  <2> QED BY <1>1, <1>4, <2>1, OpenKeeps DEF ListGoods
<1>6. CASE copy[r].rows # NoCart.rows
  BY <1>2, <1>3, <1>4, <1>6, OpenKeeps DEF ListGoods
<1> QED BY <1>5, <1>6

\* The rows to be bought are read.
LEMMA ReserveKeeps ==
  ASSUME CartInv, NEW r \in CartRequests, MakeReserve(r)
  PROVE  CartInv'
<1> DEFINE taken == Only(cart[r.by], {p \in Goods : r.row \in {0, cart[r.by].rows[p].id}})
<1>1. CartTypeOK /\ Typed
  BY DEF CartInv, Typed
<1>2. cart[r.by] \in Made /\ Older(cart[r.by], r.by)
  BY <1>1, BuyFields, SeenOlder DEF Typed
<1>3. taken \in Made /\ Older(taken, r.by)
  BY <1>2, OnlyMade, OlderOnly
<1>4. Moved(r) /\ step'[r] = "done"
  BY <1>1, CartAnswersTyped DEF MakeReserve, Moved, Early, Ended, CartReplies, CartTypeOK
<1>5. copy' = [copy EXCEPT ![r] = taken] /\ UNCHANGED <<cart, cached, listed, delisting, found>>
  BY DEF MakeReserve
<1> HIDE DEF taken
<1> QED BY <1>3, <1>4, <1>5, OpenKeeps

-----------------------------------------------------------------------------
(* Steps that write Redis.                                                     *)

\* A last step that may write the account's copy in Redis.
LEMMA CopyKeeps ==
  ASSUME CartInv, NEW r \in CartRequests, Moved(r), NEW v \in Made, Older(v, r.by),
         cached' \in {cached, [cached EXCEPT ![r.by] = v]}, step'[r] = "done",
         UNCHANGED <<cart, listed, delisting, copy, found>>
  PROVE  CartInv'
<1>1. Typed /\ r.by \in Customers
  BY BuyFields DEF CartInv
<1>2. cached' \in [Customers -> Made]
  BY <1>1 DEF Typed
<1>3. \A a \in Customers : Older(cart'[a], a) /\ Older(cached'[a], a)
  BY <1>1, SeenOlder DEF Typed
<1>4. Knows(r)'
  BY DEF Knows
<1> QED BY <1>1, <1>2, <1>3, <1>4, SeenOlder, MovedKeeps DEF Typed, CartTypeOK

\* The cart read is written to Redis.
LEMMA FillKeeps ==
  ASSUME CartInv, NEW r \in CartRequests, FillCart(r)
  PROVE  CartInv'
<1>1. CartTypeOK /\ Typed /\ copy[r] \in Made /\ Older(copy[r], r.by)
  BY SeenOlder DEF CartInv, Typed
<1>2. Moved(r) /\ step'[r] = "done"
  BY <1>1, CartAnswersTyped DEF FillCart, Moved, Early, Ended, CartReplies
<1> QED BY <1>1, <1>2, CopyKeeps DEF FillCart

\* The copy in Redis is deleted after a change.
LEMMA DropKeeps ==
  ASSUME CartInv, NEW r \in CartRequests, DropCopy(r)
  PROVE  CartInv'
<1>1. CartTypeOK
  BY DEF CartInv, Typed
<1>2. Moved(r) /\ step'[r] = "done"
  BY <1>1, CartAnswersTyped DEF DropCopy, Moved, Early, Ended, CartReplies
<1> QED BY <1>2, NoCartMade, OlderNone, CopyKeeps DEF DropCopy

-----------------------------------------------------------------------------
(* Steps that write rows.                                                      *)

\* A step that writes rows of carts seen before, and is through with them.
LEMMA RowsKeep ==
  ASSUME CartInv, NEW r \in CartRequests, Moved(r), step'[r] \in Ended,
         UNCHANGED <<cached, listed, delisting, copy, found>>,
         cart' \in [Customers -> Made], \A a \in Customers : Older(cart'[a], a)
  PROVE  CartInv'
<1>1. Typed
  BY DEF CartInv
<1>2. Knows(r)'
  BY DEF Knows, Ended
<1> QED BY <1>1, <1>2, SeenOlder, MovedKeeps DEF Typed, CartTypeOK

\* Deleting rows by id leaves carts that have been seen.
LEMMA WithoutSeen ==
  ASSUME CartInv, NEW gone
  PROVE  /\ Without(gone) \in [Customers -> Made]
         /\ \A a \in Customers : Older(Without(gone)[a], a)
<1>1. \A a \in Customers : cart[a] \in Made /\ Older(cart[a], a)
  BY SeenOlder DEF CartInv, Typed
<1>2. \A a \in Customers : /\ Without(gone)[a] \in Made
                           /\ Older(Without(gone)[a], a)
  BY <1>1, OnlyMade, OlderOnly DEF Without
<1> QED BY <1>2 DEF Without

\* A row is removed, by its customer or by a purchase.
LEMMA RemoveKeeps ==
  ASSUME CartInv, NEW r \in CartRequests, RemoveRow(r) \/ RemoveBought(r)
  PROVE  CartInv'
<1>1. CartTypeOK
  BY DEF CartInv, Typed
<1>2. Moved(r) /\ step'[r] \in Ended
  BY <1>1, CartGoesTyped, CartAnswersTyped
  DEF RemoveRow, RemoveBought, Opened, Moved, Early, Ended, CartSteps, CartReplies
<1>3. cart' \in [Customers -> Made] /\ \A a \in Customers : Older(cart'[a], a)
  BY WithoutSeen DEF RemoveRow, RemoveBought
<1> QED BY <1>2, <1>3, RowsKeep DEF RemoveRow, RemoveBought

\* The whole cart is deleted.
LEMMA ClearKeeps ==
  ASSUME CartInv, NEW r \in CartRequests, ClearCart(r)
  PROVE  CartInv'
<1>1. CartTypeOK /\ Typed
  BY DEF CartInv, Typed
<1>2. Moved(r) /\ step'[r] \in Ended
  BY <1>1, CartGoesTyped, CartAnswersTyped
  DEF ClearCart, Moved, Early, Ended, CartSteps, CartReplies
<1>3. cart' \in [Customers -> Made] /\ \A a \in Customers : Older(cart'[a], a)
  BY <1>1, NoCartMade, OlderNone, SeenOlder DEF ClearCart, Typed
<1> QED BY <1>2, <1>3, RowsKeep DEF ClearCart

\* A cart with other rows that keep their ids, or some of them.
LEMMA Rewritten ==
  ASSUME NEW v \in Made, NEW a, Older(v, a), NEW w \in Copies, w.id = v.id,
         \A p \in Goods : /\ w.rows[p].id = v.rows[p].id
                          /\ w.rows[p] = v.rows[p] \/ w.rows[p].id # 0
  PROVE  w \in Made /\ Older(w, a)
<1>1. ASSUME w.id = 0 PROVE w = NoCart
  <2>1. v = NoCart
    BY <1>1, MadeFields
  <2>2. \A p \in Goods : w.rows[p] = NoRow
    BY <2>1 DEF NoCart, NoRow
  <2> QED BY <1>1, <2>2 DEF Copies, NoCart
<1>2. w \in Made
  BY <1>1, MadeFields DEF Made
<1> QED BY <1>2 DEF Older

\* The amount of a row is set by id; the row keeps its id.
LEMMA SetKeeps ==
  ASSUME CartInv, NEW r \in CartRequests, SetAmount(r)
  PROVE  CartInv'
<1>1. CartTypeOK /\ Typed
  BY DEF CartInv, Typed
<1>2. Moved(r) /\ step'[r] \in Ended
  BY <1>1, CartGoesTyped, CartAnswersTyped
  DEF SetAmount, Opened, Moved, Early, Ended, CartSteps, CartReplies
<1>3. ASSUME NEW a \in Customers PROVE cart'[a] \in Made /\ Older(cart'[a], a)
  <2>1. cart[a] \in Made /\ Older(cart[a], a)
    BY <1>1, SeenOlder DEF Typed
  <2>2. cart'[a] = [id |-> cart[a].id,
                    rows |-> [p \in Goods |-> IF <<a, p>> \in NamedBy(r)
                                             THEN [id |-> r.row, amount |-> r.units]
                                             ELSE cart[a].rows[p]]]
    BY DEF SetAmount
  <2>3. r.row \in Nat /\ r.units \in 0..MostUnits
    BY BuyFields, CartAssumption DEF SetAmount
  <2>4. \A p \in Goods : <<a, p>> \in NamedBy(r) =>
                          cart[a].rows[p].id = r.row /\ cart[a].rows[p] # NoRow
    BY DEF NamedBy, Named
  <2>5. \A p \in Goods : <<a, p>> \in NamedBy(r) => r.row # 0
    BY <2>1, <2>4, MadeFields
  <2>6. cart'[a] \in Copies
    BY <2>1, <2>2, <2>3, MadeFields DEF Copies, Rows, Ids
  <2>7. cart'[a].id = cart[a].id
    BY <2>2
  <2>8. \A p \in Goods : /\ cart'[a].rows[p].id = cart[a].rows[p].id
                         /\ cart'[a].rows[p] = cart[a].rows[p] \/ cart'[a].rows[p].id # 0
    BY <2>2, <2>4, <2>5
  <2> QED BY <2>1, <2>6, <2>7, <2>8, Rewritten
<1>4. cart' \in [Customers -> Made]
  BY <1>3 DEF SetAmount
<1> QED BY <1>2, <1>3, <1>4, RowsKeep DEF SetAmount

\* The amount is raised on the row found, when that row is still there.
LEMMA UpdateKeeps ==
  ASSUME CartInv, NEW r \in CartRequests, UpdateRow(r)
  PROVE  CartInv'
<1> DEFINE a == r.by
           p == r.product
           same == cart[a].rows[p].id # Had(r).id \/ NewAmount(r) = found[r]
           w == [cart[a] EXCEPT !.rows[p].amount = NewAmount(r)]
<1>1. CartTypeOK /\ Typed /\ cart[a] \in Made /\ Older(cart[a], a)
      /\ a \in Customers /\ p \in Goods
  BY SeenOlder, BuyFields DEF CartInv, Typed
<1>2. Moved(r) /\ step'[r] \in Ended
  BY <1>1, CartGoesTyped DEF UpdateRow, Moved, Early, Ended, CartSteps
<1>3. CASE same
  <2>1. cart' = cart
    BY <1>3 DEF UpdateRow
  <2> QED BY <1>1, <1>2, <2>1, SeenOlder, RowsKeep DEF UpdateRow, Typed
<1>4. CASE ~same
  <2>1. cart' = [cart EXCEPT ![a].rows[p].amount = NewAmount(r)]
    BY <1>4 DEF UpdateRow
  <2>2. cart' = [cart EXCEPT ![a] = w]
    BY <1>1, <2>1 DEF Typed
  <2>3. copy[r] \in Made /\ Had(r).id # 0
    BY <1>1, MadeFields DEF CartInv, Typed, Known, Knows, UpdateRow, Had
  <2>4. NewAmount(r) \in 0..MostUnits
    BY <1>1, <2>3, MadeFields, BuyFields, CartAssumption DEF UpdateRow, NewAmount, Had
  <2>5. /\ cart[a].id \in Nat /\ cart[a].rows \in [Goods -> Rows]
        /\ cart[a] = [id |-> cart[a].id, rows |-> cart[a].rows]
    BY <1>1, MadeFields
  <2>6. w = [id |-> cart[a].id,
             rows |-> [cart[a].rows EXCEPT ![p] = [id |-> cart[a].rows[p].id, amount |-> NewAmount(r)]]]
    BY <1>1, <2>4, <2>5 DEF Rows
  <2>7. w \in Copies /\ w.id = cart[a].id
    BY <1>1, <2>4, <2>5, <2>6 DEF Copies, Rows, Ids
  <2>8. \A q \in Goods : /\ w.rows[q].id = cart[a].rows[q].id
                         /\ w.rows[q] = cart[a].rows[q] \/ w.rows[q].id # 0
    BY <1>1, <1>4, <2>3, <2>5, <2>6
  <2>9. w \in Made /\ Older(w, a)
    BY <1>1, <2>7, <2>8, Rewritten
  <2> HIDE DEF w
  <2>10. /\ cart' \in [Customers -> Made]
         /\ \A b \in Customers : Older(cart'[b], b)
    BY <1>1, <2>2, <2>9, SeenOlder DEF Typed
  <2> QED BY <1>2, <2>10, RowsKeep DEF UpdateRow
<1> QED BY <1>3, <1>4

\* A new row: of the id that the cart had of it, or of the request's.
LEMMA InsertKeeps ==
  ASSUME CartInv, NEW r \in CartRequests, InsertRow(r)
  PROVE  CartInv'
<1> DEFINE a == r.by
           p == r.product
           k == IF step[r] = "gone" THEN Had(r).id ELSE r.id
           row == [id |-> k, amount |-> NewAmount(r)]
           w == [cart[a] EXCEPT !.rows[p] = row]
<1>1. CartTypeOK /\ Typed /\ cart[a] \in Made /\ Older(cart[a], a)
      /\ a \in Customers /\ p \in Goods
  BY SeenOlder, BuyFields DEF CartInv, Typed
<1>2. Moved(r) /\ step'[r] = "saved"
  BY <1>1, CartGoesTyped DEF InsertRow, Moved, Early, Ended, CartSteps
<1>3. cart' = [cart EXCEPT ![a] = w]
  BY <1>1 DEF InsertRow, Typed
<1>4. /\ cart[a].id \in Nat /\ cart[a].rows \in [Goods -> Rows]
      /\ cart[a] = [id |-> cart[a].id, rows |-> cart[a].rows]
      /\ cart[a].id # 0 /\ cart[a].id = copy[r].id
  BY <1>1, MadeFields DEF InsertRow
<1>5. copy[r] \in Made /\ Had(r) \in Rows /\ (step[r] = "gone" => Had(r).id # 0)
  BY <1>1, MadeFields DEF CartInv, Typed, Known, Knows, Had
<1>6. NewAmount(r) \in 0..MostUnits /\ k \in Nat \ {0}
  BY <1>5, BuyFields, CartAssumption DEF InsertRow, NewAmount, Rows, Ids
<1> HIDE DEF k
<1>7. w = [id |-> cart[a].id, rows |-> [cart[a].rows EXCEPT ![p] = row]]
  BY <1>1, <1>4
<1>8. row \in Rows /\ row.id = k
  BY <1>6 DEF Rows, Ids
<1>9. w \in Copies /\ w.id = cart[a].id
      /\ \A q \in Goods : w.rows[q] = (IF q = p THEN row ELSE cart[a].rows[q])
  BY <1>1, <1>4, <1>7, <1>8 DEF Copies, Ids
<1> HIDE DEF w, row
<1>10. w \in Made
  BY <1>1, <1>4, <1>6, <1>8, <1>9, MadeFields DEF Made
<1>11. cart' \in [Customers -> Made] /\ cart'[a] = w
       /\ \A b \in Customers \ {a} : cart'[b] = cart[b]
  BY <1>1, <1>3, <1>10 DEF Typed
<1>12. CASE step[r] = "gone"
  <2>1. InCart(k, w.id)
    BY <1>1, <1>4, <1>9, <1>12 DEF InCart, RowOf, Had, k
  <2>2. Older(w, a)
    BY <1>1, <1>8, <1>9, <2>1 DEF Older
  <2>3. \A b \in Customers : Older(cart'[b], b)
    BY <1>1, <1>11, <2>2, SeenOlder
  <2> QED BY <1>2, <1>11, <2>3, RowsKeep DEF InsertRow, Ended
<1>13. CASE step[r] # "gone"
  <2>1. k = r.id /\ step[r] = "active"
    BY <1>13 DEF k, InsertRow
  <2>2. UNCHANGED <<cached, listed, delisting, copy, found>>
    BY DEF InsertRow
  <2>3. \A b \in Customers, i \in Nat : OfAccount(b, i)' => OfAccount(b, i)
    BY <1>9, <1>11, <2>2 DEF OfAccount
  <2>4. \A j \in Nat \ {0}, i \in Nat :
          InCart(j, i)' => InCart(j, i) \/ (j = r.id /\ i = copy[r].id)
    <3> SUFFICES ASSUME NEW j \in Nat \ {0}, NEW i \in Nat, InCart(j, i)',
                        ~(j = r.id /\ i = copy[r].id)
                 PROVE  InCart(j, i)
      OBVIOUS
    <3>1. ASSUME RowOf(w, i, j) PROVE RowOf(cart[a], i, j)
      BY <1>4, <1>8, <1>9, <2>1, <3>1 DEF RowOf
    <3> QED BY <1>1, <1>11, <2>2, <3>1 DEF InCart, RowOf
  <2>5. \A i \in Nat : ~InCart(r.id, i)
    BY <2>1 DEF CartInv, Fresh, Ended
  <2>6. Typed'
    <3>1. /\ cart' \in [Customers -> Copies] /\ cached' = cached /\ copy' = copy
          /\ listed' = listed /\ delisting' = delisting /\ found' = found
      BY <1>11, <2>2 DEF Made, InsertRow
    <3> QED BY <1>1, <1>2, <1>11, <3>1 DEF Moved, Typed, CartTypeOK, CartSteps, CartReplies
  <2>7. OneOwner'
    BY <2>3 DEF CartInv, OneOwner
  <2>8. OneCart'
    BY <2>4, <2>5 DEF CartInv, OneCart
  <2>9. Fresh'
    <3> SUFFICES ASSUME NEW q \in CartRequests
                 PROVE  /\ step'[q] \in Early => \A b \in Customers : ~OfAccount(b, q.id)'
                        /\ step'[q] \notin Ended => \A i \in Nat : ~InCart(q.id, i)'
      BY DEF Fresh
    <3>1. q.id \in Nat \ {0} /\ (q = r \/ q.id # r.id)
      BY CartAssumption
    <3>2. CASE q = r
      BY <1>2, <3>2 DEF Early, Ended
    <3>3. CASE q # r
      BY <1>2, <2>3, <2>4, <3>1, <3>3 DEF CartInv, Fresh, Moved
    <3> QED BY <3>2, <3>3
  <2>10. Known'
    BY <1>2, <2>2 DEF CartInv, Known, Knows, Had, Moved
  <2> QED BY <2>6, <2>7, <2>8, <2>9, <2>10 DEF CartInv
<1> QED BY <1>12, <1>13

\* A new cart, of the request's id.
LEMMA CreateKeeps ==
  ASSUME CartInv, NEW r \in CartRequests, CreateCart(r)
  PROVE  CartInv'
<1> DEFINE new == [NoCart EXCEPT !.id = r.id]
<1>1. CartTypeOK /\ Typed /\ r.by \in Customers /\ r.id \in Nat \ {0}
  BY BuyFields DEF CartInv, Typed
<1>2. Moved(r) /\ step'[r] = "opened" /\ step[r] = "creating"
  BY <1>1, CartGoesTyped DEF CreateCart, Moved, Early, Ended, CartSteps, CartTypeOK
<1>3. new.id = r.id /\ \A p \in Goods : new.rows[p] = NoRow
  BY DEF NoCart
<1>4. new \in Made
  BY <1>1, <1>3, CartAssumption DEF NoCart, NoRow, Made, Copies, Rows, Ids
<1>5. UNCHANGED <<cached, listed, delisting, found>>
      /\ cart' = [cart EXCEPT ![r.by] = new] /\ copy' = [copy EXCEPT ![r] = new]
  BY DEF CreateCart
<1> HIDE DEF new
<1>6. /\ cart' \in [Customers -> Made] /\ copy' \in [CartRequests -> Made]
      /\ cart'[r.by] = new /\ copy'[r] = new
      /\ \A a \in Customers \ {r.by} : cart'[a] = cart[a]
  BY <1>1, <1>4, <1>5 DEF Typed
<1>7. Typed'
  BY <1>1, <1>2, <1>5, <1>6 DEF Moved, Typed, CartTypeOK, CartSteps, CartReplies, Made
<1>8. \A a \in Customers, i \in Nat \ {0} :
        OfAccount(a, i)' => OfAccount(a, i) \/ (a = r.by /\ i = r.id)
  BY <1>2, <1>3, <1>5, <1>6 DEF OfAccount, Moved
<1>9. \A j \in Nat \ {0}, i \in Nat : InCart(j, i)' => InCart(j, i)
  <2> SUFFICES ASSUME NEW j \in Nat \ {0}, NEW i \in Nat, InCart(j, i)'
               PROVE  InCart(j, i)
    OBVIOUS
  <2>1. ~RowOf(new, i, j)
    BY <1>3 DEF RowOf, NoRow
  <2> QED BY <1>2, <1>5, <1>6, <2>1 DEF InCart, RowOf, Moved
<1>10. \A a \in Customers : ~OfAccount(a, r.id)
  BY <1>2 DEF CartInv, Fresh, Early
<1>11. OneOwner'
  BY <1>8, <1>10 DEF CartInv, OneOwner
<1>12. OneCart'
  BY <1>9 DEF CartInv, OneCart
<1>13. Fresh'
  <2> SUFFICES ASSUME NEW q \in CartRequests
               PROVE  /\ step'[q] \in Early => \A a \in Customers : ~OfAccount(a, q.id)'
                      /\ step'[q] \notin Ended => \A i \in Nat : ~InCart(q.id, i)'
    BY DEF Fresh
  <2>1. q.id \in Nat \ {0} /\ (q = r \/ q.id # r.id)
    BY CartAssumption
  <2>2. CASE q = r
    BY <1>2, <1>9, <2>1, <2>2 DEF CartInv, Fresh, Early, Ended
  <2>3. CASE q # r
    BY <1>2, <1>8, <1>9, <2>1, <2>3 DEF CartInv, Fresh, Moved
  <2> QED BY <2>2, <2>3
<1>14. Known'
  BY <1>1, <1>2, <1>3, <1>6 DEF CartInv, Known, Knows, Had, Moved
<1> QED BY <1>7, <1>11, <1>12, <1>13, <1>14 DEF CartInv

\* Each step of a request keeps the invariant.
LEMMA WorkKeeps ==
  ASSUME CartInv, NEW r \in CartRequests, CartWork(r)
  PROVE  CartInv'
  BY OpenCachedKeeps, MyCartKeeps, CreateKeeps, ListKeeps, FillKeeps, AskKeeps, FindKeeps,
     UpdateKeeps, InsertKeeps, RemoveKeeps, SetKeeps, ClearKeeps, ReserveKeeps, DropKeeps,
     Zenon
  DEF CartWork

-----------------------------------------------------------------------------
(* Steps of time and of the product service.                                   *)

\* A step outside every request that shows nothing new.
LEMMA OutsideKeeps ==
  ASSUME CartInv, UNCHANGED <<step, copy, found, answer>>,
         listed' \subseteq Goods, delisting' \subseteq Goods,
         cart' \in [Customers -> Made], cached' \in [Customers -> Made],
         \A a \in Customers : Older(cart'[a], a) /\ Older(cached'[a], a)
  PROVE  CartInv'
<1>1. Typed'
  BY DEF CartInv, Typed, CartTypeOK, Made
<1>2. Known'
  BY DEF CartInv, Known, Knows, Had
<1> QED BY <1>1, <1>2, SeenOlder, Quiet DEF CartInv

\* Products leave the sale, their rows are removed or not, and copies expire.
LEMMA OthersKeep ==
  ASSUME CartInv,
         \/ \E p \in Goods : RemoveDelisted(p) \/ DelistingLost(p)
         \/ \E a \in Customers : CopyExpires(a)
         \/ Delist
  PROVE  CartInv'
<1>1. Typed /\ CartTypeOK
  BY DEF CartInv, Typed
<1>2. ASSUME NEW p \in Goods, RemoveDelisted(p) PROVE CartInv'
  BY <1>1, <1>2, WithoutSeen, SeenOlder, OutsideKeeps DEF RemoveDelisted, CartTypeOK, Typed
<1>3. ASSUME NEW p \in Goods, DelistingLost(p) PROVE CartInv'
  BY <1>1, <1>3, SeenOlder, OutsideKeeps DEF DelistingLost, CartTypeOK, Typed
<1>4. ASSUME NEW a \in Customers, CopyExpires(a) PROVE CartInv'
  BY <1>1, <1>4, NoCartMade, OlderNone, SeenOlder, OutsideKeeps DEF CopyExpires, CartTypeOK, Typed
<1>5. CASE Delist
  BY <1>1, <1>5, SeenOlder, OutsideKeeps DEF Delist, CartTypeOK, Typed
<1> QED BY <1>2, <1>3, <1>4, <1>5

-----------------------------------------------------------------------------

\* The carts there are at first have an owner each, and ids of their own.
LEMMA CartInitOK ==
  ASSUME NEW mix, CartInit(mix), listed \in SUBSET Goods
  PROVE  CartInv
<1>1. \A a \in Customers : OldCarts[a] \in Made
  BY CartAssumption, OldCartsAssumption DEF Made
<1>2. \A a \in Customers : cart[a] = OldCarts[a] /\ cached[a] \in {NoCart, OldCarts[a]}
  BY DEF CartInit
<1>3. \A r \in CartRequests : copy[r] = NoCart /\ step[r] \in {"unsent", "later", "new"}
  BY DEF CartInit
<1>4. Typed
  <2>1. /\ cart \in [Customers -> Made] /\ cached \in [Customers -> Made]
        /\ copy \in [CartRequests -> Made]
    BY <1>1, NoCartMade, CartAssumption DEF CartInit
  <2>2. \A r \in CartRequests : 0 \in 0..MostUnits
    BY CartAssumption
  <2> QED BY <2>1, <2>2 DEF CartInit, Typed, CartTypeOK, Made
<1>5. NoCart.id = 0 /\ \A p \in Goods : NoCart.rows[p].id = 0
  BY DEF NoCart, NoRow
<1>6. \A a \in Customers, i \in Nat \ {0} : OfAccount(a, i) => i = OldCarts[a].id
  BY <1>2, <1>3, <1>5 DEF OfAccount
<1>7. \A j \in Nat \ {0}, i \in Nat :
        InCart(j, i) => \E a \in Customers : RowOf(OldCarts[a], i, j)
  BY <1>2, <1>3, <1>5 DEF InCart, RowOf
<1>8. OneOwner
  BY <1>6, OldCartsAssumption DEF OneOwner
<1>9. OneCart
  <2> SUFFICES ASSUME NEW j \in Nat \ {0}, NEW i \in Nat, NEW k \in Nat,
                      InCart(j, i), InCart(j, k)
               PROVE  i = k
    BY DEF OneCart
  <2>1. PICK a \in Customers : RowOf(OldCarts[a], i, j)
    BY <1>7
  <2>2. PICK b \in Customers : RowOf(OldCarts[b], k, j)
    BY <1>7
  <2>3. a = b
    BY <2>1, <2>2, OldCartsAssumption DEF RowOf
  <2> QED BY <2>1, <2>2, <2>3 DEF RowOf
<1>10. Fresh
  <2>1. \A r \in CartRequests : r.id \in Nat \ {0}
    BY BuyFields
  <2> QED BY <1>6, <1>7, <2>1, OldCartsAssumption DEF Fresh, RowOf
<1>11. Known
  BY <1>3 DEF Known, Knows
<1> QED BY <1>4, <1>8, <1>9, <1>10, <1>11 DEF CartInv

\* Every step of the carts keeps the invariant.
LEMMA CartKept == CartInv /\ [CartNext]_cartVars => CartInv'
<1> SUFFICES ASSUME CartInv, [CartNext]_cartVars PROVE CartInv'
  OBVIOUS
<1>1. CASE UNCHANGED cartVars
  BY <1>1, SeenOlder, OutsideKeeps DEF cartVars, CartInv, Typed, CartTypeOK
<1>2. ASSUME NEW r \in CartRequests, CartWork(r) \/ Resend(r) PROVE CartInv'
  BY <1>2, WorkKeeps, ResendKeeps
<1> QED BY <1>1, <1>2, OthersKeep, Zenon DEF CartNext, CartStep

\* Whatever the requests, the copies and the events do: amounts within their
\* column, one account for a cart and one cart for a row.
THEOREM CartInvariance == CartSpec => []CartInv
<1>1. (\E mix \in SUBSET CartRequests : CartInit(mix)) /\ listed \in SUBSET Goods => CartInv
  BY CartInitOK
<1> QED BY <1>1, CartKept, PTL DEF CartSpec

\* An amount never outgrows its column, and whatever a request has opened or
\* found is a cart and a row.
THEOREM CartTypeCorrect == CartSpec => []CartTypeOK
<1>1. CartInv => CartTypeOK
  BY DEF CartInv, Typed
<1> QED BY <1>1, CartInvariance, PTL

-----------------------------------------------------------------------------

\* The rows that a cart has are in one that its account has.
LEMMA OwnCart ==
  ASSUME CartInv, NEW r \in CartRequests, NEW a \in Customers,
         cart[a].id = copy[r].id, cart[a] # NoCart
  PROVE  a = r.by
<1>1. cart[a].id \in Nat \ {0} /\ r.by \in Customers
  BY MadeFields, BuyFields DEF CartInv, Typed
<1>2. OfAccount(a, cart[a].id) /\ OfAccount(r.by, cart[a].id)
  BY DEF OfAccount
<1> QED BY <1>1, <1>2 DEF CartInv, OneOwner

ByOpener(r, a) == cart'[a].rows # cart[a].rows => r.by = a /\ copy[r].id = cart[a].id

\* Raising, inserting and creating write in the cart that was opened.
LEMMA WriterOpened ==
  ASSUME CartInv, NEW r \in CartRequests, NEW a \in Customers,
         UpdateRow(r) \/ InsertRow(r) \/ CreateCart(r)
  PROVE  ByOpener(r, a)
<1>1. Typed /\ r.by \in Customers /\ r.product \in Goods
  BY BuyFields DEF CartInv
<1>2. CASE UpdateRow(r)
  <2> DEFINE row == cart[r.by].rows[r.product]
  <2>1. CASE row.id # Had(r).id \/ NewAmount(r) = found[r]
    BY <1>2, <2>1 DEF UpdateRow, ByOpener
  <2>2. CASE row.id = Had(r).id
    <3>1. copy[r] \in Made /\ cart[r.by] \in Made /\ Had(r) # NoRow
      BY <1>1, <1>2 DEF Typed, CartInv, Known, Knows, UpdateRow
    <3>2. /\ row.id \in Nat \ {0} /\ cart[r.by].id \in Nat /\ copy[r].id \in Nat
      BY <1>1, <2>2, <3>1, MadeFields DEF Had
    <3>3. InCart(row.id, cart[r.by].id) /\ InCart(row.id, copy[r].id)
      BY <1>1, <2>2 DEF InCart, RowOf, Had
    <3>4. cart[r.by].id = copy[r].id
      BY <3>2, <3>3 DEF CartInv, OneCart
    <3>5. a # r.by => cart'[a] = cart[a]
      BY <1>1, <1>2 DEF UpdateRow, Typed
    <3> QED BY <3>4, <3>5 DEF ByOpener
  <2> QED BY <2>1, <2>2
<1>3. CASE InsertRow(r)
  BY <1>1, <1>3 DEF InsertRow, ByOpener, Typed
<1>4. CASE CreateCart(r)
  <2>1. cart'[r.by].rows = NoCart.rows
    BY <1>1, <1>4 DEF CreateCart, Typed, NoCart
  <2> QED BY <1>1, <1>4, <2>1 DEF CreateCart, ByOpener, Typed
<1> QED BY <1>2, <1>3, <1>4

\* Removing and setting name rows by id and cart: only the opener's match.
LEMMA NamerOpened ==
  ASSUME CartInv, NEW r \in CartRequests, NEW a \in Customers,
         RemoveRow(r) \/ SetAmount(r) \/ RemoveBought(r)
  PROVE  ByOpener(r, a)
<1> SUFFICES ASSUME cart'[a].rows # cart[a].rows
             PROVE  cart[a].id = copy[r].id /\ cart[a] # NoCart
  BY OwnCart DEF ByOpener
<1>1. cart[a] \in Made /\ cart[a].rows \in [Goods -> Rows]
  BY MadeFields DEF CartInv, Typed
<1>2. ASSUME NEW gone, cart' = Without(gone)
      PROVE  \E p \in Goods : <<a, p>> \in gone /\ cart[a].rows[p] # NoRow
  <2>1. cart'[a].rows = [p \in Goods |-> IF <<a, p>> \notin gone THEN cart[a].rows[p] ELSE NoRow]
    BY <1>2 DEF Without, Only
  <2> QED BY <1>1, <2>1
<1>3. cart[a] = NoCart => \A p \in Goods : cart[a].rows[p] = NoRow
  BY DEF NoCart
<1>4. CASE RemoveRow(r)
  <2>1. PICK p \in Goods : <<a, p>> \in NamedBy(r) /\ cart[a].rows[p] # NoRow
    BY <1>2, <1>4 DEF RemoveRow
  <2> QED BY <1>3, <2>1 DEF NamedBy, Named
<1>5. CASE RemoveBought(r)
  <2>1. PICK p \in Goods : /\ cart[a].rows[p] # NoRow
                          /\ <<a, p>> \in {x \in Customers \X Goods :
                                            x[2] = r.product /\ cart[x[1]].id = copy[r].id}
    BY <1>2, <1>5 DEF RemoveBought
  <2> QED BY <1>3, <2>1
<1>6. CASE SetAmount(r)
  <2>1. cart'[a].rows = [p \in Goods |-> IF <<a, p>> \in NamedBy(r)
                                        THEN [id |-> r.row, amount |-> r.units]
                                        ELSE cart[a].rows[p]]
    BY <1>6 DEF SetAmount
  <2>2. PICK p \in Goods : <<a, p>> \in NamedBy(r)
    BY <1>1, <2>1
  <2> QED BY <1>3, <2>2 DEF NamedBy, Named
<1> QED BY <1>4, <1>5, <1>6

\* Rows change only by a request of the account that has opened this very cart.
THEOREM OpenedCorrect == CartSpec => OpenedCartOnly
<1> DEFINE Permitted(a) ==
      cart'[a].rows # cart[a].rows =>
        \/ delisting' # delisting
        \/ cart'[a] = NoCart
        \/ \E r \in CartRequests : step'[r] # step[r] /\ r.by = a /\ copy[r].id = cart[a].id
<1>1. ASSUME CartInv, [CartNext]_cartVars PROVE \A a \in Customers : Permitted(a)
  <2> SUFFICES ASSUME NEW a \in Customers, cart'[a].rows # cart[a].rows PROVE Permitted(a)
    OBVIOUS
  <2>1. CASE UNCHANGED cartVars
    BY <2>1 DEF cartVars
  <2>2. ASSUME NEW r \in CartRequests, CartWork(r) \/ Resend(r) PROVE Permitted(a)
    <3>1. CASE UpdateRow(r) \/ InsertRow(r) \/ CreateCart(r)
      <4>1. step'[r] # step[r]
        BY <1>1, <3>1, CartGoesTyped DEF UpdateRow, InsertRow, CreateCart, CartSteps, CartInv, Typed
      <4> QED BY <1>1, <3>1, <4>1, WriterOpened DEF ByOpener
    <3>2. CASE RemoveRow(r) \/ SetAmount(r) \/ RemoveBought(r)
      <4>1. step'[r] # step[r]
        BY <1>1, <3>2, CartGoesTyped, CartAnswersTyped
        DEF RemoveRow, SetAmount, RemoveBought, Opened, CartSteps, CartReplies, CartInv, Typed
      <4> QED BY <1>1, <3>2, <4>1, NamerOpened DEF ByOpener
    <3>3. CASE ClearCart(r)
      BY <1>1, <3>3, BuyFields DEF ClearCart, CartInv, Typed
    <3>4. CASE UNCHANGED cart
      BY <3>4
    <3> QED BY <2>2, <3>1, <3>2, <3>3, <3>4
        DEF CartWork, Resend, OpenCached, MyCart, ListGoods, FillCart, AskActive, FindRow,
            MakeReserve, DropCopy, CartFails
  <2>3. ASSUME NEW p \in Goods, RemoveDelisted(p) PROVE Permitted(a)
    BY <2>3 DEF RemoveDelisted
  <2>4. CASE \/ \E p \in Goods : DelistingLost(p)
             \/ \E b \in Customers : CopyExpires(b)
             \/ Delist
    BY <2>4 DEF DelistingLost, CopyExpires, Delist
  <2> HIDE DEF Permitted
  <2> QED BY <1>1, <2>1, <2>2, <2>3, <2>4, Zenon DEF CartNext, CartStep
<1> QED BY <1>1, CartInvariance, PTL DEF CartSpec, OpenedCartOnly

-----------------------------------------------------------------------------
(* Amounts.  What a request writes comes from a copy that may be old, so   *)
(* the explanation has to hold of every row wherever it is seen: in the    *)
(* tables, in Redis, or by a request; and a request that has yet to write  *)
(* is in none of them.                                                     *)

Seen(a, p, row) ==
  \/ row = cart[a].rows[p] \/ row = cached[a].rows[p]
  \/ \E r \in CartRequests : r.by = a /\ row = copy[r].rows[p]

Asked == [r \in CartRequests |-> r.units]

\* Explained by finitely many additions.
Accounted(a, p, row) ==
  \E base \in Bases(a, p, row), some \in SUBSET Additions(a, p) :
    IsFiniteSet(some) /\ row.amount = base + SumFunctionOnSet(Asked, some)

AmountInv ==
  \A a \in Customers, p \in Goods, row \in Rows :
    Seen(a, p, row) /\ row # NoRow => Accounted(a, p, row)

\* Every row of v is one that its account has seen, or none.
From(v, a) == \A p \in Goods : Seen(a, p, v.rows[p]) \/ v.rows[p] = NoRow

SavedStay == \A r \in CartRequests : Saved(r) => Saved(r)'

\* What was saved stays so: only the end of the request comes after it.
LEMMA SavedKept == ASSUME CartInv, [CartNext]_cartVars PROVE SavedStay
<1> SUFFICES ASSUME NEW r \in CartRequests, Saved(r) PROVE Saved(r)'
  BY DEF SavedStay
<1>1. CartTypeOK /\ step[r] \in Ended
  BY DEF CartInv, Typed, Saved, Ended
<1>2. ASSUME NEW q \in CartRequests, q # r, CartWork(q) \/ Resend(q)
      PROVE  step'[r] = step[r] /\ answer'[r] = answer[r]
  BY <1>1, <1>2
  DEF CartTypeOK, CartWork, Resend, CartGoes, CartAnswers, OpenCached, MyCart, CreateCart,
      ListGoods, FillCart, AskActive, FindRow, UpdateRow, InsertRow, RemoveRow, SetAmount,
      ClearCart, MakeReserve, DropCopy, RemoveBought, CartFails
<1>3. ASSUME DropCopy(r) PROVE Saved(r)'
  BY <1>1, <1>3 DEF DropCopy, CartAnswers, CartTypeOK, Saved
<1>4. CartWork(r) \/ Resend(r) => DropCopy(r)
  BY <1>1
  DEF Ended, CartWork, Resend, OpenCached, Opens, MyCart, CreateCart, ListGoods, FillCart,
      AskActive, Opened, FindRow, UpdateRow, InsertRow, RemoveRow, SetAmount, ClearCart,
      MakeReserve, RemoveBought, CartFails
<1>5. ASSUME NEW p \in Goods, RemoveDelisted(p) \/ DelistingLost(p) PROVE UNCHANGED <<step, answer>>
  BY <1>5 DEF RemoveDelisted, DelistingLost
<1>6. ASSUME NEW a \in Customers, CopyExpires(a) PROVE UNCHANGED <<step, answer>>
  BY <1>6 DEF CopyExpires
<1>7. Delist \/ UNCHANGED cartVars => UNCHANGED <<step, answer>>
  BY DEF Delist, cartVars
<1>8. UNCHANGED <<step, answer>> \/ (step'[r] = step[r] /\ answer'[r] = answer[r]) => Saved(r)'
  BY DEF Saved
<1> QED
  BY <1>2, <1>3, <1>4, <1>5, <1>6, <1>7, <1>8 DEF CartNext, CartStep

\* An explanation is never taken back.
LEMMA AccountedStays ==
  ASSUME SavedStay, NEW a, NEW p, NEW row, Accounted(a, p, row)
  PROVE  Accounted(a, p, row)'
<1>1. PICK base \in Bases(a, p, row), some \in SUBSET Additions(a, p) :
        IsFiniteSet(some) /\ row.amount = base + SumFunctionOnSet(Asked, some)
  BY DEF Accounted
<1>2. base \in Bases(a, p, row)'
  BY <1>1 DEF SavedStay, Bases
<1>3. some \in SUBSET (Additions(a, p)')
  BY <1>1 DEF SavedStay, Additions
<1> QED
  BY <1>1, <1>2, <1>3 DEF Accounted

\* A step that shows new rows explains them.
LEMMA AmountFrame ==
  ASSUME AmountInv, SavedStay,
         \A a \in Customers, p \in Goods, row \in Rows :
           Seen(a, p, row)' /\ row # NoRow => Seen(a, p, row) \/ Accounted(a, p, row)'
  PROVE  AmountInv'
BY AccountedStays DEF AmountInv

\* A step that only moves rows between the tables, Redis and the requests of
\* one account.
LEMMA FromFrame ==
  ASSUME AmountInv, SavedStay,
         \A a \in Customers : From(cart'[a], a) /\ From(cached'[a], a),
         \A r \in CartRequests : From(copy'[r], r.by)
  PROVE  AmountInv'
<1>1. \A a \in Customers, p \in Goods, row \in Rows :
        Seen(a, p, row)' /\ row # NoRow => Seen(a, p, row)
  BY DEF Seen, From
<1> QED
  BY <1>1, AmountFrame

\* What is seen comes from what is seen, and so does a part of it.
LEMMA FromSeen ==
  /\ \A a : From(cart[a], a) /\ From(cached[a], a) /\ From(NoCart, a)
  /\ \A r \in CartRequests : From(copy[r], r.by)
  /\ \A v, a, some : From(v, a) => From(Only(v, some), a)
BY DEF From, Seen, NoCart, Only

\* The steps that write no new row.
LEMMA AmountMove ==
  ASSUME CartInv, AmountInv, SavedStay, NEW r \in CartRequests,
         \/ OpenCached(r) \/ MyCart(r) \/ CreateCart(r) \/ ListGoods(r) \/ FillCart(r)
         \/ MakeReserve(r) \/ DropCopy(r) \/ RemoveRow(r) \/ RemoveBought(r) \/ ClearCart(r)
  PROVE  AmountInv'
<1>1. /\ cart \in [Customers -> Made] /\ cached \in [Customers -> Made]
      /\ copy \in [CartRequests -> Made] /\ r.by \in Customers
  BY BuyFields DEF CartInv, Typed
<1>2. CASE OpenCached(r) \/ MyCart(r) \/ ListGoods(r) \/ MakeReserve(r)
  <2>1. UNCHANGED <<cart, cached>>
    BY <1>2 DEF OpenCached, MyCart, ListGoods, MakeReserve
  <2>2. \E v : From(v, r.by) /\ copy' \in {copy, [copy EXCEPT ![r] = v]}
    BY <1>2, FromSeen, Zenon DEF OpenCached, MyCart, ListGoods, MakeReserve
  <2>3. \A q \in CartRequests : From(copy'[q], q.by)
    BY <1>1, <2>2, FromSeen
  <2> QED
    BY <2>1, <2>3, FromSeen, FromFrame
<1>3. CASE CreateCart(r)
  <2> DEFINE new == [NoCart EXCEPT !.id = r.id]
  <2>1. cart' = [cart EXCEPT ![r.by] = new] /\ copy' = [copy EXCEPT ![r] = new] /\ cached' = cached
    BY <1>3 DEF CreateCart
  <2>2. From(new, r.by)
    BY DEF From, NoCart
  <2> HIDE DEF new
  <2>3. \A a \in Customers : From(cart'[a], a)
    BY <1>1, <2>1, <2>2, FromSeen
  <2>4. \A q \in CartRequests : From(copy'[q], q.by)
    BY <1>1, <2>1, <2>2, FromSeen
  <2> QED
    BY <2>1, <2>3, <2>4, FromSeen, FromFrame
<1>4. CASE FillCart(r) \/ DropCopy(r)
  <2>1. UNCHANGED <<cart, copy>>
    BY <1>4 DEF FillCart, DropCopy
  <2>2. \E v : From(v, r.by) /\ cached' \in {cached, [cached EXCEPT ![r.by] = v]}
    BY <1>4, FromSeen DEF FillCart, DropCopy
  <2>3. \A a \in Customers : From(cached'[a], a)
    BY <1>1, <2>2, FromSeen
  <2> QED
    BY <2>1, <2>3, FromSeen, FromFrame
<1>5. CASE RemoveRow(r) \/ RemoveBought(r)
  <2>1. UNCHANGED <<cached, copy>> /\ \E gone : cart' = Without(gone)
    BY <1>5 DEF RemoveRow, RemoveBought
  <2>2. \A a \in Customers : From(cart'[a], a)
    BY <2>1, FromSeen DEF Without
  <2> QED
    BY <2>1, <2>2, FromSeen, FromFrame
<1>6. CASE ClearCart(r)
  <2>1. UNCHANGED <<cached, copy>> /\ cart' = [cart EXCEPT ![r.by] = NoCart]
    BY <1>6 DEF ClearCart
  <2>2. \A a \in Customers : From(cart'[a], a)
    BY <1>1, <2>1, FromSeen
  <2> QED
    BY <2>1, <2>2, FromSeen, FromFrame
<1> QED
  BY <1>2, <1>3, <1>4, <1>5, <1>6

\* setAmount: the amount that the account asked for.
LEMMA AmountSet ==
  ASSUME CartInv, AmountInv, SavedStay, NEW r \in CartRequests, SetAmount(r)
  PROVE  AmountInv'
<1>1. /\ CartTypeOK /\ cart \in [Customers -> Made] /\ r.kind = "set"
      /\ UNCHANGED <<cached, copy>> /\ r.units \in Nat
  BY BuyFields DEF CartInv, Typed, SetAmount, Opened
<1>2. NamedBy(r) # {} => Saved(r)'
  BY <1>1 DEF SetAmount, CartGoes, CartTypeOK, Saved
<1>3. ASSUME NEW a \in Customers, NEW p \in Goods, NEW row \in Rows,
             row = cart'[a].rows[p], row # cart[a].rows[p]
      PROVE  Accounted(a, p, row)'
  <2>1. row = [id |-> r.row, amount |-> r.units] /\ <<a, p>> \in NamedBy(r)
    BY <1>3 DEF SetAmount
  <2>2. cart[a].id = copy[r].id /\ cart[a].rows[p] # NoRow
    BY <2>1 DEF NamedBy, Named
  <2>3. r.by = a
    BY <2>2, OwnCart DEF NoCart
  <2>4. r.units \in Bases(a, p, row)'
    BY <1>1, <1>2, <2>1, <2>3 DEF Bases
  <2>5. IsFiniteSet({}) /\ SumFunctionOnSet(Asked, {}) = 0 /\ {} \in SUBSET (Additions(a, p)')
    BY FS_EmptySet, SumEmpty
  <2>6. row.amount = r.units + 0
    BY <1>1, <2>1
  <2> QED
    BY <2>4, <2>5, <2>6 DEF Accounted
<1>4. \A a \in Customers, p \in Goods, row \in Rows : Seen(a, p, row)' =>
        Seen(a, p, row) \/ Accounted(a, p, row)'
  BY <1>1, <1>3 DEF Seen
<1> QED
  BY <1>4, AmountFrame

\* The save() of an addition: it has not been saved before, so what it adds is
\* not in what it read.
LEMMA AmountAdd ==
  ASSUME CartInv, AmountInv, SavedStay, NEW r \in CartRequests, NEW row \in Rows,
         r.kind = "add", ~Saved(r), Saved(r)',
         row.amount = NewAmount(r), Had(r) # NoRow => row.id = Had(r).id
  PROVE  Accounted(r.by, r.product, row)'
<1> DEFINE a == r.by
           p == r.product
<1>1. /\ a \in Customers /\ p \in Goods /\ r.units \in Nat /\ copy[r] \in Made
      /\ Had(r) \in Rows /\ Had(r).amount \in Nat
  BY BuyFields, MadeFields, CartAssumption DEF CartInv, Typed, Had
<1>2. \A q \in CartRequests : Asked[q] \in Nat /\ Asked[q] \in Int /\ Asked[q] = q.units
  BY CartAssumption DEF Asked
<1>3. PICK base \in Bases(a, p, row), some \in SUBSET Additions(a, p) :
        IsFiniteSet(some) /\ Had(r).amount = base + SumFunctionOnSet(Asked, some)
  <2>1. CASE Had(r) = NoRow
    <3>1. 0 \in Bases(a, p, row) /\ {} \in SUBSET Additions(a, p) /\ IsFiniteSet({})
      BY FS_EmptySet DEF Bases
    <3>2. Had(r).amount = 0 + SumFunctionOnSet(Asked, {})
      BY <2>1, SumEmpty DEF NoRow
    <3> QED
      BY <3>1, <3>2
  <2>2. CASE Had(r) # NoRow
    <3>1. Accounted(a, p, Had(r))
      BY <1>1, <2>2 DEF AmountInv, Seen, Had
    <3>2. Bases(a, p, Had(r)) = Bases(a, p, row)
      BY <2>2 DEF Bases
    <3> QED
      BY <3>1, <3>2 DEF Accounted
  <2> QED
    BY <2>1, <2>2
<1>4. some \subseteq CartRequests /\ r \notin some
  BY <1>3 DEF Additions
<1>5. base \in Nat
  BY <1>1, <1>3, CartAssumption, BuyFields, MadeFields DEF Bases, Copies, Rows
<1>6. SumFunctionOnSet(Asked, some \cup {r}) = r.units + SumFunctionOnSet(Asked, some)
  BY <1>2, <1>3, <1>4, SumAdd
<1>7. SumFunctionOnSet(Asked, some) \in Nat
  BY <1>2, <1>3, <1>4, SumNat
<1>8. row.amount = base + SumFunctionOnSet(Asked, some \cup {r})
  BY <1>1, <1>3, <1>5, <1>6, <1>7 DEF NewAmount
<1>9. IsFiniteSet(some \cup {r})
  BY <1>3, FS_AddElement
<1>10. base \in Bases(a, p, row)' /\ some \cup {r} \in SUBSET (Additions(a, p)')
  BY <1>3 DEF SavedStay, Bases, Additions
<1> QED
  BY <1>8, <1>9, <1>10 DEF Accounted

\* Only an addition gets as far as looking for a row.
Adding == \A r \in CartRequests : step[r] \in {"active", "found", "gone"} => r.kind = "add"

\* So does every step.
LEMMA AddingKept ==
  ASSUME CartInv, Adding, [CartNext]_cartVars PROVE Adding'
<1> SUFFICES ASSUME NEW r \in CartRequests, step'[r] \in {"active", "found", "gone"}
             PROVE  step[r] \in {"active", "found", "gone"} \/ r.kind = "add"
  BY DEF Adding
<1>1. CartTypeOK
  BY DEF CartInv, Typed
<1>2. ASSUME NEW q \in CartRequests, q # r, CartWork(q) \/ Resend(q) PROVE step'[r] = step[r]
  BY <1>1, <1>2
  DEF CartTypeOK, CartWork, Resend, CartGoes, CartAnswers, OpenCached, MyCart, CreateCart,
      ListGoods, FillCart, AskActive, FindRow, UpdateRow, InsertRow, RemoveRow, SetAmount,
      ClearCart, MakeReserve, DropCopy, RemoveBought, CartFails
<1>3. ASSUME CartWork(r) \/ Resend(r) PROVE step[r] \in {"active", "found", "gone"} \/ r.kind = "add"
  BY <1>1, <1>3
  DEF CartTypeOK, CartWork, Resend, CartGoes, CartAnswers, OpenCached, MyCart, CreateCart,
      ListGoods, FillCart, AskActive, Opened, FindRow, UpdateRow, InsertRow, RemoveRow, SetAmount,
      ClearCart, MakeReserve, DropCopy, RemoveBought, CartFails
<1>4. ASSUME \/ \E p \in Goods : RemoveDelisted(p) \/ DelistingLost(p)
             \/ \E a \in Customers : CopyExpires(a)
             \/ Delist \/ UNCHANGED cartVars
      PROVE  step' = step
  BY <1>4 DEF RemoveDelisted, DelistingLost, CopyExpires, Delist, cartVars
<1> QED
  BY <1>2, <1>3, <1>4 DEF CartNext, CartStep

\* UPDATE or INSERT: one row is written, with what was asked for.
LEMMA AmountSave ==
  ASSUME CartInv, AmountInv, Adding, SavedStay, NEW r \in CartRequests, UpdateRow(r) \/ InsertRow(r)
  PROVE  AmountInv'
<1>1. /\ CartTypeOK /\ cart \in [Customers -> Made] /\ UNCHANGED <<cached, copy>>
      /\ r.by \in Customers /\ r.product \in Goods
  BY BuyFields DEF CartInv, Typed, UpdateRow, InsertRow
<1>2. r.kind = "add" /\ ~Saved(r) /\ Saved(r)'
  BY <1>1 DEF Adding, UpdateRow, InsertRow, CartGoes, CartTypeOK, Saved
<1>3. ASSUME NEW a \in Customers, NEW p \in Goods, NEW row \in Rows,
             row = cart'[a].rows[p], row # cart[a].rows[p]
      PROVE  Accounted(a, p, row)'
  <2>1. cart[r.by] \in Made /\ cart[r.by].rows \in [Goods -> Rows]
        /\ cart[r.by] = [id |-> cart[r.by].id, rows |-> cart[r.by].rows]
    BY <1>1, MadeFields
  <2>2. /\ a = r.by /\ p = r.product /\ row.amount = NewAmount(r)
        /\ Had(r) # NoRow => row.id = Had(r).id
    <3>1. CASE UpdateRow(r)
      <4>1. /\ cart[r.by].rows[r.product].id = Had(r).id
            /\ cart' = [cart EXCEPT ![r.by].rows[r.product].amount = NewAmount(r)]
        BY <1>3, <3>1 DEF UpdateRow
      <4>2. a = r.by
        BY <1>1, <1>3, <4>1
      <4>3. cart'[a].rows = [cart[a].rows EXCEPT ![r.product].amount = NewAmount(r)]
        BY <1>1, <2>1, <4>1, <4>2
      <4>4. p = r.product
        BY <1>3, <2>1, <4>2, <4>3
      <4>5. row = [cart[a].rows[p] EXCEPT !.amount = NewAmount(r)] /\ cart[a].rows[p] \in Rows
        BY <1>1, <1>3, <2>1, <4>2, <4>3, <4>4
      <4> QED
        BY <4>1, <4>2, <4>4, <4>5 DEF Rows
    <3>2. CASE InsertRow(r)
      <4> DEFINE new == [id |-> IF step[r] = "gone" THEN Had(r).id ELSE r.id, amount |-> NewAmount(r)]
      <4>1. cart' = [cart EXCEPT ![r.by].rows[r.product] = new]
        BY <3>2 DEF InsertRow
      <4>2. new.amount = NewAmount(r) /\ (Had(r) # NoRow => new.id = Had(r).id)
        BY <3>2 DEF InsertRow
      <4> HIDE DEF new
      <4>3. a = r.by
        BY <1>1, <1>3, <4>1
      <4>4. cart'[a].rows = [cart[a].rows EXCEPT ![r.product] = new]
        BY <1>1, <2>1, <4>1, <4>3
      <4> QED
        BY <1>3, <2>1, <4>2, <4>3, <4>4
    <3> QED
      BY <3>1, <3>2
  <2> QED
    BY <1>2, <2>2, AmountAdd
<1>4. \A a \in Customers, p \in Goods, row \in Rows : Seen(a, p, row)' =>
        Seen(a, p, row) \/ Accounted(a, p, row)'
  BY <1>1, <1>3 DEF Seen
<1> QED
  BY <1>4, AmountFrame

\* Every step keeps the amounts explained, wherever they are seen.
LEMMA AmountKept ==
  ASSUME CartInv, Adding, AmountInv, [CartNext]_cartVars PROVE AmountInv'
<1>1. SavedStay
  BY SavedKept
<1>2. cart \in [Customers -> Made] /\ cached \in [Customers -> Made]
  BY DEF CartInv, Typed
<1>3. ASSUME UNCHANGED <<cart, cached, copy>> PROVE AmountInv'
  BY <1>1, <1>3, FromSeen, FromFrame
<1>4. ASSUME NEW r \in CartRequests, CartWork(r) \/ Resend(r) PROVE AmountInv'
  <2>1. CASE AskActive(r) \/ FindRow(r) \/ CartFails(r) \/ Resend(r)
    BY <1>3, <2>1 DEF AskActive, FindRow, CartFails, Resend
  <2> QED
    BY <1>1, <1>4, <2>1, AmountMove, AmountSet, AmountSave DEF CartWork
<1>5. ASSUME NEW p \in Goods, RemoveDelisted(p) PROVE AmountInv'
  <2>1. \A a \in Customers : From(cart'[a], a)
    BY <1>5, FromSeen DEF RemoveDelisted, Without
  <2> QED
    BY <1>1, <1>5, <2>1, FromSeen, FromFrame DEF RemoveDelisted
<1>6. ASSUME NEW p \in Goods, DelistingLost(p) PROVE AmountInv'
  BY <1>3, <1>6 DEF DelistingLost
<1>7. ASSUME NEW a \in Customers, CopyExpires(a) PROVE AmountInv'
  <2>1. \A b \in Customers : From(cached'[b], b)
    BY <1>2, <1>7, FromSeen DEF CopyExpires
  <2> QED
    BY <1>1, <1>7, <2>1, FromSeen, FromFrame DEF CopyExpires
<1>8. CASE Delist \/ UNCHANGED cartVars
  BY <1>3, <1>8 DEF Delist, cartVars
<1> QED
  BY <1>4, <1>5, <1>6, <1>7, <1>8 DEF CartNext, CartStep

\* At the start a row has the amount that it had.
LEMMA AmountInit ==
  ASSUME NEW mix, CartInit(mix) PROVE AmountInv /\ Adding
<1>1. \A r \in CartRequests : copy[r] = NoCart /\ step[r] \in {"unsent", "later", "new"}
  BY DEF CartInit
<1>2. Adding
  BY <1>1 DEF Adding
<1>3. ASSUME NEW a \in Customers, NEW p \in Goods, NEW row \in Rows, Seen(a, p, row), row # NoRow
      PROVE  Accounted(a, p, row)
  <2>1. row = OldCarts[a].rows[p]
    BY <1>1, <1>3 DEF CartInit, Seen, NoCart
  <2>2. row.amount \in Bases(a, p, row) /\ {} \in SUBSET Additions(a, p) /\ IsFiniteSet({})
    BY <2>1, FS_EmptySet DEF Bases
  <2>3. row.amount = row.amount + SumFunctionOnSet(Asked, {})
    BY SumEmpty, CartAssumption DEF Rows
  <2> QED
    BY <2>2, <2>3 DEF Accounted
<1> QED
  BY <1>2, <1>3 DEF AmountInv

\* Whatever additions overlap or go by an old copy, every amount in a cart is
\* one that its account set, or had, and the units of some of its messages, each
\* counted once at most.  A click that the gateway sends twice is two of them.
THEOREM AmountCorrect == CartSpec => []AmountExplained
<1>1. (\E mix \in SUBSET CartRequests : CartInit(mix)) => AmountInv /\ Adding
  BY AmountInit
<1>2. CartInv /\ Adding /\ AmountInv /\ [CartNext]_cartVars => Adding' /\ AmountInv'
  BY AddingKept, AmountKept
<1>3. CartInv /\ AmountInv => AmountExplained
  <2> SUFFICES ASSUME CartInv, AmountInv, NEW a \in Customers, NEW p \in Goods,
                      cart[a].rows[p] # NoRow
               PROVE  Explained(a, p, cart[a].rows[p])
    BY DEF AmountExplained
  <2>1. cart[a].rows[p] \in Rows
    BY MadeFields DEF CartInv, Typed
  <2>2. Accounted(a, p, cart[a].rows[p])
    BY <2>1 DEF AmountInv, Seen
  <2> QED
    BY <2>2 DEF Accounted, Explained, Asked
<1> QED
  BY <1>1, <1>2, <1>3, CartInvariance, PTL DEF CartSpec

-----------------------------------------------------------------------------
(* Carts and catalogue together.                                           *)

\* Both start as each of them may, with the catalogue's list of products.
LEMMA TogetherStart ==
  StorefrontInit =>
    /\ \E mix \in SUBSET Requests : Init(mix)
    /\ \E mix \in SUBSET CartRequests : CartInit(mix)
    /\ listed \in SUBSET Goods
<1> SUFFICES ASSUME StorefrontInit
             PROVE  /\ \E mix \in SUBSET Requests : Init(mix)
                    /\ \E mix \in SUBSET CartRequests : CartInit(mix)
                    /\ listed \in SUBSET Goods
  OBVIOUS
<1>1. PICK mix \in Mixes : Init(mix) /\ CartInit(mix)
  BY DEF StorefrontInit
<1>2. mix \subseteq Requests \cup CartRequests
  BY StorefrontAssumption
<1>3. Init(mix \cap Requests)
  <2>1. \A r \in CartRequests : r.kind # "create_product"
    BY CartAssumption DEF CartKinds
  <2>2. {r.product : r \in {q \in mix : q.kind = "create_product"}}
          = {r.product : r \in {q \in mix \cap Requests : q.kind = "create_product"}}
    BY <1>2, <2>1
  <2>3. [r \in Requests |-> IF r \notin mix THEN "unsent"
                            ELSE IF r.again = 0 THEN "new" ELSE "later"]
          = [r \in Requests |-> IF r \notin mix \cap Requests THEN "unsent"
                                ELSE IF r.again = 0 THEN "new" ELSE "later"]
    OBVIOUS
  <2> QED BY <1>1, <2>2, <2>3 DEF Init
<1>4. CartInit(mix \cap CartRequests)
  <2>1. [r \in CartRequests |-> IF r \notin mix THEN "unsent"
                                ELSE IF r.again = 0 THEN "new" ELSE "later"]
          = [r \in CartRequests |-> IF r \notin mix \cap CartRequests THEN "unsent"
                                    ELSE IF r.again = 0 THEN "new" ELSE "later"]
    OBVIOUS
  <2> QED BY <1>1, <2>1 DEF CartInit
<1>5. listed \in SUBSET Goods
  BY <1>1, StorefrontAssumption DEF StorefrontInit, Listed, Init
<1> QED BY <1>3, <1>4, <1>5

\* What happens to both is a step of the catalogue or does not concern it,
LEMMA TogetherCatalogue == [StorefrontStep \/ Stops]_all => [Next]_vars
<1> SUFFICES ASSUME StorefrontStep \/ Stops \/ UNCHANGED all PROVE Next \/ UNCHANGED vars
  OBVIOUS
<1>1. CASE StorefrontStep
  BY <1>1 DEF StorefrontStep, CatalogueAlong, Next
<1>2. CASE Stops
  BY <1>2 DEF Stops, CatalogueAlong, Next
<1>3. CASE UNCHANGED all
  BY <1>3 DEF all
<1> QED BY <1>1, <1>2, <1>3

\* and to the carts it is a step of theirs, or the product service listing and
\* delisting: only its own products, and it announces no other.
LEMMA TogetherCart ==
  ASSUME CartTypeOK, TypeOK', [StorefrontStep \/ Stops]_all
  PROVE  [CartNext]_cartVars
<1>1. ASSUME listed' = Listed', delisting' = delisting \cup Announced,
             UNCHANGED <<cart, cached, step, copy, found, answer>>
      PROVE  Delist
  <2>1. Listed' \subseteq Goods
    BY StorefrontAssumption DEF Listed, TypeOK
  <2>2. Announced \subseteq Goods
    BY CatalogueAssumption, StorefrontAssumption DEF Announced
  <2> QED BY <1>1, <2>1, <2>2 DEF Delist, CartTypeOK
<1>2. CASE StorefrontStep
  BY <1>1, <1>2 DEF StorefrontStep, CatalogueAlong, CartNext
<1>3. CASE Stops
  BY <1>1, <1>3 DEF Stops, CatalogueAlong, CartNext
<1>4. CASE UNCHANGED all
  BY <1>4 DEF all
<1> QED BY <1>2, <1>3, <1>4

\* The catalogue behaves among the carts as its own specification says, so its
\* theorems hold of both together.
THEOREM CatalogueRefined == StorefrontSpec => Spec
<1> QED BY TogetherStart, TogetherCatalogue, PTL DEF StorefrontSpec, Spec

\* The carts behave among the catalogue's deletions and bans as their
\* specification says of any listing and delisting, so their theorems hold.
THEOREM CartRefined == StorefrontSpec => CartSpec
<1>1. StorefrontInit => CartInv
  BY TogetherStart, CartInitOK
<1>2. CartInv /\ TypeOK' /\ [StorefrontStep \/ Stops]_all => [CartNext]_cartVars
  BY TogetherCart DEF CartInv, Typed
<1> QED
  BY <1>1, <1>2, TogetherStart, CartKept, CatalogueRefined, TypeCorrect, PTL
  DEF StorefrontSpec, CartSpec

\* The types of both databases, Redis and requests, while products are made,
\* delisted and bought: no amount of a cart outgrows its column.
THEOREM StorefrontTypeCorrect == StorefrontSpec => []StorefrontTypeOK
<1> QED
  BY CatalogueRefined, CartRefined, TypeCorrect, CartTypeCorrect, PTL DEF StorefrontTypeOK

\* Amounts, opened carts, locks and ratings hold of both together as they hold
\* of each.
THEOREM StorefrontCorrect ==
  StorefrontSpec =>
    []AmountExplained /\ OpenedCartOnly /\ []LockedByWorker /\ LockByOwner /\ RatingsForward
<1> QED
  BY CatalogueRefined, CartRefined, AmountCorrect, OpenedCorrect, LockedCorrect, OwnerCorrect,
     RatingsCorrect, PTL
=============================================================================
