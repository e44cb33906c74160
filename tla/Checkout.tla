------------------------------- MODULE Checkout -------------------------------
(***************************************************************************)
(* The purchase: draft orders of the order service, the stock they reserve *)
(* in the product service, the purchase orders they become, and the        *)
(* sellers' balances in the account service.                               *)
(*                                                                         *)
(* A draft is created by createDraftOrder (reserve, then insert; on an     *)
(* error after the reservation, restoreStock).  Requests then arrive for   *)
(* it in any order and number: Mercado Pago's notifications (a new token   *)
(* each), the buyer's free order, cancellation and status queries, the     *)
(* test purchase, and the daily clean-up.  Each runs as the handler does:  *)
(* a read, a transaction, and the messages sent after it.  A request is an *)
(* execution: if a crash cuts it off before its token has a final status,  *)
(* withRetry has it executed again (TransactionToken), which is one more   *)
(* request of the set.  The lists of restore_stock and                     *)
(* add_to_account_balance so cut off start over: RestoreAgain, CreditAgain.*)
(***************************************************************************)
EXTENDS Naturals, FiniteSets, Functions

CONSTANTS
  Drafts,      \* draft orders that may be created
  Products,
  Sellers,
  Accounts,    \* buyers
  NoAccount,   \* the accountId of a notification: none
  Requests,    \* the requests about drafts: records, see RequestType
  Owner,       \* Owner[d]: the buyer of draft d
  Amount,      \* Amount[d][p]: units of p in draft d, 0 if p is not in it
  SellerOf,    \* SellerOf[p]
  Gratis,      \* Gratis[d]: the items of draft d whose subtotal is 0
  InitStock,   \* InitStock[p]
  Repeats,     \* bound: how often a draft's restore_stock starts over
  Faults       \* the faults the environment may inject

OrderKinds  == {"approved", "free", "test"}
CancelKinds == {"rejected", "cancel"}
Kinds == OrderKinds \cup CancelKinds \cup {"status"}

RequestType == [id : Nat, kind : Kinds, draft : Drafts, by : Accounts \cup {NoAccount}]

FaultKinds == {"crash",      \* the order service stops between two steps
               "restore",    \* a product of a restore_stock fails three times
               "message",    \* restore_stock or add_to_account_balance is lost
               "repeat"}     \* their consumer stops before it records Completed

ASSUME CheckoutAssumption ==
  /\ Owner \in [Drafts -> Accounts]
  /\ NoAccount \notin Accounts
  /\ Amount \in [Drafts -> [Products -> Nat]]
  /\ SellerOf \in [Products -> Sellers]
  /\ InitStock \in [Products -> Nat]
  /\ Gratis \in [Drafts -> SUBSET Products]
  /\ Repeats \in Nat
  /\ Faults \subseteq FaultKinds
  /\ Requests \subseteq RequestType
  /\ Drafts \cap Requests = {}

VARIABLES
  stock,       \* product service: units on the shelf
  creation,    \* progress of createDraftOrder of each draft
  draft,       \* status of the draft_order row
  orders,      \* purchase_order rows, named by the request that inserted them
  pc,          \* progress of each request
  reply,       \* answer of each request
  restoring,   \* products a restore_stock message in flight still puts back
  returned,    \* how often the units of a draft went back on the shelf
  crediting,   \* sellers an add_to_account_balance message in flight credits
  credited,    \* income rows per order and seller
  sent,        \* whose message was sent and its token not yet Completed
  again        \* how often a draft's restore_stock started over

\* The messages sent by the order service and what they did.
mail == <<restoring, returned, crediting, credited, sent, again>>

vars == <<stock, creation, draft, orders, pc, reply, mail>>

Items(d) == {p \in Products : Amount[d][p] > 0}
ItemsOf(d, s) == {p \in Items(d) : SellerOf[p] = s}
SellersIn(d) == {SellerOf[p] : p \in Items(d)}

\* The drafts whose total is 0.
Free == {d \in Drafts : Items(d) \subseteq Gratis[d]}

\* The drafts that became an order.
Sold == {q.draft : q \in orders}

\* A message is sent for a draft's creation (restore_stock), by a cancellation
\* (restore_stock) or by an order (add_to_account_balance).
Sources == Drafts \cup Requests
DraftOf(x) == IF x \in Drafts THEN x ELSE x.draft

Row == {"absent", "pending", "completed", "failed"}
Creation == {"none", "reserved", "inserted", "aborted", "refused", "lost"}
Steps == {"new", "read", "committed", "cancelling", "cancelled", "deleting",
          "done", "dead"}
Replies == {"none", "ok", "refused", "error", "pending", "completed", "failed"}

TypeOK ==
  /\ stock \in [Products -> Nat]
  /\ creation \in [Drafts -> Creation]
  /\ draft \in [Drafts -> Row]
  /\ orders \subseteq Requests
  /\ pc \in [Requests -> Steps]
  /\ reply \in [Requests -> Replies]
  /\ restoring \in [Sources -> SUBSET Products]
  /\ returned \in [Drafts -> [Products -> Nat]]
  /\ crediting \in [Requests -> SUBSET Sellers]
  /\ credited \in [Requests -> [Sellers -> Nat]]
  /\ sent \subseteq Sources
  /\ again \in [Drafts -> Nat]

Init ==
  /\ stock = InitStock
  /\ creation = [d \in Drafts |-> "none"]
  /\ draft = [d \in Drafts |-> "absent"]
  /\ orders = {}
  /\ pc = [q \in Requests |-> "new"]
  /\ reply = [q \in Requests |-> "none"]
  /\ restoring = [x \in Sources |-> {}]
  /\ returned = [d \in Drafts |-> [p \in Products |-> 0]]
  /\ crediting = [q \in Requests |-> {}]
  /\ credited = [q \in Requests |-> [s \in Sellers |-> 0]]
  /\ sent = {}
  /\ again = [d \in Drafts |-> 0]

-----------------------------------------------------------------------------
(* createDraftOrder.                                                       *)

\* Mutant of Reserve: the stock is not checked under the lock.
ReserveUnchecked(d) ==
  /\ creation[d] = "none"
  /\ stock' = [p \in Products |-> stock[p] - Amount[d][p]]
  /\ creation' = [creation EXCEPT ![d] = "reserved"]
  /\ UNCHANGED <<draft, orders, pc, reply, mail>>

\* reserve: all the products or none, under pessimistic_write.
Reserve(d) ==
  /\ creation[d] = "none"
  /\ \A p \in Products : Amount[d][p] <= stock[p]
  /\ stock' = [p \in Products |-> stock[p] - Amount[d][p]]
  /\ creation' = [creation EXCEPT ![d] = "reserved"]
  /\ UNCHANGED <<draft, orders, pc, reply, mail>>

\* Mutant of ReserveRefused: restore_stock is sent without a reservation.
ReserveRefusedRestores(d) ==
  /\ creation[d] = "none"
  /\ creation' = [creation EXCEPT ![d] = "refused"]
  /\ restoring' = [restoring EXCEPT ![d] = Items(d)]
  /\ sent' = sent \cup {d}
  /\ UNCHANGED <<stock, draft, orders, pc, reply, returned, crediting, credited, again>>

\* A product is gone, short or its seller inactive, the account is unknown or
\* the cart is empty: answered without a reservation.
ReserveRefused(d) ==
  /\ creation[d] = "none"
  /\ creation' = [creation EXCEPT ![d] = "refused"]
  /\ UNCHANGED <<stock, draft, orders, pc, reply, mail>>

\* The transaction that inserts the draft and its items.
InsertDraft(d) ==
  /\ creation[d] = "reserved"
  /\ creation' = [creation EXCEPT ![d] = "inserted"]
  /\ draft' = [draft EXCEPT ![d] = "pending"]
  /\ UNCHANGED <<stock, orders, pc, reply, mail>>

\* Mutant of InsertFails: no compensation.
InsertFailsSilently(d) ==
  /\ creation[d] = "reserved"
  /\ creation' = [creation EXCEPT ![d] = "aborted"]
  /\ UNCHANGED <<stock, draft, orders, pc, reply, mail>>

\* It threw: the catch sends restore_stock and answers INTERNAL_ERROR.
InsertFails(d) ==
  /\ creation[d] = "reserved"
  /\ creation' = [creation EXCEPT ![d] = "aborted"]
  /\ restoring' = [restoring EXCEPT ![d] = Items(d)]
  /\ sent' = sent \cup {d}
  /\ UNCHANGED <<stock, draft, orders, pc, reply, returned, crediting, credited, again>>

\* The service stops, or never hears of, the reservation it asked for.
ReservationLost(d) ==
  /\ "crash" \in Faults /\ creation[d] = "reserved"
  /\ creation' = [creation EXCEPT ![d] = "lost"]
  /\ UNCHANGED <<stock, draft, orders, pc, reply, mail>>

-----------------------------------------------------------------------------
(* setOrder and createTestPurchase.                                        *)

Ends(q, answer) ==
  /\ pc' = [pc EXCEPT ![q] = "done"]
  /\ reply' = [reply EXCEPT ![q] = answer]

\* A request refers to a draft the buyer was given.
Arrives(q, kinds) ==
  /\ q.kind \in kinds /\ pc[q] = "new"
  /\ creation[q.draft] = "inserted"

Authorized(q) == q.by = NoAccount \/ q.by = Owner[q.draft]

\* The draft is read before the transaction; its status is not looked at.
ReadDraft(q) ==
  /\ Arrives(q, OrderKinds)
  /\ draft[q.draft] # "absent" /\ Authorized(q)
  /\ q.kind = "free" => q.draft \in Free
  /\ pc' = [pc EXCEPT ![q] = "read"]
  /\ UNCHANGED <<stock, creation, draft, orders, reply, mail>>

OrderRefused(q) ==
  /\ Arrives(q, OrderKinds)
  /\ \/ draft[q.draft] = "absent"
     \/ ~Authorized(q)
     \/ q.kind = "free" /\ q.draft \notin Free
  /\ Ends(q, "refused")
  /\ UNCHANGED <<stock, creation, draft, orders, mail>>

\* Mutant of CommitOrder: draft_order_id is not UNIQUE.
CommitOrderAgain(q) ==
  LET d == q.draft IN
  /\ q.kind \in OrderKinds /\ pc[q] = "read"
  /\ orders' = orders \cup {q}
  /\ draft' = [draft EXCEPT ![d] = IF @ = "absent" THEN @ ELSE "completed"]
  /\ pc' = [pc EXCEPT ![q] = "committed"]
  /\ UNCHANGED <<stock, creation, reply, mail>>

\* Insert the order, complete the draft (no row, no error), insert the items.
CommitOrder(q) ==
  LET d == q.draft IN
  /\ q.kind \in OrderKinds /\ pc[q] = "read"
  /\ d \notin Sold
  /\ orders' = orders \cup {q}
  /\ draft' = [draft EXCEPT ![d] = IF @ = "absent" THEN @ ELSE "completed"]
  /\ pc' = [pc EXCEPT ![q] = "committed"]
  /\ UNCHANGED <<stock, creation, reply, mail>>

\* Mutant of OrderFails: a failed insertion is taken for a repeated success.
OrderFailsOk(q) ==
  /\ q.kind \in OrderKinds /\ pc[q] = "read"
  /\ Ends(q, "ok")
  /\ UNCHANGED <<stock, creation, draft, orders, mail>>

\* Mutant of OrderFails: the draft's update is not rolled back.
OrderFailsHalfway(q) ==
  /\ q.kind \in OrderKinds /\ pc[q] = "read"
  /\ draft' = [draft EXCEPT ![q.draft] = IF @ = "absent" THEN @ ELSE "completed"]
  /\ Ends(q, "error")
  /\ UNCHANGED <<stock, creation, orders, mail>>

\* A duplicate draft_order_id, or any other error: rolled back.
OrderFails(q) ==
  /\ q.kind \in OrderKinds /\ pc[q] = "read"
  /\ Ends(q, "error")
  /\ UNCHANGED <<stock, creation, draft, orders, mail>>

\* Mutant of FinishOrder: only one of the sellers is credited.
FinishOrderOneSeller(q) ==
  /\ q.kind \in OrderKinds /\ pc[q] = "committed"
  /\ crediting' = [crediting EXCEPT ![q] =
                     IF q.draft \in Free THEN {} ELSE {CHOOSE s \in SellersIn(q.draft) : TRUE}]
  /\ Ends(q, "ok")
  /\ sent' = sent \cup {q}
  /\ UNCHANGED <<stock, creation, draft, orders, restoring, returned, credited, again>>

\* After the commit: add_to_account_balance unless the total is 0, success.
FinishOrder(q) ==
  /\ q.kind \in OrderKinds /\ pc[q] = "committed"
  /\ IF q.draft \in Free THEN UNCHANGED <<crediting, sent>>
     ELSE /\ crediting' = [crediting EXCEPT ![q] = SellersIn(q.draft)]
          /\ sent' = sent \cup {q}
  /\ Ends(q, "ok")
  /\ UNCHANGED <<stock, creation, draft, orders, restoring, returned, credited, again>>

-----------------------------------------------------------------------------
(* cancelDraftOrder.                                                       *)

ReadCancel(q) ==
  /\ Arrives(q, CancelKinds)
  /\ draft[q.draft] # "absent" /\ Authorized(q)
  /\ pc' = [pc EXCEPT ![q] = "cancelling"]
  /\ UNCHANGED <<stock, creation, draft, orders, reply, mail>>

CancelRefused(q) ==
  /\ Arrives(q, CancelKinds)
  /\ draft[q.draft] = "absent" \/ ~Authorized(q)
  /\ Ends(q, "refused")
  /\ UNCHANGED <<stock, creation, draft, orders, mail>>

\* UPDATE .. SET status = failed WHERE id = ..: whatever the status was.
CommitCancel(q) ==
  LET d == q.draft IN
  /\ pc[q] = "cancelling"
  /\ draft' = [draft EXCEPT ![d] = IF @ = "absent" THEN @ ELSE "failed"]
  /\ pc' = [pc EXCEPT ![q] = "cancelled"]
  /\ UNCHANGED <<stock, creation, orders, reply, mail>>

CancelFails(q) ==
  /\ pc[q] = "cancelling"
  /\ Ends(q, "error")
  /\ UNCHANGED <<stock, creation, draft, orders, mail>>

\* After the commit: restore_stock of every item, under a token of its own.
FinishCancel(q) ==
  /\ pc[q] = "cancelled"
  /\ restoring' = [restoring EXCEPT ![q] = Items(q.draft)]
  /\ Ends(q, "ok")
  /\ sent' = sent \cup {q}
  /\ UNCHANGED <<stock, creation, draft, orders, returned, crediting, credited, again>>

\* The service stops in the middle of a request.  A retry of it, if the caller
\* still makes one, is another request.
RequestLost(q) ==
  /\ "crash" \in Faults
  /\ pc[q] \in {"read", "committed", "cancelling", "cancelled", "deleting"}
  /\ pc' = [pc EXCEPT ![q] = "dead"]
  /\ UNCHANGED <<stock, creation, draft, orders, reply, mail>>

-----------------------------------------------------------------------------
(* restore_stock and add_to_account_balance, as their services handle them. *)

\* Mutant of RestoreOne: the message is handled again, without a token.
RestoreOneAgain(x, p) ==
  LET d == DraftOf(x) IN
  /\ p \in restoring[x] /\ returned[d][p] < 2
  /\ stock' = [stock EXCEPT ![p] = @ + Amount[d][p]]
  /\ returned' = [returned EXCEPT ![d][p] = @ + 1]
  /\ UNCHANGED <<creation, draft, orders, pc, reply>>
  /\ UNCHANGED <<restoring, crediting, credited, sent, again>>

\* One product of the list, in a transaction of its own.
RestoreOne(x, p) ==
  LET d == DraftOf(x) IN
  /\ p \in restoring[x]
  /\ restoring' = [restoring EXCEPT ![x] = @ \ {p}]
  /\ stock' = [stock EXCEPT ![p] = @ + Amount[d][p]]
  /\ returned' = [returned EXCEPT ![d][p] = @ + 1]
  /\ UNCHANGED <<creation, draft, orders, pc, reply, crediting, credited, sent, again>>

\* The product was deleted, or its transaction failed three times: logged.
RestoreSkips(x, p) ==
  /\ "restore" \in Faults /\ p \in restoring[x]
  /\ restoring' = [restoring EXCEPT ![x] = @ \ {p}]
  /\ UNCHANGED <<stock, creation, draft, orders, pc, reply>>
  /\ UNCHANGED <<returned, crediting, credited, sent, again>>

\* subtotal is the string a DECIMAL column is read as: the sum of one is a
\* number, the concatenation of several is none and the increment throws.  The
\* income's CHECK refuses a sum of 0.
Summable(d, s) == Cardinality(ItemsOf(d, s)) = 1 /\ ~(ItemsOf(d, s) \subseteq Gratis[d])

\* Mutant of CreditSeller: the income row has no primary key.
CreditSellerAnyway(q, s) ==
  /\ s \in crediting[q] /\ Summable(q.draft, s)
  /\ crediting' = [crediting EXCEPT ![q] = @ \ {s}]
  /\ credited' = [credited EXCEPT ![q][s] = @ + 1]
  /\ UNCHANGED <<stock, creation, draft, orders, pc, reply>>
  /\ UNCHANGED <<restoring, returned, sent, again>>

\* One seller: insert the income row (its key: the token and the account),
\* increment the balance.
CreditSeller(q, s) ==
  /\ s \in crediting[q] /\ Summable(q.draft, s)
  /\ credited[q][s] = 0
  /\ crediting' = [crediting EXCEPT ![q] = @ \ {s}]
  /\ credited' = [credited EXCEPT ![q][s] = @ + 1]
  /\ UNCHANGED <<stock, creation, draft, orders, pc, reply>>
  /\ UNCHANGED <<restoring, returned, sent, again>>

\* The seller's transaction throws: logged, the token completes all the same.
CreditFails(q, s) ==
  /\ s \in crediting[q]
  /\ ~Summable(q.draft, s) \/ credited[q][s] > 0 \/ "message" \in Faults
  /\ crediting' = [crediting EXCEPT ![q] = @ \ {s}]
  /\ UNCHANGED <<stock, creation, draft, orders, pc, reply>>
  /\ UNCHANGED <<restoring, returned, credited, sent, again>>

\* The list is through: the token's entry says Completed.
Settle(x) ==
  /\ x \in sent /\ restoring[x] = {} /\ (x \in Requests => crediting[x] = {})
  /\ sent' = sent \ {x}
  /\ UNCHANGED <<stock, creation, draft, orders, pc, reply>>
  /\ UNCHANGED <<restoring, returned, crediting, credited, again>>

\* The consumer stopped in the list or before it recorded Completed.  The
\* sender's withRetry sends it again, the lock is gone after 100 s, the entry
\* still reads Pending: the whole list is executed again.
RestoreAgain(x) ==
  LET d == DraftOf(x) IN
  /\ "repeat" \in Faults /\ x \in sent /\ (x \in Requests => x.kind \in CancelKinds)
  /\ again[d] < Repeats
  /\ restoring' = [restoring EXCEPT ![x] = Items(d)]
  /\ again' = [again EXCEPT ![d] = @ + 1]
  /\ UNCHANGED <<stock, creation, draft, orders, pc, reply>>
  /\ UNCHANGED <<returned, crediting, credited, sent>>

CreditAgain(q) ==
  /\ "repeat" \in Faults /\ q \in sent /\ q.kind \in OrderKinds
  /\ crediting' = [crediting EXCEPT ![q] = SellersIn(q.draft)]
  /\ UNCHANGED <<stock, creation, draft, orders, pc, reply>>
  /\ UNCHANGED <<restoring, returned, credited, sent, again>>

\* No attempt that is left arrives, or its sender stopped: what the list still
\* held is not put back.
RestoreLost(x) ==
  /\ "message" \in Faults /\ restoring[x] # {}
  /\ restoring' = [restoring EXCEPT ![x] = {}]
  /\ sent' = sent \ {x}
  /\ UNCHANGED <<stock, creation, draft, orders, pc, reply>>
  /\ UNCHANGED <<returned, crediting, credited, again>>

-----------------------------------------------------------------------------
(* getDraftOrderStatus and cleanDraftOrders.                               *)

\* The status is read; a completed draft is then deleted, by id alone.
ReadStatus(q) ==
  LET d == q.draft IN
  /\ Arrives(q, {"status"})
  /\ \/ /\ draft[d] = "completed"
        /\ pc' = [pc EXCEPT ![q] = "deleting"]
        /\ UNCHANGED reply
     \/ draft[d] = "absent" /\ Ends(q, "refused")
     \/ draft[d] \in {"pending", "failed"} /\ Ends(q, draft[d])
  /\ UNCHANGED <<stock, creation, draft, orders, mail>>

DeleteCompleted(q) ==
  /\ pc[q] = "deleting"
  /\ draft' = [draft EXCEPT ![q.draft] = "absent"]
  /\ Ends(q, "completed")
  /\ UNCHANGED <<stock, creation, orders, mail>>

\* The deletion throws: the transaction is rolled back and an error answered.
DeleteFails(q) ==
  /\ pc[q] = "deleting"
  /\ Ends(q, "error")
  /\ UNCHANGED <<stock, creation, draft, orders, mail>>

\* DELETE .. WHERE created < a week ago: the drafts old enough, whatever
\* their status.
CleanDraftOrders ==
  \E old \in SUBSET {d \in Drafts : draft[d] # "absent"} :
    /\ old # {}
    /\ draft' = [d \in Drafts |-> IF d \in old THEN "absent" ELSE draft[d]]
    /\ UNCHANGED <<stock, creation, orders, pc, reply, mail>>

-----------------------------------------------------------------------------
CreationNext(d) == Reserve(d) \/ ReserveRefused(d) \/ InsertDraft(d) \/ InsertFails(d)

RequestNext(q) ==
  \/ ReadDraft(q) \/ OrderRefused(q) \/ CommitOrder(q) \/ OrderFails(q) \/ FinishOrder(q)
  \/ ReadCancel(q) \/ CancelRefused(q) \/ CommitCancel(q) \/ CancelFails(q) \/ FinishCancel(q)
  \/ ReadStatus(q) \/ DeleteCompleted(q) \/ DeleteFails(q)

RestoreNext(x) == \E p \in Products : RestoreOne(x, p) \/ RestoreSkips(x, p)

CreditNext(q) == \E s \in Sellers : CreditSeller(q, s) \/ CreditFails(q, s)

FaultNext ==
  \/ \E d \in Drafts : ReservationLost(d)
  \/ \E q \in Requests : RequestLost(q) \/ CreditAgain(q)
  \/ \E x \in Sources : RestoreLost(x) \/ RestoreAgain(x)

Next ==
  \/ \E d \in Drafts : CreationNext(d)
  \/ \E q \in Requests : RequestNext(q) \/ CreditNext(q)
  \/ \E x \in Sources : RestoreNext(x) \/ Settle(x)
  \/ CleanDraftOrders
  \/ FaultNext

Spec == Init /\ [][Next]_vars

\* Handlers that started go on, messages in flight are handled to the end of their
\* lists, as one of the finitely many attempts is; requests need not arrive,
\* drafts need not be cleaned.
Fairness ==
  /\ \A d \in Drafts : WF_vars(InsertDraft(d) \/ InsertFails(d))
  /\ \A q \in Requests : WF_vars(pc[q] # "new" /\ RequestNext(q))
  /\ \A q \in Requests, s \in Sellers : WF_vars(CreditSeller(q, s) \/ CreditFails(q, s))
  /\ \A x \in Sources : WF_vars(RestoreNext(x))

FairSpec == Spec /\ Fairness

-----------------------------------------------------------------------------
(* What holds of any requests, in any number and order, and all faults.    *)

\* The detailed checkout implements the ledger of sales: of the receipts that
\* requests could issue one is issued per draft, and each seller is credited
\* once by it.  A second sale or a second credit is no step of the ledger.
Ledger == INSTANCE PurchaseLedger
            WITH Receipts <- Requests,
                 sales <- [d \in Drafts |-> {q \in orders : q.draft = d}],
                 income <- credited

LedgerImplemented == Ledger!LedgerSpec

\* No seller is credited twice for one draft, be it by the same order or by two,
\* nor for a draft that was not sold, although every paid request sends its own
\* add_to_account_balance and a list cut off is credited again.
CreditedOnce ==
  \A q \in Requests, s \in Sellers :
    credited[q][s] > 0 =>
      /\ q \in orders /\ credited[q][s] = 1
      /\ \A r \in Requests : r.draft = q.draft /\ credited[r][s] > 0 => r = q

\* Of all the requests to order a draft, at most one is told it succeeded, and
\* then the order is its own, even if the draft was deleted before the commit.
OneBuyerAnswer ==
  \A q, r \in Requests :
    q.kind \in OrderKinds /\ r.kind \in OrderKinds
      /\ q.draft = r.draft /\ reply[q] = "ok" /\ reply[r] = "ok"
    => q = r /\ q \in orders

\* A row or a status answer says completed only of a draft that was ordered.
CompletedIsOrdered ==
  /\ \A d \in Drafts : draft[d] = "completed" => d \in Sold
  /\ \A q \in Requests : reply[q] = "completed" => q.draft \in Sold

-----------------------------------------------------------------------------
(* What holds if no draft is cancelled twice, or both cancelled and ordered, *)
(* retries of requests cut off by a crash included.                        *)

Unambiguous ==
  \A q, r \in Requests :
    q.kind \in CancelKinds /\ r.kind \in OrderKinds \cup CancelKinds
      /\ q.draft = r.draft => q = r

Units(D, p) == SumFunctionOnSet([d \in Drafts |-> Amount[d][p]], D)

\* The products of which no restoration was cut off and started over.
Steady(p) == \A d \in Drafts : Amount[d][p] > 0 => again[d] = 0

\* No unit is sold, promised to a pending draft or on the shelf beyond those
\* there were, of any product whose restorations were not started over.
NoOversell ==
  \A p \in Products :
    Steady(p) =>
      stock[p] + Units(Sold \cup {d \in Drafts : draft[d] = "pending"}, p) <= InitStock[p]

\* Units of a draft go back on the shelf at most once, and once more for each
\* time the list was started over; those sold never go back.
ReturnedOnce ==
  \A d \in Drafts, p \in Products :
    returned[d][p] <= 1 + again[d] /\ (d \in Sold => returned[d][p] = 0)

-----------------------------------------------------------------------------
(* What happens in the end, without faults.                                *)

ReturnsAll(d) == \A p \in Items(d) : returned[d][p] > 0

\* The saga's compensation: a reservation whose draft could not be inserted,
\* or was cancelled, is put back on the shelf.
Compensated ==
  /\ \A d \in Drafts : creation[d] = "aborted" ~> ReturnsAll(d)
  /\ \A q \in Requests :
       q.kind \in CancelKinds /\ pc[q] = "cancelled" ~> ReturnsAll(q.draft)

\* Every seller of something paid for is credited once it is sold.
SaleCredited ==
  \A d \in Drafts : \A s \in {SellerOf[p] : p \in Items(d) \ Gratis[d]} :
    d \in Sold ~> \E q \in orders : q.draft = d /\ credited[q][s] > 0

=============================================================================
