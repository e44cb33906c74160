---------------------------- MODULE Checkout_proofs ----------------------------
(***************************************************************************)
(* Proofs about Checkout for any drafts, products, sellers, requests and   *)
(* faults.                                                                 *)
(***************************************************************************)
EXTENDS Checkout, Sums_proofs, TLAPS

USE DEF mail

\* What the constants say of a request and of the source of a message.
LEMMA RequestFacts ==
  /\ \A q \in Requests : q.draft \in Drafts /\ q.kind \in Kinds
  /\ \A q \in Requests : q \notin Drafts /\ q \in Sources /\ DraftOf(q) = q.draft
  /\ \A d \in Drafts : d \in Sources /\ DraftOf(d) = d
  /\ \A x \in Sources : DraftOf(x) \in Drafts
BY CheckoutAssumption DEF RequestType, Sources, DraftOf

\* The items of a draft are products, their sellers are sellers.
LEMMA ItemFacts ==
  \A d \in Drafts : Items(d) \subseteq Products /\ SellersIn(d) \subseteq Sellers
BY CheckoutAssumption DEF Items, SellersIn

-----------------------------------------------------------------------------
(* Types.                                                                  *)

\* The databases at the start have the types declared.
LEMMA TypeInit == Init => TypeOK
BY CheckoutAssumption DEF Init, TypeOK, Creation, Row, Steps, Replies

\* createDraftOrder keeps the types: reserve never takes more than there is.
LEMMA TypeCreation ==
  ASSUME TypeOK, NEW d \in Drafts, CreationNext(d) \/ ReservationLost(d)
  PROVE  TypeOK'
<1> USE DEF TypeOK
<1>1. CASE Reserve(d)
  <2>1. \A p \in Products : stock[p] - Amount[d][p] \in Nat
    <3>1. \A m, n \in Nat : m <= n => n - m \in Nat
      OBVIOUS
    <3>2. \A p \in Products : Amount[d][p] \in Nat /\ stock[p] \in Nat
      BY CheckoutAssumption
    <3> QED
      BY <1>1, <3>1, <3>2 DEF Reserve
  <2>2. stock' = [p \in Products |-> stock[p] - Amount[d][p]]
    BY <1>1 DEF Reserve
  <2>3. stock' \in [Products -> Nat]
    BY <2>1, <2>2
  <2> QED
    BY <1>1, <2>3 DEF Reserve, Creation
<1>2. CASE ReserveRefused(d)
  BY <1>2 DEF ReserveRefused, Creation
<1>3. CASE InsertDraft(d)
  BY <1>3 DEF InsertDraft, Creation, Row
<1>4. CASE InsertFails(d)
  BY <1>4, ItemFacts, RequestFacts DEF InsertFails, Creation
<1>5. CASE ReservationLost(d)
  BY <1>5 DEF ReservationLost, Creation
<1> QED
  BY <1>1, <1>2, <1>3, <1>4, <1>5 DEF CreationNext

\* So do the handlers of requests about drafts.
LEMMA TypeRequest ==
  ASSUME TypeOK, NEW q \in Requests, RequestNext(q) \/ RequestLost(q)
  PROVE  TypeOK'
<1> USE DEF TypeOK, Steps, Replies, Row, Ends
<1>1. CASE ReadDraft(q)
  BY <1>1 DEF ReadDraft
<1>2. CASE OrderRefused(q)
  BY <1>2 DEF OrderRefused
<1>3. CASE CommitOrder(q)
  BY <1>3, RequestFacts DEF CommitOrder
<1>4. CASE OrderFails(q)
  BY <1>4 DEF OrderFails
<1>5. CASE FinishOrder(q)
  <2>1. SellersIn(q.draft) \subseteq Sellers /\ q \in Sources
    BY RequestFacts, ItemFacts
  <2>2. crediting' \in [Requests -> SUBSET Sellers] /\ sent' \subseteq Sources
    BY <1>5, <2>1 DEF FinishOrder
  <2> QED
    BY <1>5, <2>2 DEF FinishOrder
<1>6. CASE ReadCancel(q)
  BY <1>6 DEF ReadCancel
<1>7. CASE CancelRefused(q)
  BY <1>7 DEF CancelRefused
<1>8. CASE CommitCancel(q)
  BY <1>8, RequestFacts DEF CommitCancel
<1>9. CASE CancelFails(q)
  BY <1>9 DEF CancelFails
<1>10. CASE FinishCancel(q)
  BY <1>10, RequestFacts, ItemFacts DEF FinishCancel
<1>11. CASE ReadStatus(q)
  <2>1. UNCHANGED <<stock, creation, draft, orders, mail>>
    BY <1>11 DEF ReadStatus
  <2>2. \/ pc' = [pc EXCEPT ![q] = "deleting"] /\ reply' = reply
        \/ \E answer \in {"refused", "pending", "failed"} : Ends(q, answer)
    BY <1>11 DEF ReadStatus
  <2>3. pc' \in [Requests -> Steps] /\ reply' \in [Requests -> Replies]
    BY <2>2
  <2> QED
    BY <2>1, <2>3
<1>12. CASE DeleteCompleted(q) \/ DeleteFails(q)
  BY <1>12, RequestFacts DEF DeleteCompleted, DeleteFails
<1>13. CASE RequestLost(q)
  BY <1>13 DEF RequestLost
<1> QED
  BY <1>1, <1>2, <1>3, <1>4, <1>5, <1>6, <1>7, <1>8, <1>9, <1>10, <1>11, <1>12,
     <1>13 DEF RequestNext

\* So does restore_stock, product by product, and started over.
LEMMA TypeRestore ==
  ASSUME TypeOK, NEW x \in Sources,
         RestoreNext(x) \/ Settle(x) \/ RestoreLost(x) \/ RestoreAgain(x)
  PROVE  TypeOK'
<1> USE DEF TypeOK
<1>1. DraftOf(x) \in Drafts
  BY RequestFacts
<1>2. ASSUME NEW p \in Products, RestoreOne(x, p) PROVE TypeOK'
  <2>1. stock[p] + Amount[DraftOf(x)][p] \in Nat /\ returned[DraftOf(x)][p] + 1 \in Nat
    BY <1>1, CheckoutAssumption
  <2>2. stock' \in [Products -> Nat] /\ returned' \in [Drafts -> [Products -> Nat]]
    BY <1>1, <1>2, <2>1 DEF RestoreOne
  <2> QED
    BY <1>2, <2>2 DEF RestoreOne
<1>3. ASSUME NEW p \in Products, RestoreSkips(x, p) PROVE TypeOK'
  BY <1>3 DEF RestoreSkips
<1>4. CASE RestoreLost(x)
  BY <1>4 DEF RestoreLost
<1>5. CASE Settle(x)
  BY <1>5 DEF Settle
<1>6. CASE RestoreAgain(x)
  <2>1. again[DraftOf(x)] + 1 \in Nat
    BY <1>1
  <2>2. again' \in [Drafts -> Nat] /\ restoring' \in [Sources -> SUBSET Products]
    BY <1>1, <1>6, <2>1, ItemFacts DEF RestoreAgain
  <2> QED
    BY <1>6, <2>2 DEF RestoreAgain
<1> QED
  BY <1>2, <1>3, <1>4, <1>5, <1>6 DEF RestoreNext

\* So does add_to_account_balance, seller by seller, and started over.
LEMMA TypeCredit ==
  ASSUME TypeOK, NEW q \in Requests, CreditNext(q) \/ CreditAgain(q)
  PROVE  TypeOK'
<1> USE DEF TypeOK
<1>1. ASSUME NEW s \in Sellers, CreditSeller(q, s) PROVE TypeOK'
  <2>1. credited[q][s] + 1 \in Nat
    OBVIOUS
  <2> QED
    BY <1>1, <2>1 DEF CreditSeller
<1>2. ASSUME NEW s \in Sellers, CreditFails(q, s) PROVE TypeOK'
  BY <1>2 DEF CreditFails
<1>3. CASE CreditAgain(q)
  BY <1>3, RequestFacts, ItemFacts DEF CreditAgain
<1> QED
  BY <1>1, <1>2, <1>3 DEF CreditNext

\* So does every step, the clean-up and the faults included.
LEMMA TypeStep == TypeOK /\ [Next]_vars => TypeOK'
<1> SUFFICES ASSUME TypeOK, [Next]_vars PROVE TypeOK'
  OBVIOUS
<1>1. CASE CleanDraftOrders
  BY <1>1 DEF TypeOK, CleanDraftOrders, Row
<1>2. CASE UNCHANGED vars
  BY <1>2 DEF TypeOK, vars
<1> QED
  BY <1>1, <1>2, TypeCreation, TypeRequest, TypeRestore, TypeCredit DEF Next, FaultNext

\* The state of the order, product and account services keeps its types; of
\* these the one that matters is that no step takes the stock below zero.
THEOREM TypeCorrect == Spec => []TypeOK
<1> QED
  BY TypeInit, TypeStep, PTL DEF Spec

-----------------------------------------------------------------------------
(* Sales and credits.  A request has won its draft when it committed the   *)
(* order: UNIQUE draft_order_id leaves at most one of them, the only one   *)
(* that may send the message that credits the sellers.                     *)

Won(q) == q.kind \in OrderKinds /\ (pc[q] = "committed" \/ reply[q] = "ok")

Cancelling == {"cancelling", "cancelled"}

WinnerInv ==
  /\ \A q \in Requests : pc[q] # "done" => reply[q] = "none"
  /\ \A q \in Requests : pc[q] \in Cancelling => q.kind \in CancelKinds
  /\ \A q \in Requests : Won(q) => q \in orders
  /\ \A q \in orders : q.kind \in OrderKinds /\ pc[q] # "new"
  /\ \A q, r \in orders : q.draft = r.draft => q = r

\* The orders whose sellers are, were or may again be credited.
Credits(q) ==
  \/ crediting[q] # {}
  \/ q \in sent /\ q.kind \in OrderKinds
  \/ \E s \in Sellers : credited[q][s] # 0

CreditInv ==
  \A q \in Requests :
    /\ Credits(q) => q.kind \in OrderKinds /\ reply[q] = "ok"
    /\ \A s \in Sellers : credited[q][s] \in {0, 1}

CompletedInv ==
  /\ CompletedIsOrdered
  /\ \A q \in Requests : pc[q] = "deleting" => q.draft \in Sold

SalesInv == TypeOK /\ WinnerInv /\ CreditInv /\ CompletedInv

\* Nothing is ordered, credited or answered at the start.
LEMMA SalesInit == Init => SalesInv
<1> SUFFICES ASSUME Init PROVE SalesInv
  OBVIOUS
<1>1. TypeOK
  BY TypeInit
<1>2. WinnerInv
  BY DEF Init, WinnerInv, Won, Cancelling
<1>3. CreditInv
  BY DEF Init, CreditInv, Credits
<1>4. CompletedInv
  BY DEF Init, CompletedInv, CompletedIsOrdered
<1> QED
  BY <1>1, <1>2, <1>3, <1>4 DEF SalesInv

\* A step that answers no success, commits no order and sends no credit.
LEMMA SalesFrame ==
  ASSUME SalesInv, TypeOK',
         orders' = orders, credited' = credited, crediting' = crediting,
         \A q \in Requests : q.kind \in OrderKinds => (reply[q] = "ok" <=> reply'[q] = "ok"),
         \A q \in Requests : q \in sent' /\ q.kind \in OrderKinds => q \in sent,
         \A q \in Requests : pc'[q] \in Cancelling => q.kind \in CancelKinds,
         \A q \in Requests : pc'[q] = "committed" => pc[q] = "committed",
         \A q \in Requests : pc[q] # "new" => pc'[q] # "new",
         \A q \in Requests : pc'[q] # "done" => reply'[q] = "none",
         \A d \in Drafts : draft'[d] = "completed" => draft[d] = "completed",
         \A q \in Requests : reply'[q] = "completed" \/ pc'[q] = "deleting"
                                => q.draft \in Sold
  PROVE  SalesInv'
<1>1. WinnerInv'
  BY DEF SalesInv, TypeOK, WinnerInv, Won
<1>2. CreditInv'
  BY DEF SalesInv, CreditInv, Credits
<1>3. Sold' = Sold
  BY DEF Sold
<1>4. CompletedInv'
  BY <1>3 DEF SalesInv, CompletedInv, CompletedIsOrdered
<1> QED
  BY <1>1, <1>2, <1>4 DEF SalesInv

\* setOrder and createTestPurchase: the one that commits is the winner.
LEMMA SalesOrder ==
  ASSUME SalesInv, TypeOK', NEW q \in Requests, CommitOrder(q) \/ FinishOrder(q)
  PROVE  SalesInv'
<1>1. q.draft \in Drafts /\ q.draft \notin Requests /\ "committed" # "done"
  BY RequestFacts
<1>2. CASE CommitOrder(q)
  <2>1. Sold' = Sold \cup {q.draft} /\ \A r \in orders : r.draft # q.draft
    BY <1>2 DEF CommitOrder, Sold
  <2>2. WinnerInv'
    BY <1>1, <1>2, <2>1 DEF SalesInv, TypeOK, WinnerInv, Won, Cancelling, CommitOrder
  <2>3. CreditInv'
    BY <1>2 DEF SalesInv, CreditInv, Credits, CommitOrder
  <2>4. CompletedInv'
    BY <1>1, <1>2, <2>1 DEF SalesInv, TypeOK, CompletedInv, CompletedIsOrdered, CommitOrder
  <2> QED
    BY <2>2, <2>3, <2>4 DEF SalesInv
<1>3. CASE FinishOrder(q)
  <2>1. /\ pc[q] = "committed" /\ q.kind \in OrderKinds
        /\ \A r \in Requests : r # q => crediting'[r] = crediting[r]
        /\ sent' \subseteq sent \cup {q}
        /\ pc' = [pc EXCEPT ![q] = "done"] /\ reply' = [reply EXCEPT ![q] = "ok"]
        /\ UNCHANGED <<draft, orders, credited>>
    BY <1>3 DEF SalesInv, TypeOK, FinishOrder, Ends
  <2>2. WinnerInv'
    BY <2>1 DEF SalesInv, TypeOK, WinnerInv, Won, Cancelling
  <2>3. CreditInv'
    BY <2>1 DEF SalesInv, TypeOK, CreditInv, Credits
  <2>4. CompletedInv'
    BY <2>1 DEF SalesInv, TypeOK, CompletedInv, CompletedIsOrdered, Sold
  <2> QED
    BY <2>2, <2>3, <2>4 DEF SalesInv
<1> QED
  BY <1>2, <1>3

\* Every handler of a request keeps the invariant of sales.
LEMMA SalesRequest ==
  ASSUME SalesInv, TypeOK', NEW q \in Requests, RequestNext(q) \/ RequestLost(q)
  PROVE  SalesInv'
<1> USE DEF SalesInv, TypeOK, WinnerInv, CompletedInv, CompletedIsOrdered, Cancelling, Ends
<1>1. CASE ReadDraft(q)
  BY <1>1, SalesFrame DEF ReadDraft, Arrives
<1>2. CASE OrderRefused(q)
  BY <1>2, SalesFrame DEF OrderRefused, Arrives
<1>3. CASE CommitOrder(q) \/ FinishOrder(q)
  BY <1>3, SalesOrder
<1>4. CASE OrderFails(q)
  BY <1>4, SalesFrame DEF OrderFails
<1>5. CASE ReadCancel(q)
  BY <1>5, SalesFrame DEF ReadCancel, Arrives
<1>6. CASE CancelRefused(q)
  BY <1>6, SalesFrame DEF CancelRefused, Arrives
<1>7. CASE CommitCancel(q)
  BY <1>7, SalesFrame, RequestFacts DEF CommitCancel
<1>8. CASE CancelFails(q)
  BY <1>8, SalesFrame DEF CancelFails
<1>9. CASE FinishCancel(q)
  <2>1. q.kind \notin OrderKinds
    BY <1>9 DEF FinishCancel, OrderKinds, CancelKinds
  <2> QED
    BY <1>9, <2>1, SalesFrame DEF FinishCancel
<1>10. CASE ReadStatus(q)
  <2>1. CASE draft[q.draft] = "completed" /\ pc' = [pc EXCEPT ![q] = "deleting"] /\ UNCHANGED reply
    BY <1>10, <2>1, SalesFrame, RequestFacts DEF ReadStatus, Arrives
  <2>2. ASSUME NEW v \in {"refused", "pending", "failed"}, Ends(q, v) PROVE SalesInv'
    BY <1>10, <2>2, SalesFrame DEF ReadStatus, Arrives
  <2> QED
    BY <1>10, <2>1, <2>2 DEF ReadStatus
<1>11. CASE DeleteCompleted(q)
  <2>1. /\ pc[q] = "deleting" /\ reply[q] = "none" /\ q.draft \in Sold /\ q.draft \in Drafts
        /\ pc' = [pc EXCEPT ![q] = "done"] /\ reply' = [reply EXCEPT ![q] = "completed"]
        /\ draft' = [draft EXCEPT ![q.draft] = "absent"]
        /\ UNCHANGED <<orders, credited, crediting, sent>>
    BY <1>11, RequestFacts DEF DeleteCompleted
  <2>2. \A d \in Drafts : draft'[d] = "completed" => draft[d] = "completed"
    BY <2>1
  <2> QED
    BY <2>1, <2>2, SalesFrame
<1>12. CASE DeleteFails(q)
  BY <1>12, SalesFrame DEF DeleteFails
<1>13. CASE RequestLost(q)
  BY <1>13, SalesFrame DEF RequestLost
<1> QED
  BY <1>1, <1>2, <1>3, <1>4, <1>5, <1>6, <1>7, <1>8, <1>9, <1>10, <1>11, <1>12, <1>13
  DEF RequestNext

\* A seller is credited only by the message of an order that succeeded, and by
\* the key of the income once, however often the list starts over.
LEMMA SalesCredit ==
  ASSUME SalesInv, TypeOK', NEW q \in Requests, CreditNext(q) \/ CreditAgain(q)
  PROVE  SalesInv'
<1>1. /\ UNCHANGED <<draft, orders, pc, reply, sent>>
      /\ \A r \in Requests : r # q => crediting'[r] = crediting[r]
      /\ Credits(q)
  BY DEF SalesInv, TypeOK, CreditNext, CreditSeller, CreditFails, CreditAgain, Credits
<1>2. WinnerInv' /\ CompletedInv'
  BY <1>1 DEF SalesInv, WinnerInv, Won, CompletedInv, CompletedIsOrdered, Sold
<1>3. q.kind \in OrderKinds /\ reply[q] = "ok"
  BY <1>1 DEF SalesInv, CreditInv
<1>4. CASE credited' = credited
  <2>1. CreditInv'
    BY <1>1, <1>3, <1>4 DEF SalesInv, CreditInv, Credits
  <2> QED
    BY <1>2, <2>1 DEF SalesInv
<1>5. ASSUME NEW s \in Sellers, CreditSeller(q, s) PROVE SalesInv'
  <2>1. credited' = [credited EXCEPT ![q][s] = 1]
    BY <1>5, 0 + 1 = 1 DEF CreditSeller
  <2>2. \A r \in Requests, u \in Sellers :
          credited'[r][u] = IF r = q /\ u = s THEN 1 ELSE credited[r][u]
    BY <2>1 DEF SalesInv, TypeOK
  <2>3. CreditInv'
    BY <1>1, <1>3, <2>2 DEF SalesInv, CreditInv, Credits
  <2> QED
    BY <1>2, <2>3 DEF SalesInv
<1> QED
  BY <1>4, <1>5 DEF CreditNext, CreditFails, CreditAgain

\* Every step keeps the invariant of sales.
LEMMA SalesStep == SalesInv /\ [Next]_vars => SalesInv'
<1> SUFFICES ASSUME SalesInv, [Next]_vars PROVE SalesInv'
  OBVIOUS
<1>1. TypeOK'
  BY TypeStep DEF SalesInv
<1> USE DEF SalesInv, WinnerInv, CompletedInv, CompletedIsOrdered
<1>2. ASSUME NEW d \in Drafts, CreationNext(d) \/ ReservationLost(d) PROVE SalesInv'
  BY <1>1, <1>2, SalesFrame, RequestFacts
  DEF TypeOK, CreationNext, Reserve, ReserveRefused, InsertDraft, InsertFails, ReservationLost
<1>3. ASSUME NEW x \in Sources,
             RestoreNext(x) \/ Settle(x) \/ RestoreLost(x) \/ RestoreAgain(x)
      PROVE  SalesInv'
  BY <1>1, <1>3, SalesFrame
  DEF RestoreNext, RestoreOne, RestoreSkips, Settle, RestoreLost, RestoreAgain
<1>4. ASSUME NEW q \in Requests, CreditNext(q) \/ CreditAgain(q) PROVE SalesInv'
  BY <1>1, <1>4, SalesCredit
<1>5. CASE CleanDraftOrders
  BY <1>1, <1>5, SalesFrame DEF CleanDraftOrders
<1>6. CASE UNCHANGED vars
  BY <1>1, <1>6, SalesFrame DEF vars
<1> QED
  BY <1>1, <1>2, <1>3, <1>4, <1>5, <1>6, SalesRequest DEF Next, FaultNext

\* Of the requests that order a draft one at most commits; all that is credited,
\* answered or shown as completed comes from it.
THEOREM SalesCorrect == Spec => []SalesInv
<1> QED
  BY SalesInit, SalesStep, PTL DEF Spec

\* No seller is credited twice for a draft, or for one not sold, whatever
\* notifications, free orders and test purchases arrive and however often a
\* list of credits starts over.
THEOREM CreditCorrect == Spec => []CreditedOnce
<1>1. SalesInv => CreditedOnce
  <2> SUFFICES ASSUME SalesInv, NEW q \in Requests, NEW s \in Sellers, credited[q][s] > 0
               PROVE  /\ q \in orders /\ credited[q][s] = 1
                      /\ \A r \in Requests : r.draft = q.draft /\ credited[r][s] > 0 => r = q
    BY DEF CreditedOnce
  <2>1. \A r \in Requests : credited[r][s] > 0 => r \in orders /\ credited[r][s] = 1
    BY DEF SalesInv, CreditInv, Credits, WinnerInv, Won
  <2> QED
    BY <2>1 DEF SalesInv, WinnerInv
<1> QED
  BY <1>1, SalesCorrect, PTL

\* At most one request to order a draft is told that it succeeded, and the
\* order it speaks of exists.
THEOREM AnswerCorrect == Spec => []OneBuyerAnswer
<1>1. SalesInv => OneBuyerAnswer
  BY DEF SalesInv, WinnerInv, Won, OneBuyerAnswer
<1> QED
  BY <1>1, SalesCorrect, PTL

\* No draft row and no status answer says completed of a draft not ordered.
THEOREM CompletedCorrect == Spec => []CompletedIsOrdered
<1>1. SalesInv => CompletedIsOrdered
  BY DEF SalesInv, CompletedInv
<1> QED
  BY <1>1, SalesCorrect, PTL

-----------------------------------------------------------------------------
(* The refinement: CommitOrder sells, CreditSeller credits, every other    *)
(* step leaves the ledger alone.                                           *)

\* No order and no income is the initial state of the ledger.
LEMMA LedgerStarts == Init => Ledger!LedgerInit
BY DEF Init, Ledger!LedgerInit

\* A step that writes neither orders nor incomes stutters in the ledger.
LEMMA LedgerStutters == orders' = orders /\ credited' = credited => UNCHANGED Ledger!ledger
BY DEF Ledger!ledger

\* The commit of setOrder is the first sale of its draft, under its own receipt.
LEMMA LedgerSell ==
  ASSUME SalesInv, NEW q \in Requests, CommitOrder(q)
  PROVE  Ledger!LedgerNext
<1> DEFINE d == q.draft
<1>1. /\ d \in Drafts /\ orders' = orders \cup {q} /\ credited' = credited
      /\ \A r \in orders : r.draft # d
  BY RequestFacts DEF CommitOrder, Sold
<1>2. \A e \in Drafts : {r \in orders' : r.draft = e} =
                        IF e = d THEN {q} ELSE {r \in orders : r.draft = e}
  BY <1>1
<1>3. {r \in orders : r.draft = d} = {} /\ \A e \in Drafts : q \notin {r \in orders : r.draft = e}
  BY <1>1
<1>4. [e \in Drafts |-> {r \in orders' : r.draft = e}] =
        [[e \in Drafts |-> {r \in orders : r.draft = e}] EXCEPT ![d] = {q}]
  BY <1>1, <1>2
<1>5. Ledger!Sell(d, q)
  BY <1>1, <1>3, <1>4 DEF Ledger!Sell
<1> QED
  BY <1>1, <1>5 DEF Ledger!LedgerNext

\* The commit of one seller's income is the first credit under that receipt.
LEMMA LedgerCredit ==
  ASSUME SalesInv, NEW q \in Requests, NEW s \in Sellers, CreditSeller(q, s)
  PROVE  Ledger!LedgerNext
<1> DEFINE d == q.draft
<1>1. /\ d \in Drafts /\ q \in orders /\ credited[q][s] = 0 /\ orders' = orders
      /\ credited' = [credited EXCEPT ![q][s] = credited[q][s] + 1]
  BY RequestFacts DEF SalesInv, CreditInv, Credits, WinnerInv, Won, CreditSeller
<1>2. credited' = [credited EXCEPT ![q][s] = 1]
  BY <1>1, 0 + 1 = 1
<1>3. Ledger!Credit(d, q, s)
  BY <1>1, <1>2 DEF Ledger!Credit
<1> QED
  BY <1>1, <1>3 DEF Ledger!LedgerNext

\* Every step of the checkout is a step of the ledger or stutters.
LEMMA LedgerStep == SalesInv /\ [Next]_vars => [Ledger!LedgerNext]_Ledger!ledger
<1> SUFFICES ASSUME SalesInv, [Next]_vars PROVE [Ledger!LedgerNext]_Ledger!ledger
  OBVIOUS
<1>1. ASSUME NEW d \in Drafts, CreationNext(d) \/ ReservationLost(d)
      PROVE  orders' = orders /\ credited' = credited
  BY <1>1 DEF CreationNext, Reserve, ReserveRefused, InsertDraft, InsertFails, ReservationLost
<1>2. ASSUME NEW q \in Requests, RequestNext(q) \/ RequestLost(q)
      PROVE  CommitOrder(q) \/ (orders' = orders /\ credited' = credited)
  BY <1>2 DEF RequestNext, ReadDraft, OrderRefused, OrderFails, FinishOrder, ReadCancel,
     CancelRefused, CommitCancel, CancelFails, FinishCancel, ReadStatus, DeleteCompleted,
     DeleteFails, RequestLost
<1>3. ASSUME NEW q \in Requests, CreditNext(q) \/ CreditAgain(q)
      PROVE  (\E s \in Sellers : CreditSeller(q, s)) \/ (orders' = orders /\ credited' = credited)
  BY <1>3 DEF CreditNext, CreditFails, CreditAgain
<1>4. ASSUME NEW x \in Sources, RestoreNext(x) \/ Settle(x) \/ RestoreLost(x) \/ RestoreAgain(x)
      PROVE  orders' = orders /\ credited' = credited
  BY <1>4 DEF RestoreNext, RestoreOne, RestoreSkips, Settle, RestoreLost, RestoreAgain
<1>5. CleanDraftOrders \/ UNCHANGED vars => orders' = orders /\ credited' = credited
  BY DEF CleanDraftOrders, vars
<1> QED
  BY <1>1, <1>2, <1>3, <1>4, <1>5, LedgerSell, LedgerCredit, LedgerStutters
  DEF Next, FaultNext

\* The checkout implements the ledger: of the receipts of a draft one is issued,
\* for good, and it credits each seller once; a second sale of a draft or a
\* second credit under a receipt would be a step the ledger does not take.
THEOREM LedgerCorrect == Spec => LedgerImplemented
<1> QED
  BY LedgerStarts, LedgerStep, SalesCorrect, PTL DEF Spec, LedgerImplemented, Ledger!LedgerSpec

-----------------------------------------------------------------------------
(* Units that come back, when no draft is cancelled twice or ordered too.  *)

Cancelled(q) == q.kind \in CancelKinds /\ pc[q] = "done"

\* The draft or cancellation whose restore_stock is being handled, or may still
\* be handled again.
Restores(x) ==
  restoring[x] # {} \/ (x \in sent /\ (x \in Requests => x.kind \in CancelKinds))

\* Where a request or a message can come from.
OriginInv ==
  /\ \A q \in Requests : pc[q] # "new" => creation[q.draft] = "inserted"
  /\ \A d \in Drafts : Restores(d) => creation[d] = "aborted"
  /\ \A q \in Requests : Restores(q) => Cancelled(q)
  /\ \A x \in Sources : restoring[x] \subseteq Items(DraftOf(x))

\* A product still on the list was put back once per restart at most, one that
\* is off the list once more.
ReturnInv ==
  /\ \A x \in Sources : \A p \in restoring[x] :
       returned[DraftOf(x)][p] <= again[DraftOf(x)]
  /\ \A d \in Drafts, p \in Products :
       /\ returned[d][p] <= 1 + again[d]
       /\ returned[d][p] > 0 =>
            creation[d] = "aborted" \/ \E q \in Requests : q.draft = d /\ Cancelled(q)

ReturnedInv == SalesInv /\ OriginInv /\ ReturnInv

\* No unit is on its way back at the start.
LEMMA ReturnedInit == Init => OriginInv /\ ReturnInv
<1> SUFFICES ASSUME Init PROVE OriginInv /\ ReturnInv
  OBVIOUS
<1>1. OriginInv
  BY RequestFacts DEF Init, OriginInv, Restores
<1>2. \A d \in Drafts, p \in Products : returned[d][p] = 0 /\ again[d] = 0
  BY DEF Init
<1>3. ReturnInv
  BY <1>2 DEF Init, ReturnInv
<1> QED
  BY <1>1, <1>3

\* The units of a draft are put back by one source: its creation, which then
\* failed, or else its only cancellation.
LEMMA OneSource ==
  ASSUME Unambiguous, OriginInv, NEW x \in Sources, NEW y \in Sources,
         DraftOf(x) = DraftOf(y), Restores(x), Restores(y)
  PROVE  x = y
<1>1. CASE x \in Drafts /\ y \in Drafts
  BY <1>1, RequestFacts
<1>2. ASSUME NEW d \in Drafts, NEW q \in Requests, q.draft = d, Restores(d), Restores(q)
      PROVE  FALSE
  BY <1>2 DEF OriginInv, Cancelled
<1>3. CASE x \in Requests /\ y \in Requests
  BY <1>3, RequestFacts DEF OriginInv, Cancelled, Unambiguous
<1> QED
  BY <1>1, <1>2, <1>3, RequestFacts DEF Sources

\* A request goes on: its draft was inserted, and it sends no restore_stock.
LEMMA ReturnedAdvance ==
  ASSUME ReturnedInv, NEW q \in Requests,
         UNCHANGED <<creation, restoring, returned, again>>,
         \A x \in Sources : x \in sent' => x \in sent \/ (x = q /\ q.kind \in OrderKinds),
         pc[q] # "done", pc'[q] # "new", \A r \in Requests : r # q => pc'[r] = pc[r],
         creation[q.draft] = "inserted"
  PROVE  OriginInv' /\ ReturnInv'
<1>1. \A r \in Requests : Cancelled(r) => Cancelled(r)'
  BY DEF Cancelled
<1>2. \A x \in Sources : Restores(x)' => Restores(x)
  BY DEF Restores, OrderKinds, CancelKinds, Sources
<1>3. OriginInv'
  BY <1>1, <1>2, RequestFacts DEF ReturnedInv, OriginInv
<1>4. ReturnInv'
  BY <1>1 DEF ReturnedInv, ReturnInv
<1> QED
  BY <1>3, <1>4

\* The restore_stock a cancellation sends is the only one for its draft.
LEMMA ReturnedFinishCancel ==
  ASSUME Unambiguous, ReturnedInv, NEW q \in Requests, FinishCancel(q)
  PROVE  OriginInv' /\ ReturnInv'
<1>1. /\ pc[q] = "cancelled" /\ pc' = [pc EXCEPT ![q] = "done"]
      /\ restoring' = [restoring EXCEPT ![q] = Items(q.draft)]
      /\ sent' = sent \cup {q}
      /\ UNCHANGED <<creation, returned, again>>
  BY DEF FinishCancel, Ends
<1>2. /\ q.kind \in CancelKinds /\ creation[q.draft] = "inserted" /\ q.draft \in Drafts
      /\ q \in Sources /\ q \notin Drafts /\ DraftOf(q) = q.draft
  BY <1>1, RequestFacts DEF ReturnedInv, SalesInv, WinnerInv, Cancelling, OriginInv
<1>3. \A r \in Requests : Cancelled(r) => Cancelled(r)' /\ r.draft # q.draft
  BY <1>1, <1>2 DEF Cancelled, ReturnedInv, SalesInv, TypeOK, Unambiguous
<1>4. Cancelled(q)'
  BY <1>1, <1>2 DEF Cancelled, ReturnedInv, SalesInv, TypeOK
<1>5. /\ \A x \in Sources : x # q => restoring'[x] = restoring[x] /\ (Restores(x)' <=> Restores(x))
      /\ restoring'[q] = Items(q.draft)
  BY <1>1, <1>2 DEF ReturnedInv, SalesInv, TypeOK, Restores
<1>6. OriginInv'
  <2>1. \A r \in Requests : pc'[r] # "new" => creation'[r.draft] = "inserted"
    BY <1>1, <1>2 DEF ReturnedInv, SalesInv, TypeOK, OriginInv
  <2> QED
    BY <1>1, <1>2, <1>3, <1>4, <1>5, <2>1, RequestFacts DEF ReturnedInv, OriginInv
<1>7. \A p \in Products : ~(returned[q.draft][p] > 0) /\ returned[q.draft][p] <= again[q.draft]
  <2>1. \A p \in Products : ~(returned[q.draft][p] > 0)
    BY <1>2, <1>3 DEF ReturnedInv, ReturnInv
  <2>2. \A p \in Products : returned[q.draft][p] \in Nat /\ again[q.draft] \in Nat
    BY <1>2 DEF ReturnedInv, SalesInv, TypeOK
  <2> QED
    BY <2>1, <2>2
<1>8. ReturnInv'
  <2>1. \A x \in Sources : \A p \in restoring'[x] : returned[DraftOf(x)][p] <= again[DraftOf(x)]
    BY <1>2, <1>5, <1>7, ItemFacts DEF ReturnedInv, ReturnInv
  <2> QED
    BY <1>1, <1>3, <2>1 DEF ReturnedInv, ReturnInv
<1> QED
  BY <1>6, <1>8

\* Every handler of a request keeps units from coming back twice.
LEMMA ReturnedRequest ==
  ASSUME Unambiguous, ReturnedInv, NEW q \in Requests, RequestNext(q) \/ RequestLost(q)
  PROVE  OriginInv' /\ ReturnInv'
<1> USE DEF ReturnedInv, SalesInv, TypeOK, OriginInv, Ends
<1>1. CASE ReadDraft(q)
  BY <1>1, ReturnedAdvance DEF ReadDraft, Arrives
<1>2. CASE OrderRefused(q)
  BY <1>2, ReturnedAdvance DEF OrderRefused, Arrives
<1>3. CASE CommitOrder(q)
  BY <1>3, ReturnedAdvance DEF CommitOrder
<1>4. CASE OrderFails(q)
  BY <1>4, ReturnedAdvance DEF OrderFails
<1>5. CASE FinishOrder(q)
  BY <1>5, ReturnedAdvance DEF FinishOrder
<1>6. CASE ReadCancel(q)
  BY <1>6, ReturnedAdvance DEF ReadCancel, Arrives
<1>7. CASE CancelRefused(q)
  BY <1>7, ReturnedAdvance DEF CancelRefused, Arrives
<1>8. CASE CommitCancel(q)
  BY <1>8, ReturnedAdvance DEF CommitCancel
<1>9. CASE CancelFails(q)
  BY <1>9, ReturnedAdvance DEF CancelFails
<1>10. CASE FinishCancel(q)
  BY <1>10, ReturnedFinishCancel
<1>11. CASE ReadStatus(q)
  BY <1>11, ReturnedAdvance DEF ReadStatus, Arrives
<1>12. CASE DeleteCompleted(q) \/ DeleteFails(q)
  BY <1>12, ReturnedAdvance DEF DeleteCompleted, DeleteFails
<1>13. CASE RequestLost(q)
  BY <1>13, ReturnedAdvance DEF RequestLost
<1> QED
  BY <1>1, <1>2, <1>3, <1>4, <1>5, <1>6, <1>7, <1>8, <1>9, <1>10, <1>11, <1>12,
     <1>13 DEF RequestNext

\* The creation of a draft goes on or fails: no request was made about it yet.
LEMMA ReturnedCreation ==
  ASSUME ReturnedInv, NEW d \in Drafts, CreationNext(d) \/ ReservationLost(d)
  PROVE  OriginInv' /\ ReturnInv'
<1>1. /\ creation[d] \notin {"inserted", "aborted"} /\ UNCHANGED <<pc, returned, again>>
      /\ \A e \in Drafts : e # d => creation'[e] = creation[e]
      /\ \A x \in Sources : x # d => restoring'[x] = restoring[x] /\ (x \in sent' <=> x \in sent)
  BY DEF ReturnedInv, SalesInv, TypeOK, CreationNext, Reserve, ReserveRefused, InsertDraft,
     InsertFails, ReservationLost
<1>2. \/ restoring'[d] = restoring[d] /\ (d \in sent' <=> d \in sent)
      \/ creation'[d] = "aborted" /\ restoring'[d] = Items(d)
  BY RequestFacts DEF ReturnedInv, SalesInv, TypeOK, CreationNext, Reserve,
     ReserveRefused, InsertDraft, InsertFails, ReservationLost
<1>3. ~Restores(d) /\ \A q \in Requests : q.draft = d => ~Restores(q) /\ ~Cancelled(q)
  BY <1>1 DEF ReturnedInv, OriginInv, Cancelled
<1>4. /\ \A q \in Requests : Cancelled(q)' <=> Cancelled(q)
      /\ \A x \in Sources : x # d => (Restores(x)' <=> Restores(x))
      /\ Restores(d)' => creation'[d] = "aborted"
  BY <1>1, <1>2, <1>3 DEF Cancelled, Restores
<1>5. OriginInv'
  <2>1. \A x \in Sources : restoring'[x] \subseteq Items(DraftOf(x))
    BY <1>1, <1>2, RequestFacts DEF ReturnedInv, OriginInv
  <2> QED
    BY <1>1, <1>4, <2>1, RequestFacts DEF ReturnedInv, OriginInv
<1>6. \A p \in Products : ~(returned[d][p] > 0) /\ returned[d][p] <= again[d]
  <2>1. \A p \in Products : ~(returned[d][p] > 0)
    BY <1>1, <1>3 DEF ReturnedInv, ReturnInv
  <2>2. \A p \in Products : returned[d][p] \in Nat /\ again[d] \in Nat
    BY DEF ReturnedInv, SalesInv, TypeOK
  <2> QED
    BY <2>1, <2>2
<1>7. ReturnInv'
  <2>1. \A x \in Sources : \A p \in restoring'[x] : returned[DraftOf(x)][p] <= again[DraftOf(x)]
    BY <1>1, <1>2, <1>6, RequestFacts, ItemFacts DEF ReturnedInv, ReturnInv
  <2>2. \A e \in Drafts, p \in Products : returned[e][p] > 0 =>
          creation'[e] = "aborted" \/ \E q \in Requests : q.draft = e /\ Cancelled(q)
    BY <1>1, <1>6 DEF ReturnedInv, ReturnInv
  <2> QED
    BY <1>1, <1>4, <2>1, <2>2 DEF ReturnedInv, ReturnInv
<1> QED
  BY <1>5, <1>7

\* A product is taken off the list of a message, and perhaps put back; or the
\* list ends, is lost or starts over, which allows one return more.
LEMMA ReturnedRestore ==
  ASSUME Unambiguous, ReturnedInv, NEW x \in Sources,
         RestoreNext(x) \/ Settle(x) \/ RestoreLost(x) \/ RestoreAgain(x)
  PROVE  OriginInv' /\ ReturnInv'
<1> DEFINE d == DraftOf(x)
<1>1. /\ UNCHANGED <<creation, pc>> /\ sent' \subseteq sent
      /\ restoring'[x] \subseteq restoring[x] \/ (Restores(x) /\ restoring'[x] = Items(d))
      /\ \A y \in Sources : y # x => restoring'[y] = restoring[y]
  BY DEF ReturnedInv, SalesInv, TypeOK, RestoreNext, RestoreOne, RestoreSkips, Settle,
     RestoreLost, RestoreAgain, Restores
<1>2. /\ d \in Drafts /\ \A y \in Sources : Restores(y)' => Restores(y)
      /\ \A q \in Requests : Cancelled(q)' <=> Cancelled(q)
      /\ \A y \in Sources : \A p \in restoring[y] : p \in Products /\ Restores(y)
  BY <1>1, RequestFacts DEF Restores, Cancelled, ReturnedInv, SalesInv, TypeOK
<1>3. OriginInv'
  BY <1>1, <1>2, RequestFacts DEF ReturnedInv, OriginInv
<1>4. \A e \in Drafts, p \in Products : returned[e][p] \in Nat /\ again[e] \in Nat
  BY DEF ReturnedInv, SalesInv, TypeOK
<1>5. ASSUME UNCHANGED <<returned, again>>, restoring'[x] \subseteq restoring[x] PROVE ReturnInv'
  BY <1>1, <1>2, <1>5 DEF ReturnedInv, ReturnInv
<1>6. ASSUME NEW p \in Products, RestoreOne(x, p) PROVE ReturnInv'
  <2>1. /\ p \in restoring[x] /\ p \notin restoring'[x] /\ again' = again
        /\ restoring'[x] \subseteq restoring[x]
        /\ returned' = [returned EXCEPT ![d][p] = returned[d][p] + 1]
    BY <1>6 DEF RestoreOne, ReturnedInv, SalesInv, TypeOK
  <2>2. \A e \in Drafts, o \in Products :
          returned'[e][o] = IF e = d /\ o = p THEN returned[d][p] + 1 ELSE returned[e][o]
    BY <1>2, <2>1 DEF ReturnedInv, SalesInv, TypeOK
  <2>3. \A y \in Sources : \A o \in restoring'[y] :
          o \in restoring[y] /\ o \in Products /\ (DraftOf(y) = d => o # p)
    BY <1>1, <1>2, <2>1, OneSource DEF ReturnedInv
  <2>4. \A y \in Sources : \A o \in restoring'[y] :
          returned'[DraftOf(y)][o] <= again[DraftOf(y)]
    BY <2>2, <2>3, RequestFacts DEF ReturnedInv, ReturnInv
  <2>5. creation[d] = "aborted" \/ \E q \in Requests : q.draft = d /\ Cancelled(q)
    BY <1>2, <2>1, RequestFacts DEF ReturnedInv, OriginInv, Sources
  <2>6. returned[d][p] <= again[d]
    BY <2>1 DEF ReturnedInv, ReturnInv
  <2>7. returned[d][p] + 1 <= 1 + again[d]
    BY <1>2, <1>4, <2>6
  <2> QED
    BY <1>1, <1>2, <2>1, <2>2, <2>4, <2>5, <2>7 DEF ReturnedInv, ReturnInv
<1>7. ASSUME RestoreAgain(x) PROVE ReturnInv'
  <2>1. /\ again' = [again EXCEPT ![d] = again[d] + 1] /\ returned' = returned
        /\ restoring' = [restoring EXCEPT ![x] = Items(d)]
    BY <1>7 DEF RestoreAgain
  <2>2. /\ \A e \in Drafts : again[e] <= again'[e] /\ again'[e] \in Nat
        /\ again'[d] = again[d] + 1
    BY <1>2, <1>4, <2>1 DEF ReturnedInv, SalesInv, TypeOK
  <2>3. \A e \in Drafts, p \in Products : returned[e][p] <= 1 + again'[e]
    BY <1>4, <2>2 DEF ReturnedInv, ReturnInv
  <2>4. \A p \in Products : returned[d][p] <= again'[d]
    BY <1>2, <1>4, <2>2 DEF ReturnedInv, ReturnInv
  <2>5. \A y \in Sources : \A p \in restoring'[y] : returned[DraftOf(y)][p] <= again'[DraftOf(y)]
    <3>1. ASSUME NEW y \in Sources, NEW p \in restoring'[y], y # x
          PROVE  returned[DraftOf(y)][p] <= again'[DraftOf(y)]
      <4>1. p \in restoring[y] /\ p \in Products /\ DraftOf(y) \in Drafts
        BY <1>1, <1>2, <3>1, RequestFacts
      <4>2. returned[DraftOf(y)][p] <= again[DraftOf(y)]
        BY <4>1 DEF ReturnedInv, ReturnInv
      <4> QED
        BY <1>4, <2>2, <4>1, <4>2
    <3>2. restoring'[x] \subseteq Products
      BY <1>2, <2>1, ItemFacts DEF ReturnedInv, SalesInv, TypeOK
    <3> QED
      BY <2>4, <3>1, <3>2
  <2> QED
    BY <1>1, <1>2, <2>1, <2>3, <2>5 DEF ReturnedInv, ReturnInv
<1> QED
  BY <1>3, <1>5, <1>6, <1>7 DEF RestoreNext, RestoreSkips, Settle, RestoreLost,
     ReturnedInv, SalesInv, TypeOK

\* So does every step.
LEMMA ReturnedStep ==
  ASSUME Unambiguous
  PROVE  ReturnedInv /\ [Next]_vars => ReturnedInv'
<1> SUFFICES ASSUME ReturnedInv, [Next]_vars PROVE ReturnedInv'
  OBVIOUS
<1>1. SalesInv'
  BY SalesStep DEF ReturnedInv
<1>2. ASSUME UNCHANGED <<creation, pc, restoring, returned, sent, again>>
      PROVE  OriginInv' /\ ReturnInv'
  BY <1>2 DEF ReturnedInv, OriginInv, ReturnInv, Cancelled, Restores
<1>3. ASSUME NEW q \in Requests, CreditNext(q) \/ CreditAgain(q) PROVE OriginInv' /\ ReturnInv'
  BY <1>2, <1>3 DEF CreditNext, CreditSeller, CreditFails, CreditAgain
<1>4. ASSUME CleanDraftOrders \/ UNCHANGED vars PROVE OriginInv' /\ ReturnInv'
  BY <1>2, <1>4 DEF CleanDraftOrders, vars
<1> QED
  BY <1>1, <1>3, <1>4, ReturnedCreation, ReturnedRequest, ReturnedRestore
  DEF ReturnedInv, Next, FaultNext

\* The units of an order stay out.
LEMMA OrdersKeptOut ==
  ASSUME Unambiguous
  PROVE  ReturnedInv => \A d \in Sold, p \in Products :
           creation[d] = "inserted" /\ returned[d][p] = 0
<1> SUFFICES ASSUME ReturnedInv, NEW d \in Sold, NEW p \in Products
             PROVE  creation[d] = "inserted" /\ returned[d][p] = 0
  OBVIOUS
<1>1. PICK r \in orders : r.draft = d
  BY DEF Sold
<1>2. r \in Requests /\ d \in Drafts /\ r.kind \in OrderKinds /\ creation[d] = "inserted"
  BY <1>1, RequestFacts DEF ReturnedInv, SalesInv, TypeOK, WinnerInv, OriginInv
<1>3. \A q \in Requests : ~(q.draft = d /\ Cancelled(q))
  BY <1>1, <1>2 DEF Unambiguous, Cancelled, OrderKinds, CancelKinds
<1>4. ~(returned[d][p] > 0)
  BY <1>2, <1>3 DEF ReturnedInv, ReturnInv
<1>5. returned[d][p] \in Nat
  BY <1>2 DEF ReturnedInv, SalesInv, TypeOK
<1> QED
  BY <1>2, <1>4, <1>5

\* If no draft is cancelled twice, or both cancelled and ordered, its units go
\* back on the shelf once at most, and once more for each time a consumer that
\* stopped had the list executed from its beginning; never when they were sold.
THEOREM ReturnCorrect == ASSUME Unambiguous PROVE Spec => []ReturnedOnce
<1>1. Init => ReturnedInv
  BY SalesInit, ReturnedInit DEF ReturnedInv
<1>2. ReturnedInv /\ [Next]_vars => ReturnedInv'
  BY ReturnedStep
<1>3. ReturnedInv => ReturnedOnce
  BY OrdersKeptOut DEF ReturnedInv, ReturnInv, ReturnedOnce
<1> QED
  BY <1>1, <1>2, <1>3, PTL DEF Spec

-----------------------------------------------------------------------------
(* Units that are out: reserved by a creation and not put back.  With what *)
(* is on the shelf they are what there was, so what is sold or promised,   *)
(* which is all of it out, cannot be more.                                 *)

Taken == {"reserved", "inserted", "aborted", "lost"}

Out(p) == {d \in Drafts : creation[d] \in Taken /\ returned[d][p] = 0}

StockInv ==
  \A p \in Products :
    Steady(p) => IsFiniteSet(Out(p)) /\ stock[p] + Units(Out(p), p) = InitStock[p]

\* A draft whose units go back, or are about to, is no longer pending.
PendingInv ==
  /\ \A d \in Drafts : draft[d] = "pending" => creation[d] = "inserted"
  /\ \A q \in Requests : pc[q] = "cancelled" \/ Restores(q) => draft[q.draft] # "pending"
  /\ \A d \in Drafts, p \in Products : returned[d][p] > 0 => draft[d] # "pending"

OversellInv == ReturnedInv /\ PendingInv /\ StockInv

\* The units of a set of drafts, one draft more.
LEMMA UnitsAdd ==
  ASSUME NEW p \in Products, NEW D, D \subseteq Drafts, IsFiniteSet(D),
         NEW d \in Drafts, d \notin D
  PROVE  /\ Units(D, p) \in Nat
         /\ IsFiniteSet(D \cup {d})
         /\ Units(D \cup {d}, p) = Amount[d][p] + Units(D, p)
<1> DEFINE f == [e \in Drafts |-> Amount[e][p]]
<1>1. \A e \in Drafts : f[e] \in Nat /\ f[e] \in Int
  BY CheckoutAssumption
<1>2. f[d] = Amount[d][p]
  OBVIOUS
<1> HIDE DEF f
<1>3. SumFunctionOnSet(f, D) \in Nat
  BY <1>1, SumNat
<1>4. SumFunctionOnSet(f, D \cup {d}) = f[d] + SumFunctionOnSet(f, D)
  BY <1>1, SumAdd
<1>5. IsFiniteSet(D \cup {d})
  BY FS_AddElement
<1>6. \A E : Units(E, p) = SumFunctionOnSet(f, E)
  BY DEF Units, f
<1> QED
  BY <1>2, <1>3, <1>4, <1>5, <1>6

\* The units of some of the drafts are no more than those of all of them.
LEMMA UnitsMonotone ==
  ASSUME NEW p \in Products, NEW D, D \subseteq Drafts, IsFiniteSet(D), NEW R \in SUBSET D
  PROVE  Units(D, p) \in Nat /\ Units(R, p) \in Nat /\ Units(R, p) <= Units(D, p)
<1> DEFINE f == [e \in Drafts |-> Amount[e][p]]
<1>1. \A e \in Drafts : f[e] \in Nat
  BY CheckoutAssumption
<1> HIDE DEF f
<1>2. IsFiniteSet(R)
  BY FS_Subset
<1>3. SumFunctionOnSet(f, D) \in Nat /\ SumFunctionOnSet(f, R) \in Nat
  BY <1>1, <1>2, SumNat
<1>4. SumFunctionOnSet(f, R) <= SumFunctionOnSet(f, D)
  BY <1>1, SumMonotone
<1>5. \A E : Units(E, p) = SumFunctionOnSet(f, E)
  BY DEF Units, f
<1> QED
  BY <1>3, <1>4, <1>5

\* At the start all the units are on the shelf and no draft exists.
LEMMA OversellInit == Init => PendingInv /\ StockInv
<1> SUFFICES ASSUME Init PROVE PendingInv /\ StockInv
  OBVIOUS
<1>1. PendingInv
  BY RequestFacts DEF Init, PendingInv, Restores
<1>2. ASSUME NEW p \in Products PROVE IsFiniteSet(Out(p)) /\ stock[p] + Units(Out(p), p) = InitStock[p]
  <2>1. Out(p) = {}
    BY DEF Init, Out, Taken
  <2>2. Units({}, p) = 0
    BY SumEmpty DEF Units
  <2>3. InitStock[p] \in Nat /\ stock[p] = InitStock[p]
    BY CheckoutAssumption DEF Init
  <2> QED
    BY <2>1, <2>2, <2>3, FS_EmptySet
<1> QED
  BY <1>1, <1>2 DEF StockInv

\* A step that reserves nothing and puts nothing back.
LEMMA StockFrame ==
  ASSUME StockInv, UNCHANGED <<stock, returned, again>>,
         \A d \in Drafts : creation'[d] \in Taken <=> creation[d] \in Taken
  PROVE  StockInv'
<1>1. \A p : Out(p)' = Out(p)
  BY DEF Out
<1> QED
  BY <1>1 DEF StockInv, Steady, Units

\* A step that leaves no draft pending that was not, and puts nothing back.
LEMMA PendingFrame ==
  ASSUME PendingInv, UNCHANGED returned,
         \A d \in Drafts : draft'[d] = "pending" => draft[d] = "pending",
         \A d \in Drafts : creation[d] = "inserted" => creation'[d] = "inserted",
         \A q \in Requests : pc'[q] = "cancelled" =>
           pc[q] = "cancelled" \/ draft'[q.draft] # "pending",
         \A q \in Requests : Restores(q)' => pc[q] = "cancelled" \/ Restores(q)
  PROVE  PendingInv'
BY RequestFacts DEF PendingInv

\* reserve takes the units of a draft out of every product at once.
LEMMA StockReserve ==
  ASSUME TypeOK, StockInv, NEW d \in Drafts, Reserve(d), \A p \in Products : returned[d][p] = 0
  PROVE  StockInv'
<1> SUFFICES ASSUME NEW p \in Products, Steady(p)
             PROVE  IsFiniteSet(Out(p)') /\ stock'[p] + Units(Out(p)', p) = InitStock[p]
  BY DEF StockInv, Units, Reserve, Steady
<1>1. /\ creation[d] = "none" /\ Amount[d][p] <= stock[p]
      /\ stock'[p] = stock[p] - Amount[d][p]
      /\ creation' = [creation EXCEPT ![d] = "reserved"] /\ returned' = returned
  BY DEF Reserve
<1>2. d \notin Out(p) /\ Out(p)' = Out(p) \cup {d} /\ Out(p) \subseteq Drafts
  BY <1>1 DEF TypeOK, Out, Taken
<1>3. /\ Units(Out(p), p) \in Nat /\ IsFiniteSet(Out(p)')
      /\ Units(Out(p)', p) = Amount[d][p] + Units(Out(p), p)
  BY <1>2, UnitsAdd DEF StockInv
<1>4. stock[p] \in Nat /\ Amount[d][p] \in Nat /\ stock[p] + Units(Out(p), p) = InitStock[p]
  BY CheckoutAssumption DEF TypeOK, StockInv
<1> HIDE DEF Out
<1> QED
  BY <1>1, <1>3, <1>4

\* A steady product put back was out: its draft's units return once.
LEMMA StockRestore ==
  ASSUME ReturnedInv, StockInv, NEW x \in Sources, NEW p \in Products, RestoreOne(x, p)
  PROVE  StockInv'
<1> DEFINE d == DraftOf(x)
<1>1. /\ d \in Drafts /\ p \in restoring[x] /\ again' = again /\ creation' = creation
      /\ stock' = [stock EXCEPT ![p] = stock[p] + Amount[d][p]]
      /\ returned' = [returned EXCEPT ![d][p] = returned[d][p] + 1]
  BY RequestFacts DEF RestoreOne
<1>2. creation[d] \in Taken
  BY <1>1, RequestFacts DEF ReturnedInv, OriginInv, Restores, Cancelled, Sources, Taken
<1>3. TypeOK
  BY DEF ReturnedInv, SalesInv
<1>4. Steady(p) => returned[d][p] = 0
  <2>1. Amount[d][p] > 0 /\ returned[d][p] <= again[d] /\ returned[d][p] \in Nat
    BY <1>1, <1>3, RequestFacts DEF ReturnedInv, ReturnInv, OriginInv, Items, TypeOK
  <2> QED
    BY <1>1, <2>1 DEF Steady
<1> SUFFICES ASSUME NEW o \in Products, Steady(o)
             PROVE  IsFiniteSet(Out(o)') /\ stock'[o] + Units(Out(o)', o) = InitStock[o]
  BY <1>1 DEF StockInv, Units, Steady
<1>5. CASE o # p
  <2>1. \A e \in Drafts : returned'[e][o] = returned[e][o]
    BY <1>1, <1>3, <1>5 DEF TypeOK
  <2>2. Out(o)' = Out(o) /\ stock'[o] = stock[o]
    BY <1>1, <1>3, <1>5, <2>1 DEF Out, TypeOK
  <2> QED
    BY <2>2 DEF StockInv
<1>6. CASE o = p
  <2>1. returned[d][p] = 0 /\ returned' = [returned EXCEPT ![d][p] = 1]
    BY <1>1, <1>4, <1>6, 0 + 1 = 1
  <2>2. d \in Out(p) /\ Out(p)' = Out(p) \ {d} /\ Out(p) \subseteq Drafts
    BY <1>1, <1>2, <1>3, <2>1 DEF Out, TypeOK
  <2>3. IsFiniteSet(Out(p)') /\ Out(p) = Out(p)' \cup {d} /\ d \notin Out(p)'
    BY <1>6, <2>2, FS_Subset DEF StockInv
  <2>4. Units(Out(p)', p) \in Nat /\ Units(Out(p), p) = Amount[d][p] + Units(Out(p)', p)
    BY <1>1, <2>2, <2>3, UnitsAdd
  <2>5. stock'[p] = stock[p] + Amount[d][p] /\ stock[p] \in Nat /\ Amount[d][p] \in Nat
    BY <1>1, <1>3, CheckoutAssumption DEF TypeOK
  <2>6. stock[p] + Units(Out(p), p) = InitStock[p]
    BY <1>6 DEF StockInv
  <2> HIDE DEF Out, d
  <2> QED
    BY <1>6, <2>3, <2>4, <2>5, <2>6
<1> QED
  BY <1>5, <1>6

\* createDraftOrder keeps both.
LEMMA OversellCreation ==
  ASSUME OversellInv, NEW d \in Drafts, CreationNext(d) \/ ReservationLost(d)
  PROVE  PendingInv' /\ StockInv'
<1>1. /\ TypeOK /\ PendingInv /\ StockInv /\ creation[d] \notin {"inserted", "aborted"}
      /\ again' = again /\ d \notin Requests
      /\ \A q \in Requests : Restores(q)' <=> Restores(q)
  BY RequestFacts DEF OversellInv, ReturnedInv, SalesInv, TypeOK, CreationNext, Reserve,
     ReserveRefused, InsertDraft, InsertFails, ReservationLost, Restores
<1>2. /\ \A q \in Requests : q.draft = d => pc[q] = "new" /\ ~Restores(q)
      /\ \A p \in Products : returned[d][p] = 0
  <2>1. \A q \in Requests : q.draft = d => pc[q] = "new" /\ ~Restores(q) /\ ~Cancelled(q)
    BY <1>1 DEF OversellInv, ReturnedInv, OriginInv, Cancelled
  <2>2. \A p \in Products : ~(returned[d][p] > 0) /\ returned[d][p] \in Nat
    BY <1>1, <2>1 DEF OversellInv, ReturnedInv, ReturnInv, TypeOK
  <2> QED
    BY <2>1, <2>2
<1>3. CASE Reserve(d)
  <2>1. PendingInv'
    BY <1>1, <1>3, PendingFrame DEF Reserve, TypeOK
  <2> QED
    BY <1>1, <1>2, <1>3, <2>1, StockReserve
<1>4. CASE ReserveRefused(d)
  BY <1>1, <1>4, PendingFrame, StockFrame DEF ReserveRefused, TypeOK, Taken
<1>5. CASE InsertDraft(d)
  <2>1. PendingInv'
    BY <1>1, <1>2, <1>5, RequestFacts DEF InsertDraft, TypeOK, PendingInv
  <2> QED
    BY <1>1, <1>5, <2>1, StockFrame DEF InsertDraft, TypeOK, Taken
<1>6. CASE InsertFails(d)
  BY <1>1, <1>6, RequestFacts, PendingFrame, StockFrame DEF InsertFails, TypeOK, Taken
<1>7. CASE ReservationLost(d)
  BY <1>1, <1>7, PendingFrame, StockFrame DEF ReservationLost, TypeOK, Taken
<1> QED
  BY <1>3, <1>4, <1>5, <1>6, <1>7 DEF CreationNext

\* So do the handlers of requests: the commit of a cancellation takes the
\* draft out of those pending before restore_stock is sent.
LEMMA OversellRequest ==
  ASSUME OversellInv, NEW q \in Requests, RequestNext(q) \/ RequestLost(q)
  PROVE  PendingInv' /\ StockInv'
<1>1. TypeOK /\ PendingInv /\ StockInv /\ q.draft \in Drafts
  BY RequestFacts DEF OversellInv, ReturnedInv, SalesInv
<1>2. StockInv'
  <2>1. UNCHANGED <<stock, returned, again, creation>>
    BY DEF RequestNext, ReadDraft, OrderRefused, CommitOrder, OrderFails, FinishOrder, ReadCancel,
     CancelRefused, CommitCancel, CancelFails, FinishCancel, ReadStatus, DeleteCompleted,
     DeleteFails, RequestLost
  <2> QED
    BY <1>1, <2>1, StockFrame
<1> SUFFICES PendingInv'
  BY <1>2
<1>3. \A r \in Requests : Restores(r)' => pc[r] = "cancelled" \/ Restores(r)
  <2>1. FinishCancel(q) => pc[q] = "cancelled" /\ sent' = sent \cup {q}
                           /\ \A r \in Requests : r # q => restoring'[r] = restoring[r]
    BY <1>1 DEF FinishCancel, TypeOK
  <2>2. FinishOrder(q) => /\ q.kind \notin CancelKinds
                          /\ restoring' = restoring /\ sent' \subseteq sent \cup {q}
    BY DEF FinishOrder, OrderKinds, CancelKinds
  <2>3. FinishCancel(q) \/ FinishOrder(q) \/ UNCHANGED <<restoring, sent>>
    BY DEF RequestNext, ReadDraft, OrderRefused, CommitOrder, OrderFails, ReadCancel, CancelRefused,
       CommitCancel, CancelFails, ReadStatus, DeleteCompleted, DeleteFails, RequestLost
  <2> QED
    BY <2>1, <2>2, <2>3 DEF Restores
<1> USE DEF Ends, TypeOK
<1>4. ASSUME ReadDraft(q) \/ OrderRefused(q) \/ CommitOrder(q) \/ OrderFails(q) \/ FinishOrder(q)
      PROVE  PendingInv'
  BY <1>1, <1>3, <1>4, PendingFrame
  DEF ReadDraft, OrderRefused, CommitOrder, OrderFails, FinishOrder
<1>5. CASE ReadCancel(q) \/ CancelRefused(q) \/ CancelFails(q)
  BY <1>1, <1>3, <1>5, PendingFrame DEF ReadCancel, CancelRefused, CancelFails
<1>6. CASE CommitCancel(q)
  BY <1>1, <1>3, <1>6, PendingFrame DEF CommitCancel
<1>7. CASE FinishCancel(q)
  BY <1>1, <1>3, <1>7, PendingFrame, RequestFacts DEF FinishCancel
<1>8. CASE ReadStatus(q)
  BY <1>1, <1>3, <1>8, PendingFrame DEF ReadStatus
<1>9. CASE DeleteCompleted(q) \/ DeleteFails(q)
  BY <1>1, <1>3, <1>9, PendingFrame DEF DeleteCompleted, DeleteFails
<1>10. CASE RequestLost(q)
  BY <1>1, <1>3, <1>10, PendingFrame DEF RequestLost
<1> QED
  BY <1>4, <1>5, <1>6, <1>7, <1>8, <1>9, <1>10 DEF RequestNext

\* So does restore_stock; a product whose list starts over is steady no more.
LEMMA OversellRestore ==
  ASSUME OversellInv, NEW x \in Sources,
         RestoreNext(x) \/ Settle(x) \/ RestoreLost(x) \/ RestoreAgain(x)
  PROVE  PendingInv' /\ StockInv'
<1>1. TypeOK /\ PendingInv /\ StockInv /\ ReturnedInv /\ DraftOf(x) \in Drafts
  BY RequestFacts DEF OversellInv, ReturnedInv, SalesInv
<1>2. /\ UNCHANGED <<creation, draft, pc>>
      /\ \A y \in Sources : Restores(y)' => Restores(y)
  BY <1>1 DEF TypeOK, RestoreNext, RestoreOne, RestoreSkips, Settle, RestoreLost, RestoreAgain,
     Restores
<1>3. ASSUME UNCHANGED returned PROVE PendingInv'
  BY <1>1, <1>2, <1>3, PendingFrame, RequestFacts
<1>4. ASSUME UNCHANGED <<stock, returned, again>> PROVE StockInv'
  BY <1>1, <1>2, <1>4, StockFrame
<1>5. CASE RestoreAgain(x)
  <2>1. /\ UNCHANGED <<stock, returned>>
        /\ again' = [again EXCEPT ![DraftOf(x)] = again[DraftOf(x)] + 1]
    BY <1>5 DEF RestoreAgain
  <2>2. \A e \in Drafts : again[e] \in Nat /\ again'[e] \in Nat /\ (again'[e] = 0 => again[e] = 0)
    BY <1>1, <2>1 DEF TypeOK
  <2>3. \A p \in Products : Steady(p)' => Steady(p)
    BY <2>2 DEF Steady
  <2>4. \A p : Out(p)' = Out(p)
    BY <1>2, <2>1 DEF Out
  <2>5. StockInv'
    BY <1>1, <2>1, <2>3, <2>4 DEF StockInv, Units
  <2> QED
    BY <1>3, <2>1, <2>5
<1>6. ASSUME NEW p \in Products, RestoreOne(x, p) PROVE PendingInv' /\ StockInv'
  <2> DEFINE d == DraftOf(x)
  <2>1. p \in restoring[x] /\ returned' = [returned EXCEPT ![d][p] = returned[d][p] + 1]
    BY <1>6 DEF RestoreOne
  <2>2. draft[d] # "pending"
    BY <1>1, <2>1, RequestFacts DEF ReturnedInv, OriginInv, PendingInv, Restores, Sources
  <2>3. \A e \in Drafts, o \in Products : e # d => returned'[e][o] = returned[e][o]
    BY <1>1, <2>1 DEF TypeOK
  <2>4. PendingInv'
    BY <1>1, <1>2, <2>2, <2>3, RequestFacts DEF PendingInv
  <2> QED
    BY <1>1, <1>6, <2>4, StockRestore
<1> QED
  BY <1>3, <1>4, <1>5, <1>6 DEF RestoreNext, RestoreSkips, Settle, RestoreLost

\* So does every step.
LEMMA OversellStep ==
  ASSUME Unambiguous
  PROVE  OversellInv /\ [Next]_vars => OversellInv'
<1> SUFFICES ASSUME OversellInv, [Next]_vars PROVE OversellInv'
  OBVIOUS
<1>1. ReturnedInv'
  BY ReturnedStep DEF OversellInv
<1>2. PendingInv /\ StockInv
  BY DEF OversellInv
<1>3. ASSUME NEW q \in Requests, CreditNext(q) \/ CreditAgain(q) PROVE PendingInv' /\ StockInv'
  BY <1>2, <1>3, PendingFrame, StockFrame
  DEF CreditNext, CreditSeller, CreditFails, CreditAgain, Restores
<1>4. ASSUME CleanDraftOrders PROVE PendingInv' /\ StockInv'
  BY <1>2, <1>4, PendingFrame, StockFrame DEF CleanDraftOrders, Restores
<1>5. ASSUME UNCHANGED vars PROVE PendingInv' /\ StockInv'
  BY <1>2, <1>5, PendingFrame, StockFrame DEF vars, Restores
<1> QED
  BY <1>1, <1>3, <1>4, <1>5, OversellCreation, OversellRequest, OversellRestore
  DEF OversellInv, Next, FaultNext

\* If no draft is cancelled twice, or both cancelled and ordered, then what is
\* sold, promised to a pending draft or on the shelf never exceeds what there
\* was, whatever fails, crashes or is cleaned in between, of every product none
\* of whose restore_stock lists was executed over again.
THEOREM StockCorrect == ASSUME Unambiguous PROVE Spec => []NoOversell
<1>1. Init => OversellInv
  BY SalesInit, ReturnedInit, OversellInit DEF OversellInv, ReturnedInv
<1>2. OversellInv /\ [Next]_vars => OversellInv'
  BY OversellStep
<1>3. OversellInv => NoOversell
  <2> SUFFICES ASSUME OversellInv, NEW p \in Products, Steady(p)
               PROVE  stock[p] + Units(Sold \cup {d \in Drafts : draft[d] = "pending"}, p)
                        <= InitStock[p]
    BY DEF NoOversell
  <2> DEFINE D == Sold \cup {d \in Drafts : draft[d] = "pending"}
  <2>1. \A d \in Sold : d \in Drafts /\ creation[d] = "inserted" /\ returned[d][p] = 0
    BY OrdersKeptOut, RequestFacts DEF OversellInv, ReturnedInv, SalesInv, TypeOK, Sold
  <2>2. \A d \in Drafts : draft[d] = "pending" => creation[d] = "inserted" /\ returned[d][p] = 0
    BY DEF OversellInv, PendingInv, ReturnedInv, SalesInv, TypeOK
  <2>3. D \subseteq Out(p) /\ Out(p) \subseteq Drafts
    BY <2>1, <2>2 DEF Out, Taken
  <2>4. /\ IsFiniteSet(Out(p)) /\ stock[p] + Units(Out(p), p) = InitStock[p]
        /\ stock[p] \in Nat
    BY DEF OversellInv, StockInv, ReturnedInv, SalesInv, TypeOK
  <2> HIDE DEF D, Out
  <2>5. Units(Out(p), p) \in Nat /\ Units(D, p) \in Nat /\ Units(D, p) <= Units(Out(p), p)
    BY <2>3, <2>4, UnitsMonotone
  <2>6. stock[p] + Units(D, p) <= InitStock[p]
    BY <2>4, <2>5
  <2> QED
    BY <2>6 DEF D
<1> QED
  BY <1>1, <1>2, <1>3, PTL DEF Spec
=============================================================================
