---------------------------- MODULE PurchaseLedger ----------------------------
(***************************************************************************)
(* What the checkout promises about sales, without messages or stock: a    *)
(* draft order is sold at most once and for good, under one receipt, and   *)
(* that receipt credits each seller at most once.  The receipts and the    *)
(* counts keep a second sale or credit visible: no action takes it.        *)
(***************************************************************************)
EXTENDS Naturals

CONSTANTS
  Drafts,    \* draft orders
  Sellers,   \* accounts that sell
  Receipts   \* what a sale may be recorded under

VARIABLES
  sales,     \* the receipts each draft was sold under
  income     \* how often each seller was credited under each receipt

ledger == <<sales, income>>

LedgerInit ==
  /\ sales = [d \in Drafts |-> {}]
  /\ income = [r \in Receipts |-> [s \in Sellers |-> 0]]

Sell(d, r) ==
  /\ sales[d] = {}
  /\ \A e \in Drafts : r \notin sales[e]
  /\ sales' = [sales EXCEPT ![d] = {r}]
  /\ UNCHANGED income

Credit(d, r, s) ==
  /\ r \in sales[d] /\ income[r][s] = 0
  /\ income' = [income EXCEPT ![r][s] = 1]
  /\ UNCHANGED sales

LedgerNext ==
  \E d \in Drafts, r \in Receipts :
    Sell(d, r) \/ \E s \in Sellers : Credit(d, r, s)

LedgerSpec == LedgerInit /\ [][LedgerNext]_ledger
=============================================================================
