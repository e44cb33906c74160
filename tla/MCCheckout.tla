------------------------------ MODULE MCCheckout ------------------------------
(* Small instances of Checkout: two drafts of one or two products.          *)
EXTENDS Checkout, TLC

CONSTANTS d1, d2, p1, p2, s1, s2, a1, a2

Rq(i, k, d, b) == [id |-> i, kind |-> k, draft |-> d, by |-> b]

\* Both drafts belong to a1 and compete for the last unit of p1; d2 also
\* holds p2, of another seller.
MCOwner == [d \in {d1, d2} |-> a1]
MCAmount == (d1 :> (p1 :> 1 @@ p2 :> 0)) @@ (d2 :> (p1 :> 1 @@ p2 :> 1))
MCSellerOf == (p1 :> s1 @@ p2 :> s2)
MCPaid == [d \in {d1, d2} |-> {}]
MCStock == (p1 :> 1 @@ p2 :> 2)

\* Anything at once: d1 is approved twice, rejected and queried; for d2 come
\* a test purchase and free orders, by its owner and by another account.
MCAnything ==
  {Rq(1, "approved", d1, NoAccount), Rq(2, "approved", d1, NoAccount),
   Rq(3, "rejected", d1, NoAccount), Rq(4, "status", d1, a1),
   Rq(5, "test", d2, a1), Rq(6, "free", d2, a2), Rq(7, "free", d2, a1)}

\* The second draft costs nothing.
MCFree == [d \in {d1, d2} |-> IF d = d2 THEN {p1, p2} ELSE {}]

\* Each draft either ordered, by several requests, or cancelled once.
MCUnambiguous ==
  {Rq(1, "cancel", d1, a1), Rq(2, "status", d1, a1),
   Rq(3, "approved", d2, NoAccount), Rq(4, "test", d2, a1), Rq(5, "status", d2, a1)}

\* One draft is cancelled, the other sold.
MCSales == {Rq(1, "cancel", d1, a1), Rq(2, "approved", d2, NoAccount)}

\* The two products of d2 have the same seller.
MCOneSeller == (p1 :> s1 @@ p2 :> s1)

\* A payment first rejected, or still pending, and then approved.
MCRetriedPayment ==
  {Rq(1, "rejected", d1, NoAccount), Rq(2, "approved", d1, NoAccount),
   Rq(3, "approved", d2, NoAccount)}
=============================================================================
