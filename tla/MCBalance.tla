------------------------------- MODULE MCBalance -------------------------------
(* Small instances of Balance: two sellers, an admin, eight executions.     *)
EXTENDS Balance, TLC

CONSTANTS s1, s2, admin, w1, w2, w3, w4, i1, i2, e1, e2, e3, e4, e5, e6, e7, e8

\* s1 withdraws 2 and 1 of the 2 it has, while an income brings it 1: whether
\* the second withdrawal is paid depends on the order.  Another income is for
\* both sellers.  An admin has no balance, and the last request is for nothing.
MCAccount == (w1 :> s1 @@ w2 :> s1 @@ w3 :> admin @@ w4 :> s1)
MCAmount == (w1 :> 2 @@ w2 :> 1 @@ w3 :> 1 @@ w4 :> 0)
MCSums == (i1 :> (s1 :> 1 @@ s2 :> 0) @@ i2 :> (s1 :> 1 @@ s2 :> 2))
MCBalanceOf == (s1 :> 2 @@ s2 :> 0)

MCTokenOf ==
  (e1 :> w1 @@ e2 :> w1 @@ e3 :> w2 @@ e4 :> i1 @@ e5 :> i1 @@
   e6 :> w3 @@ e7 :> w4 @@ e8 :> i2)

\* A withdrawal or an income executed twice, among others; every kind once.
MCMixes == {{e1, e2, e3, e4}, {e1, e4, e5, e8}, {e3, e6, e7, e8}}
=============================================================================
