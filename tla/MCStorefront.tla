----------------------------- MODULE MCStorefront ------------------------------
(* Small instances of Storefront: two products of one category, two buyers,  *)
(* a few requests at a time.                                                 *)
EXTENDS Storefront, TLC

CONSTANTS p1, p2, seller, other, adm, ann, bob

MCSellerOf == (p1 :> seller @@ p2 :> other)
MCCategoryOf == (p1 :> "tops" @@ p2 :> "tops")

Msg(id, kind, by, p, list, again) ==
  [id |-> id, kind |-> kind, by |-> by, product |-> p, list |-> list, again |-> again]
Write(id, kind, by) == Msg(id, kind, by, p1, "product", 0)
Get(id, list, by) == Msg(id, "get", by, p1, list, 0)

page   == Get(1, "product", ann)
reload == Msg(2, "get", ann, p1, "product", 1)
edit   == Write(3, "update_product", seller)
delete == Write(5, "delete_product", seller)
relist == Write(6, "restore_product", seller)
ban    == Write(7, "ban_product", adm)
abuse  == Write(21, "ban_product", bob)
reban  == Msg(8, "ban_product", adm, p1, "product", 7)
unban  == Write(9, "unban_product", adm)
create == Msg(10, "create_product", other, p2, "product", 0)
look   == Msg(11, "get", ann, p2, "product", 0)
rate   == Write(12, "calculate_rating", adm)
rerate == Write(13, "calculate_rating", adm)
praise == Write(14, "create_review", ann)
hate   == Write(15, "create_review", bob)
again  == Msg(16, "create_review", bob, p1, "product", 15)
take   == Write(17, "reserve", ann)
back   == Write(18, "restore_stock", ann)
price  == Write(19, "update_field", seller)
reprice == Msg(4, "update_field", seller, p1, "product", 19)
regret == Write(20, "delete_review", bob)

Read(l) == Get(22, l, IF l = "my_products" THEN seller ELSE IF l = "banned_list" THEN adm ELSE bob)

Buy(id, kind, by, p, units, row, repeats) ==
  [id |-> id, kind |-> kind, by |-> by, product |-> p, units |-> units, row |-> row,
   again |-> repeats]

add    == Buy(1, "add", ann, p1, 1, 0, 0)
readd  == Buy(2, "add", ann, p1, 1, 0, 1)
set    == Buy(3, "set", ann, p1, 2, 92, 0)
show   == Buy(4, "get", ann, p1, 0, 0, 0)
clear  == Buy(5, "clear", ann, p1, 0, 0, 0)
steal  == Buy(6, "remove", bob, p1, 0, 92, 0)
order  == Buy(7, "reserve", ann, p1, 0, 0, 0)
bought == Buy(8, "bought", ann, p1, 0, 0, 0)
first  == Buy(9, "add", bob, p2, 2, 0, 0)
peek   == Buy(10, "get", bob, p1, 0, 0, 0)
zero   == Buy(11, "set", ann, p1, 0, 92, 0)

MCOldCarts ==
  (bob :> NoCart @@
   ann :> [id |-> 91, rows |-> (p1 :> [id |-> 92, amount |-> 1] @@ p2 :> NoRow)])

MCMixes ==
  {{Read(l), w} : l \in Lists \ {"product"}, w \in {delete, hate}}
  \cup
  {{page, edit}, {page, reload, ban}, {create, look}, {ban, reban, relist, unban},
   {rate, rerate, praise}, {rate, hate}, {hate, again, regret}, {take, back, price, reprice, abuse},
   {add, readd, set}, {clear, add, zero, steal}, {order, bought, show, add},
   {first, peek, clear}, {add, show, set, ban}, {show, delete, relist}}

MCCartRequests == {add, readd, set, show, clear, steal, order, bought, first, peek, zero}
MCRequests == UNION MCMixes \ MCCartRequests
=============================================================================
