------------------------------ MODULE MCAccounts ------------------------------
(* Small instances of Accounts: a user and a business, one administrator, a   *)
(* few calls at a time.                                                       *)
EXTENDS Accounts, TLC

CONSTANTS ann, bob, fresh, twin, adm, chief, mobile, web, Mixes

MCProfileOf ==
  (ann :> "user" @@ bob :> "business" @@ fresh :> "user" @@ twin :> "user" @@
   adm :> "admin" @@ chief :> "admin")

\* Names: 10 and 11 ann's, 20 and 21 bob's, and so on; passwords end in 9.
Row(names, tel, role) ==
  [email |-> names, username |-> names + 1, password |-> names + 9, phone |-> tel, cbu |-> 0,
   role |-> role, status |-> "active", deletedBy |-> Nobody]
MCOldRows ==
  [a \in People |-> IF a = ann THEN Row(10, 0, "user")
                    ELSE IF a = bob THEN Row(20, 2, "business")
                    ELSE IF a = adm THEN Row(30, 0, "admin") ELSE Row(0, 0, "user")]
MCOldSessions ==
  [a \in People |-> [d \in Devices |-> IF a = ann \/ (a = bob /\ d = web) THEN 1 ELSE 0]]
MCOldPlaces ==
  [a \in People |-> IF a = bob THEN {[table |-> "store", id |-> 91],
                                     [table |-> "address", id |-> 92]} ELSE {}]

Message(id, kind, by, device) ==
  [id |-> id, kind |-> kind, by |-> by, whom |-> by, device |-> device, name |-> 0,
   password |-> 0, email |-> 0, username |-> 0, phone |-> 0, value |-> 0,
   profile |-> "none", again |-> 0]
Own(id, kind, value) == [Message(id, kind, ann, web) EXCEPT !.password = 19, !.value = value]
Meta(id, kind) == [Message(id, kind, adm, web) EXCEPT !.name = 11]
Repeat(c, id) == [c EXCEPT !.id = id, !.again = c.id]

login    == [Message(1, "log_in", ann, web) EXCEPT !.name = 10, !.password = 19]
renamed  == [Message(2, "log_in", ann, mobile) EXCEPT !.name = 20, !.password = 29]
logout   == Message(3, "log_out", ann, web)
renew    == [Message(4, "refresh", ann, web) EXCEPT !.value = 1]
register == [Message(5, "add_account", fresh, web)
               EXCEPT !.email = 40, !.username = 10, !.password = 49, !.phone = 4]
retwin   == [Repeat(register, 6) EXCEPT !.by = twin, !.whom = twin]
sell     == [Message(7, "update_account", ann, web) EXCEPT !.phone = 5, !.profile = "user"]
edit     == [Message(8, "update_account", ann, mobile)
               EXCEPT !.username = 12, !.profile = "user"]
rename   == [Message(9, "update_account", ann, web) EXCEPT !.email = 13]
title    == [Message(10, "update_account", bob, web) EXCEPT !.email = 12, !.profile = "business"]
delete   == Own(11, "delete_account", 0)
change   == Own(12, "change_password", 18)
bank     == Own(13, "change_cbu", 7)
ban      == Meta(14, "ban_account")
unban    == Meta(15, "unban_account")
suspend  == Meta(16, "suspend_account")
create   == [Message(17, "create_admin", adm, web)
               EXCEPT !.whom = chief, !.email = 40, !.username = 51, !.password = 59]
usurp    == [Meta(18, "ban_account") EXCEPT !.by = bob]
List(kind) == Message(19, kind, adm, web)
look     == Meta(20, "get_account_info")
seek     == [Meta(21, "search_account") EXCEPT !.name = 10]
show     == [Message(22, "get_public_account", bob, web) EXCEPT !.name = 11]
find     == [Message(23, "search_public_account", bob, web) EXCEPT !.name = 11]
me       == Message(24, "get_info", ann, web)
open     == Message(25, "add_store", ann, web)
reopen   == Repeat(open, 26)
close    == [Message(27, "delete_store", ann, web) EXCEPT !.value = 91]
shut     == [close EXCEPT !.id = 28, !.value = 25]
live     == Message(29, "add_address", ann, web)
leave    == [Message(30, "delete_address", ann, web) EXCEPT !.value = 92]
map      == Message(31, "get_stores", ann, web)
ask      == Message(32, "is_admin", adm, web)

MCMixes ==
  {{login, logout, renew, ban}, {renew, Repeat(renew, 33), ban, unban}, {login, renew, suspend, ban},
   {login, delete, ban, unban}, {suspend, ban, unban, Repeat(ban, 34)}, {renamed, register, retwin, create},
   {sell, edit, bank}, {edit, rename, title}, {change, Repeat(change, 35), edit, login},
   {open, reopen, sell, shut}, {close, leave, live, map}, {ask, usurp, find, me},
   {look, rename, show}, {seek, ban, show}, {create, title, edit}, {create, suspend}}
  \cup {{List(kind), ban, delete} : kind \in ListKinds}

MCCalls == UNION MCMixes

MCInit == \E mix \in Mixes : Init(mix)
MCSpec == MCInit /\ [][Next]_vars
=============================================================================
