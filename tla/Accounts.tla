------------------------------- MODULE Accounts -------------------------------
(***************************************************************************)
(* The accounts of account_db: their names and passwords, the phone that   *)
(* makes a user a seller, the sessions of their devices, the stores and    *)
(* addresses they add, and the administrators who ban and restore them.    *)
(*                                                                         *)
(* A handler reads the account, decides, and writes in a later statement   *)
(* that does not ask again; the triggers of the tables do the rest.        *)
(***************************************************************************)
EXTENDS Naturals, FiniteSets

CONSTANTS
  People,       \* the accounts that there may be
  ProfileOf,    \* the profile each is created with
  Devices,      \* user agents
  Calls,        \* messages
  OldAccounts,  \* accounts there are at first,
  OldRows,      \* what is known of them,
  OldSessions,  \* their sessions,
  OldPlaces,    \* and their stores and addresses
  Life,         \* REFRESH_TIME
  MaxNow,       \* a bound on the clock
  Nobody

Profiles == {"user", "business", "admin"}
Statuses == {"active", "suspended", "inactive", "banned"}
Roles    == {"admin", "business", "user", "user-seller"}

ListKinds  == {"get_active_list", "get_banned_list", "get_suspended_list", "get_inactive_list"}
MetaKinds  == {"ban_account", "unban_account", "suspend_account"}
AdminKinds == ListKinds \cup MetaKinds
                \cup {"create_admin", "search_account", "get_account_info", "is_admin"}
StoreKinds == {"get_stores", "add_store", "delete_store"}
PlaceKinds == StoreKinds \cup {"get_addresses", "add_address", "delete_address"}
OwnKinds   == {"update_account", "delete_account", "change_password", "change_cbu"}
CallKinds  == AdminKinds \cup PlaceKinds \cup OwnKinds
                \cup {"log_in", "log_out", "refresh", "add_account", "get_info",
                      "get_public_account", "search_public_account"}

\* What a text or a number is does not matter, but for 0: NULL, or not given.
Columns == Nat

\* meta.deleted and meta.deleted_by are set, and reset, together.
AccountRows ==
  [email : Columns, username : Columns, password : Columns, phone : Columns, cbu : Columns,
   role : Roles, status : Statuses, deletedBy : People \cup {Nobody}]

\* A store or an address is named by the call that inserted it.
Places == [table : {"store", "address"}, id : Nat]

\* A session is its token, and that is the second it was issued in: two tokens
\* of one account and one second are the same.  0 is no session.
Sessions == [People -> [Devices -> Nat]]

ASSUME AccountsAssumption ==
  /\ Nobody \notin People
  /\ ProfileOf \in [People -> Profiles]
  /\ Life \in Nat /\ MaxNow \in Nat
  /\ Calls \subseteq
       [id : Nat \ {0}, kind : CallKinds, by : People, whom : People, device : Devices,
        name : Columns, password : Columns, email : Columns, username : Columns,
        phone : Columns, value : Nat, profile : Profiles \cup {"none"}, again : Nat]
  /\ OldAccounts \subseteq People
  /\ OldRows \in [People -> AccountRows]
  /\ OldSessions \in Sessions
  /\ OldPlaces \in [People -> SUBSET Places]

\* What is there at first is as the handlers leave it.
ASSUME OldAssumption ==
  \A a \in OldAccounts :
    /\ ProfileOf[a] = "user" => (OldRows[a].role = "user-seller" <=> OldRows[a].phone # 0)
    /\ OldRows[a].status = "active" <=> OldRows[a].deletedBy = Nobody
    /\ OldRows[a].deletedBy # Nobody => \A d \in Devices : OldSessions[a][d] = 0

VARIABLES
  accounts,  \* the rows of account
  row,       \* account, its profile and its meta
  session,   \* refresh_token
  places,    \* store and address
  now,       \* the clock
  pc,        \* what each call does next
  who,       \* the account it found
  saw,       \* the row it read
  snap,      \* the profile that its save() read
  got,       \* the accounts it answered with
  reply      \* what it answered

tables == <<accounts, row, session, places>>
locals == <<who, saw, snap, got>>
vars == <<tables, now, pc, locals, reply>>

TypeOK ==
  /\ accounts \subseteq People
  /\ row \in [People -> AccountRows]
  /\ session \in Sessions
  /\ places \in [People -> SUBSET Places]
  /\ now \in Nat
  /\ pc \in [Calls ->
       {"unsent", "later", "new", "expired", "token", "store", "verified", "names",
        "profile", "found", "writing", "asking", "done"}]
  /\ who \in [Calls -> People]
  /\ saw \in [Calls -> AccountRows]
  /\ snap \in [Calls -> AccountRows]
  /\ got \in [Calls -> SUBSET People]
  /\ reply \in [Calls -> {"none", "ok", "refused", "error"}]

\* The calls of mix are on their way; repetitions later.
Init(mix) ==
  /\ accounts = OldAccounts /\ row = OldRows
  /\ session = OldSessions /\ places = OldPlaces
  /\ now = 1
  /\ pc = [c \in Calls |-> IF c \notin mix THEN "unsent"
                           ELSE IF c.again = 0 THEN "new" ELSE "later"]
  /\ who = [c \in Calls |-> c.by]
  /\ saw = [c \in Calls |-> OldRows[c.by]]
  /\ snap = [c \in Calls |-> OldRows[c.by]]
  /\ got = [c \in Calls |-> {}]
  /\ reply = [c \in Calls |-> "none"]

Goes(c, next) ==
  /\ pc' = [pc EXCEPT ![c] = next]
  /\ UNCHANGED reply

Answers(c, r) ==
  /\ pc' = [pc EXCEPT ![c] = "done"]
  /\ reply' = [reply EXCEPT ![c] = r]

At(c, kinds, label) == c.kind \in kinds /\ pc[c] = label

\* withRetry in the gateway: no answer for 3 s, so the message is sent again.
Resend(c) ==
  /\ pc[c] = "later"
  /\ \E d \in Calls : d.id = c.again /\ pc[d] \notin {"unsent", "done"}
  /\ Goes(c, "new")
  /\ UNCHANGED <<tables, now, locals>>

\* A handler that can answer at once, or goes on if the row it read allows it.
Reads(c, a, allowed, next) ==
  /\ who' = [who EXCEPT ![c] = a]
  /\ saw' = [saw EXCEPT ![c] = row[a]]
  /\ IF allowed THEN Goes(c, next) ELSE Answers(c, "refused")
  /\ UNCHANGED <<tables, now, snap, got>>

Refuses(c) == Answers(c, "refused") /\ UNCHANGED <<tables, now, locals>>

-----------------------------------------------------------------------------
(* Sessions.                                                               *)

NoSessions == [d \in Devices |-> 0]

\* An account is found by its e-mail, or else by its user name.
Found(name) ==
  LET byEmail == {a \in accounts : row[a].email = name} IN
  IF byEmail # {} THEN byEmail ELSE {a \in accounts : row[a].username = name}

\* Whoever left may come back: inactive is not refused.
StatusAllows(a) == row[a].status \notin {"banned", "suspended"}

LogIn(c) ==
  /\ At(c, {"log_in"}, "new")
  /\ \/ Found(c.name) = {} /\ Refuses(c)
     \/ \E a \in Found(c.name) :
          Reads(c, a, StatusAllows(a) /\ row[a].password = c.password, "store")

\* Upsert of the device's row, with a token issued now.
SaveRefreshToken(c) ==
  /\ pc[c] = "store"
  /\ session' = [session EXCEPT ![who[c]][c.device] = now]
  /\ Answers(c, "ok")
  /\ UNCHANGED <<accounts, row, places, now, locals>>

\* Mutant of Here: AND device = .. is missing.
HereOrThere(c, d) == TRUE

Here(c, d) == d = c.device

\* log.out is an event: nobody waits for it.
LogOut(c) ==
  /\ At(c, {"log_out"}, "new")
  /\ session' = [session EXCEPT ![c.by] =
                   [d \in Devices |-> IF Here(c, d) THEN 0 ELSE session[c.by][d]]]
  /\ Answers(c, "ok")
  /\ UNCHANGED <<accounts, row, places, now, locals>>

\* The row of the account, the device and the token (value); it may have expired.
FindToken(c) ==
  /\ At(c, {"refresh"}, "new")
  /\ IF c.value = 0 \/ session[c.by][c.device] # c.value
     THEN Answers(c, "refused")
     ELSE Goes(c, IF c.value + Life < now THEN "expired" ELSE "token")
  /\ UNCHANGED <<tables, now, locals>>

\* The DELETE goes by the token: on any device.
DropExpired(c) ==
  /\ pc[c] = "expired"
  /\ session' = [session EXCEPT ![c.by] =
                   [d \in Devices |-> IF session[c.by][d] = c.value THEN 0 ELSE session[c.by][d]]]
  /\ Answers(c, "refused")
  /\ UNCHANGED <<accounts, row, places, now, locals>>

\* The status is read after the token, and the new token is stored after that.
Refresh(c) ==
  /\ pc[c] = "token"
  /\ Reads(c, c.by, StatusAllows(c.by), "store")

-----------------------------------------------------------------------------
(* Registering.                                                            *)

\* Keys of another account: email and username are UNIQUE.
Taken(a, email, username) ==
  \E b \in accounts \ {a} : row[b].email = email \/ row[b].username = username

\* The triggers on the profile that is inserted.
FirstRole(a, phone) ==
  IF ProfileOf[a] = "user" /\ phone # 0 THEN "user-seller" ELSE ProfileOf[a]

\* account, meta and profile in one transaction, which also reads them.
Insert(c, a) ==
  LET new == [email |-> c.email, username |-> c.username, password |-> c.password,
              phone |-> c.phone, cbu |-> 0, role |-> FirstRole(a, c.phone),
              status |-> "active", deletedBy |-> Nobody] IN
  /\ accounts' = accounts \cup {a}
  /\ row' = [row EXCEPT ![a] = new]
  /\ saw' = [saw EXCEPT ![c] = new]
  /\ UNCHANGED <<session, places, now, who, snap, got>>

\* Every registration has an id of its own.
AddAccount(c) ==
  /\ At(c, {"add_account"}, "new") /\ c.by \notin accounts
  /\ IF ProfileOf[c.by] = "admin" \/ Taken(c.by, c.email, c.username)
     THEN Refuses(c)
     ELSE Insert(c, c.by) /\ Goes(c, "store")

\* A token that cannot be saved is only logged.
NoToken(c) ==
  /\ At(c, {"add_account"}, "store")
  /\ Answers(c, "ok")
  /\ UNCHANGED <<tables, now, locals>>

-----------------------------------------------------------------------------
(* What an account changes of itself.                                      *)

Unlocked(c) == row[c.by].password = c.password
Renames(c)  == c.email # 0 \/ c.username # 0

\* The account is read; the password, where one is asked, compared.
ReadOwn(c) ==
  /\ At(c, OwnKinds, "new")
  /\ IF c.by \notin accounts THEN Refuses(c)
     ELSE IF c.kind = "update_account"
     THEN Reads(c, c.by,
                c.profile \in {"none", ProfileOf[c.by]} /\ (Renames(c) \/ c.profile # "none"),
                IF c.profile = "none" THEN "names" ELSE "profile")
     ELSE Reads(c, c.by, Unlocked(c), "writing")

\* The name given, or else the one that was read.
NewEmail(c)    == IF c.email # 0 THEN c.email ELSE saw[c].email
NewUsername(c) == IF c.username # 0 THEN c.username ELSE saw[c].username

\* A transaction that has renamed the account holds its row until it commits.
Held(a) == \E d \in Calls : d.by = a /\ pc[d] = "found" /\ Renames(d)

\* UPDATE account SET email, username: both of them, whichever was given.
UpdateNames(c) ==
  /\ pc[c] = "names" /\ ~Held(c.by)
  /\ IF Taken(c.by, NewEmail(c), NewUsername(c)) THEN Refuses(c)
     ELSE /\ row' = [row EXCEPT ![c.by].email = NewEmail(c), ![c.by].username = NewUsername(c)]
          /\ Answers(c, "ok")
          /\ UNCHANGED <<accounts, session, places, now, locals>>

\* A transaction: that UPDATE, and save(profile), which reads the profile again
FindProfile(c) ==
  /\ pc[c] = "profile" /\ (Renames(c) => ~Held(c.by))
  /\ snap' = [snap EXCEPT ![c] = row[c.by]]
  /\ Goes(c, "found")
  /\ UNCHANGED <<tables, now, who, saw, got>>

\* Mutant of RoleAfter: the phone that is taken away is forgotten.
RoleAfterGiven(a, phone) ==
  IF ProfileOf[a] = "user" /\ row[a].phone = 0 /\ phone # 0 THEN "user-seller" ELSE row[a].role

\* The trigger on the update of a user's profile.
RoleAfter(a, phone) ==
  IF ProfileOf[a] # "user" \/ (row[a].phone = 0 <=> phone = 0) THEN row[a].role
  ELSE IF phone # 0 THEN "user-seller" ELSE "user"

\* and writes the columns in which it is not what the handler has: one that
\* somebody else has changed since is changed back.
UpdateProfile(c) ==
  LET a == c.by
      mine  == IF c.phone # 0 THEN c.phone ELSE saw[c].phone
      phone == IF mine # snap[c].phone THEN mine ELSE row[a].phone
      cbu   == IF saw[c].cbu # snap[c].cbu THEN saw[c].cbu ELSE row[a].cbu IN
  /\ pc[c] = "found"
  /\ IF Renames(c) /\ Taken(a, NewEmail(c), NewUsername(c)) THEN Refuses(c)
     ELSE /\ row' = [row EXCEPT
               ![a].phone = phone, ![a].cbu = cbu, ![a].role = RoleAfter(a, phone),
               ![a].email = IF Renames(c) THEN NewEmail(c) ELSE row[a].email,
               ![a].username = IF Renames(c) THEN NewUsername(c) ELSE row[a].username]
          /\ Answers(c, "ok")
          /\ UNCHANGED <<accounts, session, places, now, locals>>

ChangePassword(c) ==
  /\ At(c, {"change_password"}, "writing") /\ ~Held(c.by)
  /\ row' = [row EXCEPT ![c.by].password = c.value]
  /\ Answers(c, "ok")
  /\ UNCHANGED <<accounts, session, places, now, locals>>

\* Of a business, or else of a user: an administrator has neither row.
ChangeCbu(c) ==
  /\ At(c, {"change_cbu"}, "writing")
  /\ row' = [row EXCEPT ![c.by].cbu =
               IF ProfileOf[c.by] = "admin" THEN row[c.by].cbu ELSE c.value]
  /\ Answers(c, "ok")
  /\ UNCHANGED <<accounts, session, places, now, locals>>

\* Mutant of WriteMeta: a restored account keeps the date of its deletion.
WriteMetaKept(a, status, by) ==
  /\ row' = [row EXCEPT ![a].status = status, ![a].deletedBy = IF by = Nobody THEN @ ELSE by]
  /\ session' = IF row[a].deletedBy = Nobody /\ by # Nobody
                THEN [session EXCEPT ![a] = NoSessions] ELSE session
  /\ UNCHANGED <<accounts, places, now, locals>>

\* Mutant of WriteMeta: no trigger.
WriteMetaOnly(a, status, by) ==
  /\ row' = [row EXCEPT ![a].status = status, ![a].deletedBy = by]
  /\ UNCHANGED <<accounts, session, places, now, locals>>

\* UPDATE meta, whatever it has become since it was read.  The trigger ends the
\* sessions of an account that was not deleted before.
WriteMeta(a, status, by) ==
  /\ row' = [row EXCEPT ![a].status = status, ![a].deletedBy = by]
  /\ session' = IF row[a].deletedBy = Nobody /\ by # Nobody
                THEN [session EXCEPT ![a] = NoSessions] ELSE session
  /\ UNCHANGED <<accounts, places, now, locals>>

\* delete.account.data goes to nobody: no service listens to that name.
DeleteAccount(c) ==
  /\ At(c, {"delete_account"}, "writing")
  /\ WriteMeta(c.by, "inactive", c.by)
  /\ Answers(c, "ok")

-----------------------------------------------------------------------------
(* Administrators.                                                         *)

\* Only the role is asked, never the status.
Verify(c) ==
  /\ At(c, AdminKinds, "new")
  /\ IF \/ c.by \notin accounts \/ row[c.by].role # "admin"
        \/ c.kind = "create_admin" /\ ProfileOf[c.whom] # "admin"
     THEN Answers(c, "refused")
     ELSE IF c.kind = "is_admin" THEN Answers(c, "ok") ELSE Goes(c, "verified")
  /\ UNCHANGED <<tables, now, locals>>

\* A name that is taken is an error here.
AddAdmin(c) ==
  /\ At(c, {"create_admin"}, "verified")
  /\ c.whom \notin accounts /\ ~Taken(c.whom, c.email, c.username)
  /\ Insert(c, c.whom) /\ Answers(c, "ok")

Named(name) == {a \in accounts : row[a].username = name}

\* The status that a call gives.
Given(c) ==
  IF c.kind = "ban_account" THEN "banned"
  ELSE IF c.kind = "suspend_account" THEN "suspended" ELSE "active"

\* Banning, suspending and restoring find the account by its user name.  One
\* that has the status already is done; one that is banned is not suspended.
FindUser(c) ==
  /\ At(c, MetaKinds, "verified")
  /\ \/ Named(c.name) = {} /\ Refuses(c)
     \/ \E a \in Named(c.name) :
          IF row[a].status = Given(c)
          THEN Answers(c, "ok") /\ UNCHANGED <<tables, now, locals>>
          ELSE Reads(c, a, ~(c.kind = "suspend_account" /\ row[a].status = "banned"), "writing")

SetStatus(c) ==
  /\ At(c, MetaKinds, "writing")
  /\ WriteMeta(who[c], Given(c), IF Given(c) = "active" THEN Nobody ELSE c.by)
  /\ Answers(c, "ok")

-----------------------------------------------------------------------------
(* Reading.                                                                *)

\* WHERE status = .. AND deleted IS (NOT) NULL.
Listed(status) ==
  {a \in accounts : row[a].status = status /\ (row[a].deletedBy = Nobody <=> status = "active")}

ListOf == [get_active_list |-> "active", get_banned_list |-> "banned",
           get_suspended_list |-> "suspended", get_inactive_list |-> "inactive"]

\* LIKE finds a name by itself, and others by what they contain; a text of less
\* than three letters finds nobody.
Alike(name) ==
  {{}} \cup {some \in SUBSET accounts :
             \A a \in accounts : name \in {row[a].email, row[a].username} => a \in some}

Shows(c, some) ==
  /\ got' = [got EXCEPT ![c] = some]
  /\ Answers(c, "ok")
  /\ UNCHANGED <<tables, now, who, saw, snap>>

GetList(c)   == At(c, ListKinds, "verified") /\ Shows(c, Listed(ListOf[c.kind]))
Search(c)    == At(c, {"search_account"}, "verified") /\ \E some \in Alike(c.name) : Shows(c, some)
PublicSearch(c) ==
  At(c, {"search_public_account"}, "new") /\ \E some \in Alike(c.name) : Shows(c, some)

\* getAccountInfo reads the id first and the account by the id after that.
GetAccountInfo(c) ==
  /\ At(c, {"get_account_info"}, "verified")
  /\ IF Named(c.name) = {} THEN Refuses(c) ELSE \E a \in Named(c.name) : Reads(c, a, TRUE, "asking")

GetInfo(c) ==
  \/ At(c, {"get_info"}, "new")
     /\ IF c.by \in accounts THEN Shows(c, {c.by}) ELSE Refuses(c)
  \/ At(c, {"get_account_info"}, "asking") /\ Shows(c, {who[c]})

\* The products are asked of the product service, for 2 s.
GetPublicAccount(c) ==
  /\ At(c, {"get_public_account"}, "new")
  /\ \/ Named(c.name) = {} /\ Refuses(c)
     \/ \E a \in Named(c.name) : Reads(c, a, row[a].status # "banned", "asking")

\* An administrator has no name to show.
ShowPublicAccount(c) ==
  /\ At(c, {"get_public_account"}, "asking")
  /\ ProfileOf[who[c]] # "admin"
  /\ Shows(c, {who[c]})

-----------------------------------------------------------------------------
(* Stores and addresses.                                                   *)

Table(c) == IF c.kind \in StoreKinds THEN "store" ELSE "address"

Mine(c, a) == a = c.by

GetPlaces(c) ==
  /\ At(c, {"get_stores", "get_addresses"}, "new")
  /\ IF c.kind = "get_stores" /\ (c.by \notin accounts \/ row[c.by].status = "banned")
     THEN Refuses(c) ELSE Shows(c, {c.by})

\* A store needs a phone, its own or that of its owner's profile.
ReadOwner(c) ==
  /\ At(c, {"add_store"}, "new")
  /\ IF c.by \notin accounts THEN Refuses(c) ELSE Reads(c, c.by, TRUE, "writing")

AddPlace(c) ==
  /\ \/ At(c, {"add_store"}, "writing") /\ ProfileOf[c.by] # "admin"
        /\ (c.phone # 0 \/ saw[c].phone # 0)
     \/ At(c, {"add_address"}, "new") /\ c.by \in accounts
  /\ places' = [places EXCEPT ![c.by] = @ \cup {[table |-> Table(c), id |-> c.id]}]
  /\ Answers(c, "ok")
  /\ UNCHANGED <<accounts, row, session, now, locals>>

DeletePlace(c) ==
  LET place == [table |-> Table(c), id |-> c.value]
      Gone(a) == Mine(c, a) /\ place \in places[a] IN
  /\ At(c, {"delete_store", "delete_address"}, "new")
  /\ places' = [a \in People |-> IF Gone(a) THEN places[a] \ {place} ELSE places[a]]
  /\ Answers(c, IF \E a \in People : Gone(a) THEN "ok" ELSE "refused")
  /\ UNCHANGED <<accounts, row, session, now, locals>>

-----------------------------------------------------------------------------

\* The catch of every handler: the database or the product service fails, a key
\* is violated, or a column that is not there is read.
CallFails(c) ==
  /\ pc[c] \notin {"unsent", "later", "done"}
  /\ ~At(c, {"add_account"}, "store")
  /\ Answers(c, "error")
  /\ UNCHANGED <<tables, now, locals>>

Tick ==
  /\ now < MaxNow
  /\ now' = now + 1
  /\ UNCHANGED <<tables, pc, locals, reply>>

Step(c) ==
  \/ Resend(c) \/ CallFails(c)
  \/ LogIn(c) \/ SaveRefreshToken(c) \/ LogOut(c)
  \/ FindToken(c) \/ DropExpired(c) \/ Refresh(c)
  \/ AddAccount(c) \/ NoToken(c)
  \/ ReadOwn(c) \/ UpdateNames(c) \/ FindProfile(c) \/ UpdateProfile(c)
  \/ ChangePassword(c) \/ ChangeCbu(c) \/ DeleteAccount(c)
  \/ Verify(c) \/ AddAdmin(c) \/ FindUser(c) \/ SetStatus(c)
  \/ GetList(c) \/ Search(c) \/ PublicSearch(c) \/ GetAccountInfo(c) \/ GetInfo(c)
  \/ GetPublicAccount(c) \/ ShowPublicAccount(c)
  \/ GetPlaces(c) \/ ReadOwner(c) \/ AddPlace(c) \/ DeletePlace(c)

Next == Tick \/ \E c \in Calls : Step(c)

Spec == (\E mix \in SUBSET Calls : Init(mix)) /\ [][Next]_vars

-----------------------------------------------------------------------------
(* Properties.                                                             *)

\* A user sells if and only if a phone is known, although the trigger goes by the
\* change of the column and an old phone may be written back.
RoleMatchesPhone ==
  \A a \in accounts :
    ProfileOf[a] = "user" => (row[a].role = "user-seller" <=> row[a].phone # 0)

\* Every account is in a list of the administrators, whoever has deleted,
\* banned, suspended and restored it at the same time.
EveryoneListed == accounts = UNION {Listed(status) : status \in Statuses}

\* An account that was deleted, banned or suspended has no session on a device
\* from which no call ever read it as neither banned nor suspended and then
\* succeeded.  The call need not be the one that stored this session: one that
\* read before the ban and stored after it leaves a session.
SessionsChecked ==
  \A a \in accounts, d \in Devices :
    row[a].deletedBy # Nobody /\ session[a][d] # 0 =>
      \E c \in Calls :
        /\ c.kind \in {"log_in", "refresh", "add_account"} /\ reply[c] = "ok"
        /\ who[c] = a /\ c.device = d
        /\ saw[c].status \notin {"banned", "suspended"}

\* A session starts and ends by a call of its own device, or with the account, or
\* when it has expired; nobody is logged out by another device.
OwnDeviceOnly ==
  [][\A a \in People, d \in Devices :
       session'[a][d] # session[a][d] =>
         \/ \E c \in Calls : pc'[c] = "done" /\ pc[c] # "done" /\ who[c] = a /\ c.device = d
         \/ row[a].deletedBy = Nobody /\ row'[a].deletedBy # Nobody
         \/ session'[a][d] = 0 /\ session[a][d] + Life < now]_vars

\* A store or an address comes and goes only by a call of its owner, whatever id
\* is named.
PlacesOfOwner ==
  [][\A a \in People :
       places'[a] # places[a] =>
         \E c \in Calls : pc'[c] = "done" /\ pc[c] # "done" /\ c.by = a]_vars
=============================================================================
