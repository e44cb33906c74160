--------------------------- MODULE Accounts_proofs ----------------------------
(***************************************************************************)
(* What holds of all accounts, devices and calls: the seven properties of  *)
(* Accounts.                                                               *)
(***************************************************************************)
EXTENDS Accounts, TLAPS

Labels ==
  {"unsent", "later", "new", "expired", "token", "store", "verified", "names",
   "profile", "found", "writing", "asking", "done"}

Replies == {"none", "ok", "refused", "error"}

\* The calls that look for an account by a name; the others are about their own.
Finders == MetaKinds \cup {"log_in", "get_account_info", "get_public_account"}

\* What a call knows at the steps that write.
CallOK(c) ==
  /\ reply[c] # "none" => pc[c] = "done"
  /\ c.kind \notin Finders => who[c] = c.by
  /\ pc[c] = "writing" /\ c.kind = "suspend_account" => saw[c].status # "banned"
  /\ pc[c] = "token" => c.kind = "refresh"
  /\ pc[c] = "store" => /\ c.kind \in {"log_in", "refresh", "add_account"}
                        /\ saw[c].status \notin {"banned", "suspended"}
  /\ pc[c] = "expired" => c.kind = "refresh" /\ c.value + Life < now

\* What the triggers and the two columns of a deletion keep together.
RowOK(a) ==
  /\ ProfileOf[a] = "user" => (row[a].role = "user-seller" <=> row[a].phone # 0)
  /\ row[a].status = "active" <=> row[a].deletedBy = Nobody

CallsOK == \A c \in Calls : CallOK(c)
RowsOK  == \A a \in accounts : RowOK(a)

IInv == TypeOK /\ CallsOK /\ RowsOK /\ SessionsChecked

\* What every step of a call leaves alone: all that the others are doing.
Moves(c) ==
  /\ pc[c] # "done"
  /\ \A d \in Calls \ {c} :
       /\ pc'[d] = pc[d] /\ reply'[d] = reply[d] /\ who'[d] = who[d] /\ saw'[d] = saw[d]

\* The variables of the calls have their types after a call has gone on.
LEMMA GoesTyped ==
  ASSUME TypeOK, NEW c \in Calls, NEW next \in Labels, Goes(c, next)
  PROVE  /\ pc' \in [Calls -> Labels] /\ pc'[c] = next
         /\ \A d \in Calls \ {c} : pc'[d] = pc[d]
         /\ reply' = reply
  BY DEF TypeOK, Goes, Labels

\* The same after one has answered.
LEMMA AnswersTyped ==
  ASSUME TypeOK, NEW c \in Calls, NEW r \in Replies, Answers(c, r)
  PROVE  /\ pc' \in [Calls -> Labels] /\ pc'[c] = "done"
         /\ reply' \in [Calls -> Replies] /\ reply'[c] = r
         /\ \A d \in Calls \ {c} : pc'[d] = pc[d] /\ reply'[d] = reply[d]
  BY DEF TypeOK, Answers, Labels, Replies

\* A call that only moves on or answers keeps all types.
LEMMA LocalTyped ==
  ASSUME TypeOK, UNCHANGED <<tables, now>>,
         pc' \in [Calls -> Labels], reply' \in [Calls -> Replies],
         who' \in [Calls -> People], saw' \in [Calls -> AccountRows],
         snap' \in [Calls -> AccountRows], got' \in [Calls -> SUBSET People]
  PROVE  TypeOK'
  BY DEF TypeOK, tables, Labels, Replies

\* The sessions of those who left stay checked when no such session is new.
LEMMA SessionsKept ==
  ASSUME IInv, NEW c \in Calls, Moves(c),
         \A a \in accounts', d \in Devices :
           row'[a].deletedBy # Nobody /\ session'[a][d] # 0 =>
             a \in accounts /\ row[a].deletedBy # Nobody /\ session[a][d] # 0
  PROVE  SessionsChecked'
<1> SUFFICES ASSUME NEW a \in accounts', NEW d \in Devices,
                    row'[a].deletedBy # Nobody, session'[a][d] # 0
             PROVE  \E e \in Calls :
                      /\ e.kind \in {"log_in", "refresh", "add_account"} /\ reply'[e] = "ok"
                      /\ who'[e] = a /\ e.device = d
                      /\ saw'[e].status \notin {"banned", "suspended"}
  BY DEF SessionsChecked
<1>1. PICK e \in Calls :
        /\ e.kind \in {"log_in", "refresh", "add_account"} /\ reply[e] = "ok"
        /\ who[e] = a /\ e.device = d
        /\ saw[e].status \notin {"banned", "suspended"}
  BY DEF IInv, SessionsChecked
<1>2. e # c
  BY <1>1 DEF IInv, CallsOK, CallOK, Moves
<1> QED BY <1>1, <1>2 DEF Moves

\* When the tables stay, only the call that moved is left to be looked at.
LEMMA QuietKeeps ==
  ASSUME IInv, NEW c \in Calls, Moves(c), UNCHANGED <<tables, now>>, TypeOK', CallOK(c)'
  PROVE  IInv'
<1>1. CallsOK'
  BY DEF IInv, CallsOK, CallOK, Moves
<1>2. RowsOK'
  BY DEF IInv, RowsOK, RowOK, tables
<1>3. SessionsChecked'
  BY SessionsKept DEF tables
<1> QED BY <1>1, <1>2, <1>3 DEF IInv

\* The same of a call that goes on, or answers, and leaves what it found alone.
LEMMA GoesKeeps ==
  ASSUME IInv, NEW c \in Calls, pc[c] # "done", UNCHANGED <<tables, now, locals>>,
         NEW next \in Labels, Goes(c, next),
         next \in {"new", "verified", "token", "expired"},
         next \in {"token", "expired"} => c.kind = "refresh",
         next = "expired" => c.value + Life < now
  PROVE  IInv'
<1>1. Moves(c) /\ pc'[c] = next
  BY GoesTyped DEF IInv, Moves, locals
<1>2. TypeOK'
  BY GoesTyped, LocalTyped DEF IInv, TypeOK, locals, Labels, Replies
<1>3. CallOK(c)'
  BY <1>1, GoesTyped DEF IInv, CallsOK, CallOK, locals
<1> QED BY <1>1, <1>2, <1>3, QuietKeeps

\* A call that answers leaves the tables and the other calls alone.
LEMMA AnswersKeeps ==
  ASSUME IInv, NEW c \in Calls, pc[c] # "done", UNCHANGED <<tables, now>>,
         UNCHANGED <<who, saw, snap>>, got' \in [Calls -> SUBSET People],
         NEW r \in Replies, Answers(c, r)
  PROVE  IInv'
<1>1. Moves(c) /\ pc'[c] = "done"
  BY AnswersTyped DEF IInv, Moves
<1>2. TypeOK'
  BY AnswersTyped, LocalTyped DEF IInv, TypeOK, Labels, Replies
<1>3. CallOK(c)'
  BY <1>1 DEF IInv, CallsOK, CallOK
<1> QED BY <1>1, <1>2, <1>3, QuietKeeps

\* A call that reads a row knows what the row allowed when it goes on.
LEMMA ReadsKeeps ==
  ASSUME AccountsAssumption, IInv, NEW c \in Calls, pc[c] # "done",
         NEW a \in People, NEW allowed \in BOOLEAN, NEW next \in Labels,
         Reads(c, a, allowed, next),
         c.kind \notin Finders => a = c.by,
         next \in {"store", "names", "profile", "writing", "asking"},
         allowed /\ next = "store" =>
           c.kind \in {"log_in", "refresh"} /\ row[a].status \notin {"banned", "suspended"},
         allowed /\ next = "writing" /\ c.kind = "suspend_account" => row[a].status # "banned"
  PROVE  IInv'
<1>1. /\ who' \in [Calls -> People] /\ saw' \in [Calls -> AccountRows]
      /\ who'[c] = a /\ saw'[c] = row[a]
      /\ \A d \in Calls \ {c} : who'[d] = who[d] /\ saw'[d] = saw[d]
  BY DEF IInv, TypeOK, Reads
<1>2. CASE allowed
  <2>1. Goes(c, next)
    BY <1>2 DEF Reads
  <2>2. Moves(c)
    BY <1>1, <2>1, GoesTyped DEF IInv, Moves
  <2>3. TypeOK'
    BY <1>1, <2>1, GoesTyped, LocalTyped DEF IInv, TypeOK, Reads, Labels, Replies
  <2>4. CallOK(c)'
    BY <1>1, <1>2, <2>1, GoesTyped DEF IInv, CallsOK, CallOK
  <2> QED BY <2>2, <2>3, <2>4, QuietKeeps DEF Reads
<1>3. CASE ~allowed
  <2>1. Answers(c, "refused")
    BY <1>3 DEF Reads
  <2>2. Moves(c)
    BY <1>1, <2>1, AnswersTyped DEF IInv, Moves, Replies
  <2>3. TypeOK'
    BY <1>1, <2>1, AnswersTyped, LocalTyped DEF IInv, TypeOK, Reads, Labels, Replies
  <2>4. CallOK(c)'
    BY <1>1, <2>1, AnswersTyped DEF IInv, CallsOK, CallOK, Replies
  <2> QED BY <2>2, <2>3, <2>4, QuietKeeps DEF Reads
<1> QED BY <1>2, <1>3

\* The steps that do not write, those that write sessions, and those that write
\* the account's own row.
Reading(c) ==
  \/ Resend(c) \/ CallFails(c) \/ LogIn(c) \/ FindToken(c) \/ Refresh(c) \/ NoToken(c)
  \/ ReadOwn(c) \/ FindProfile(c) \/ Verify(c) \/ FindUser(c)
  \/ GetList(c) \/ Search(c) \/ PublicSearch(c)
  \/ GetAccountInfo(c) \/ GetInfo(c) \/ GetPublicAccount(c) \/ ShowPublicAccount(c)
  \/ GetPlaces(c) \/ ReadOwner(c)
SessionWrite(c) == SaveRefreshToken(c) \/ LogOut(c) \/ DropExpired(c)
OwnWrite(c) == UpdateNames(c) \/ UpdateProfile(c) \/ ChangePassword(c) \/ ChangeCbu(c)

\* Every step of a call is one of these, or writes meta, an account or a place.
LEMMA Steps ==
  ASSUME NEW c \in Calls, Step(c)
  PROVE  \/ Reading(c) \/ SessionWrite(c) \/ OwnWrite(c)
         \/ DeleteAccount(c) \/ SetStatus(c) \/ AddAccount(c) \/ AddAdmin(c)
         \/ AddPlace(c) \/ DeletePlace(c)
  BY Zenon DEF Step, Reading, SessionWrite, OwnWrite

\* Calls that do not write.
LEMMA ReadingKeeps ==
  ASSUME AccountsAssumption, IInv, NEW c \in Calls, Reading(c)
  PROVE  IInv'
<1> USE DEF At
<1>a. accounts \subseteq People /\ got \in [Calls -> SUBSET People] /\ c.by \in People
  BY DEF IInv, TypeOK, AccountsAssumption
<1>r. ASSUME Refuses(c), pc[c] # "done" PROVE IInv'
  BY <1>a, <1>r, AnswersKeeps DEF Refuses, locals, Replies
<1>s. ASSUME NEW some \in SUBSET People, Shows(c, some), pc[c] # "done" PROVE IInv'
  <2>1. got' \in [Calls -> SUBSET People]
    BY <1>a, <1>s DEF Shows
  <2> QED BY <1>s, <2>1, AnswersKeeps DEF Shows, Replies
<1>1. CASE Resend(c)
  BY <1>1, GoesKeeps DEF Resend, Labels
<1>2. CASE CallFails(c)
  BY <1>a, <1>2, AnswersKeeps DEF CallFails, locals, Replies
<1>3. CASE LogIn(c)
  <2>1. CASE Refuses(c)
    BY <1>3, <1>r, <2>1 DEF LogIn
  <2>2. ASSUME NEW a \in Found(c.name),
               Reads(c, a, StatusAllows(a) /\ row[a].password = c.password, "store")
        PROVE  IInv'
    <3>1. a \in People /\ c.kind \in Finders /\ c.kind = "log_in"
      BY <1>a, <1>3, <2>2 DEF Found, LogIn, Finders
    <3> QED BY <1>3, <2>2, <3>1, ReadsKeeps DEF LogIn, StatusAllows, Labels
  <2> QED BY <1>3, <2>1, <2>2 DEF LogIn
<1>4. CASE FindToken(c)
  <2>1. CASE Answers(c, "refused")
    BY <1>a, <1>4, <2>1, AnswersKeeps DEF FindToken, locals, Replies
  <2>2. CASE Goes(c, "expired") /\ c.value + Life < now
    BY <1>4, <2>2, GoesKeeps DEF FindToken, Labels
  <2>3. CASE Goes(c, "token")
    BY <1>4, <2>3, GoesKeeps DEF FindToken, Labels
  <2> QED BY <1>4, <2>1, <2>2, <2>3 DEF FindToken
<1>5. CASE Refresh(c)
  <2>1. c.kind = "refresh"
    BY <1>5 DEF Refresh, IInv, CallsOK, CallOK
  <2> QED BY <1>a, <1>5, <2>1, ReadsKeeps DEF Refresh, StatusAllows, Labels
<1>6. CASE NoToken(c)
  BY <1>a, <1>6, AnswersKeeps DEF NoToken, locals, Replies
<1>7. CASE ReadOwn(c)
  <2>1. CASE Refuses(c)
    BY <1>7, <1>r, <2>1 DEF ReadOwn
  <2>2. ASSUME NEW allowed \in BOOLEAN, NEW next \in {"names", "profile", "writing"},
               Reads(c, c.by, allowed, next)
        PROVE  IInv'
    <3>1. c.kind # "suspend_account"
      BY <1>7 DEF ReadOwn, OwnKinds
    <3> QED BY <1>a, <1>7, <2>2, <3>1, ReadsKeeps DEF ReadOwn, Labels
  <2>3. (c.profile \in {"none", ProfileOf[c.by]} /\ (Renames(c) \/ c.profile # "none")) \in BOOLEAN
        /\ Unlocked(c) \in BOOLEAN
    BY DEF Renames, Unlocked
  <2> QED BY <1>7, <2>1, <2>2, <2>3 DEF ReadOwn
<1>8. CASE Verify(c)
  <2>1. CASE \E r \in {"ok", "refused"} : Answers(c, r)
    BY <1>a, <1>8, <2>1, AnswersKeeps DEF Verify, locals, Replies
  <2>2. CASE Goes(c, "verified")
    BY <1>8, <2>2, GoesKeeps DEF Verify, Labels
  <2> QED BY <1>8, <2>1, <2>2 DEF Verify
<1>9. CASE FindUser(c)
  <2>1. CASE Refuses(c)
    BY <1>9, <1>r, <2>1 DEF FindUser
  <2>2. CASE Answers(c, "ok") /\ UNCHANGED <<tables, now, locals>>
    BY <1>a, <1>9, <2>2, AnswersKeeps DEF FindUser, locals, Replies
  <2>3. ASSUME NEW a \in Named(c.name),
               Reads(c, a, ~(c.kind = "suspend_account" /\ row[a].status = "banned"), "writing")
        PROVE  IInv'
    <3>1. a \in People /\ c.kind \in Finders
      BY <1>a, <1>9, <2>3 DEF Named, FindUser, Finders
    <3> QED BY <1>9, <2>3, <3>1, ReadsKeeps DEF FindUser, Labels
  <2> QED BY <1>9, <2>1, <2>2, <2>3 DEF FindUser
<1>10. CASE GetList(c) \/ Search(c) \/ PublicSearch(c)
  <2>1. \A k \in ListKinds : Listed(ListOf[k]) \in SUBSET People
    BY <1>a DEF Listed
  <2>2. Alike(c.name) \subseteq SUBSET People
    BY <1>a DEF Alike
  <2> QED BY <1>10, <1>s, <2>1, <2>2 DEF GetList, Search, PublicSearch
<1>11. CASE GetAccountInfo(c) \/ GetPublicAccount(c)
  <2>1. CASE Refuses(c)
    BY <1>11, <1>r, <2>1 DEF GetAccountInfo, GetPublicAccount
  <2>2. ASSUME NEW a \in Named(c.name), NEW allowed \in BOOLEAN, Reads(c, a, allowed, "asking")
        PROVE  IInv'
    <3>1. a \in People /\ c.kind \in Finders
      BY <1>a, <1>11, <2>2 DEF Named, GetAccountInfo, GetPublicAccount, Finders
    <3> QED BY <1>11, <2>2, <3>1, ReadsKeeps DEF GetAccountInfo, GetPublicAccount, Labels
  <2> QED BY <1>11, <2>1, <2>2 DEF GetAccountInfo, GetPublicAccount
<1>12. CASE GetInfo(c) \/ ShowPublicAccount(c) \/ GetPlaces(c)
  <2>1. {c.by} \in SUBSET People /\ {who[c]} \in SUBSET People
    BY <1>a DEF IInv, TypeOK
  <2> QED BY <1>12, <1>r, <1>s, <2>1 DEF GetInfo, ShowPublicAccount, GetPlaces
<1>13. CASE ReadOwner(c)
  <2>1. c.kind \notin Finders /\ c.kind # "suspend_account"
    BY <1>13 DEF ReadOwner, Finders, MetaKinds
  <2> QED BY <1>a, <1>r, <1>13, <2>1, ReadsKeeps DEF ReadOwner, Labels
<1>14. CASE FindProfile(c)
  <2>1. Goes(c, "found") /\ Moves(c)
    BY <1>14, GoesTyped DEF FindProfile, IInv, Moves, Labels
  <2>2. snap' \in [Calls -> AccountRows]
    BY <1>a, <1>14 DEF FindProfile, IInv, TypeOK
  <2>3. TypeOK'
    BY <1>14, <2>1, <2>2, GoesTyped, LocalTyped DEF FindProfile, IInv, TypeOK, Labels, Replies
  <2>4. CallOK(c)'
    BY <1>14, <2>1, GoesTyped DEF FindProfile, IInv, CallsOK, CallOK, Labels
  <2> QED BY <1>14, <2>1, <2>3, <2>4, QuietKeeps DEF FindProfile
<1> QED BY <1>1, <1>2, <1>3, <1>4, <1>5, <1>6, <1>7, <1>8, <1>9, <1>10, <1>11, <1>12, <1>13,
           <1>14, Zenon DEF Reading

\* A call that writes its tables well and answers.
LEMMA WritesKeep ==
  ASSUME IInv, NEW c \in Calls, pc[c] # "done", UNCHANGED <<now, locals>>,
         NEW r \in Replies, Answers(c, r),
         accounts' \subseteq People, row' \in [People -> AccountRows],
         session' \in Sessions, places' \in [People -> SUBSET Places],
         RowsOK', SessionsChecked'
  PROVE  IInv'
<1>1. TypeOK'
  BY AnswersTyped DEF IInv, TypeOK, locals, Labels, Replies
<1>2. CallsOK'
  BY AnswersTyped DEF IInv, CallsOK, CallOK, locals
<1> QED BY <1>1, <1>2 DEF IInv

\* Answering leaves the other calls alone.
LEMMA AnswersMoves ==
  ASSUME IInv, NEW c \in Calls, pc[c] # "done", UNCHANGED locals,
         NEW r \in Replies, Answers(c, r)
  PROVE  Moves(c)
  BY AnswersTyped DEF IInv, Moves, locals

\* The writes of sessions.
LEMMA SessionKeeps ==
  ASSUME AccountsAssumption, IInv, NEW c \in Calls,
         SessionWrite(c)
  PROVE  IInv'
<1>a. /\ UNCHANGED <<accounts, row, places, now, locals>> /\ pc[c] # "done"
      /\ \E r \in Replies : Answers(c, r)
  BY DEF SessionWrite, SaveRefreshToken, LogOut, DropExpired, At, Replies
<1>b. who[c] \in People /\ c.by \in People /\ c.device \in Devices /\ now \in Nat /\ session \in Sessions
  BY DEF IInv, TypeOK, AccountsAssumption
<1>1. session' \in Sessions
  <2>1. CASE SaveRefreshToken(c)
    BY <1>b, <2>1 DEF SaveRefreshToken, Sessions
  <2>2. CASE LogOut(c)
    BY <1>b, <2>2 DEF LogOut, Sessions
  <2>3. CASE DropExpired(c)
    BY <1>b, <2>3 DEF DropExpired, Sessions
  <2> QED BY <2>1, <2>2, <2>3 DEF SessionWrite
<1>2. RowsOK'
  BY <1>a DEF IInv, RowsOK, RowOK
<1>3. SessionsChecked'
  <2>1. CASE SaveRefreshToken(c)
    <3> SUFFICES ASSUME NEW a \in accounts', NEW d \in Devices,
                        row'[a].deletedBy # Nobody, session'[a][d] # 0
                 PROVE  \E e \in Calls :
                          /\ e.kind \in {"log_in", "refresh", "add_account"} /\ reply'[e] = "ok"
                          /\ who'[e] = a /\ e.device = d
                          /\ saw'[e].status \notin {"banned", "suspended"}
      BY DEF SessionsChecked
    <3>1. /\ c.kind \in {"log_in", "refresh", "add_account"}
          /\ saw[c].status \notin {"banned", "suspended"}
      BY <2>1 DEF SaveRefreshToken, IInv, CallsOK, CallOK
    <3>2. CASE a = who[c] /\ d = c.device
      <4>1. reply'[c] = "ok"
        BY <2>1, AnswersTyped DEF SaveRefreshToken, IInv, Replies
      <4> QED BY <1>a, <3>1, <3>2, <4>1 DEF locals
    <3>3. CASE ~(a = who[c] /\ d = c.device)
      <4>1. session'[a][d] = session[a][d] /\ a \in accounts /\ row[a].deletedBy # Nobody
        BY <1>a, <1>b, <2>1, <3>3 DEF SaveRefreshToken, Sessions, IInv, TypeOK
      <4>2. PICK e \in Calls :
              /\ e.kind \in {"log_in", "refresh", "add_account"} /\ reply[e] = "ok"
              /\ who[e] = a /\ e.device = d
              /\ saw[e].status \notin {"banned", "suspended"}
        BY <4>1 DEF IInv, SessionsChecked
      <4>3. e # c /\ Moves(c)
        BY <1>a, <4>2, AnswersMoves DEF IInv, CallsOK, CallOK
      <4> QED BY <4>2, <4>3 DEF Moves
    <3> QED BY <3>2, <3>3
  <2>2. CASE LogOut(c) \/ DropExpired(c)
    <3>1. \A a \in People, d \in Devices : session'[a][d] # 0 => session[a][d] # 0
      <4>1. CASE LogOut(c)
        BY <1>b, <4>1 DEF LogOut, Sessions
      <4>2. CASE DropExpired(c)
        BY <1>b, <4>2 DEF DropExpired, Sessions
      <4> QED BY <2>2, <4>1, <4>2
    <3>2. Moves(c)
      BY <1>a, AnswersMoves
    <3> QED BY <1>a, <3>1, <3>2, SessionsKept DEF IInv, TypeOK
  <2> QED BY <2>1, <2>2 DEF SessionWrite
<1> QED BY <1>a, <1>1, <1>2, <1>3, WritesKeep DEF IInv, TypeOK

\* The writes of an account to its own row: only what the trigger derives from
\* the phone needs care.
LEMMA OwnKeeps ==
  ASSUME AccountsAssumption, IInv, NEW c \in Calls,
         OwnWrite(c)
  PROVE  IInv'
<1> USE DEF At, Columns
<1>a. /\ c.by \in People /\ row[c.by] \in AccountRows
      /\ saw[c] \in AccountRows /\ snap[c] \in AccountRows
      /\ c.email \in Nat /\ c.username \in Nat /\ c.phone \in Nat /\ c.value \in Nat
      /\ NewEmail(c) \in Nat /\ NewUsername(c) \in Nat
      /\ accounts \subseteq People /\ got \in [Calls -> SUBSET People]
  BY DEF IInv, TypeOK, AccountsAssumption, NewEmail, NewUsername, AccountRows
<1>r. ASSUME Refuses(c), pc[c] # "done" PROVE IInv'
  BY <1>a, <1>r, AnswersKeeps DEF Refuses, locals, Replies
<1>w. ASSUME pc[c] # "done", Answers(c, "ok"), UNCHANGED <<accounts, session, places, now, locals>>,
             NEW new \in AccountRows, row' = [row EXCEPT ![c.by] = new],
             new.status = row[c.by].status, new.deletedBy = row[c.by].deletedBy,
             c.by \in accounts /\ ProfileOf[c.by] = "user" =>
               (new.role = "user-seller" <=> new.phone # 0)
      PROVE  IInv'
  <2>1. row' \in [People -> AccountRows]
        /\ \A a \in People : row'[a] = IF a = c.by THEN new ELSE row[a]
    BY <1>a, <1>w DEF IInv, TypeOK
  <2>2. RowsOK'
    BY <1>a, <1>w, <2>1 DEF IInv, RowsOK, RowOK
  <2>3. SessionsChecked'
    <3>1. Moves(c)
      BY <1>w, AnswersMoves DEF Replies
    <3> QED BY <1>a, <1>w, <2>1, <3>1, SessionsKept
  <2> QED BY <1>a, <1>w, <2>1, <2>2, <2>3, WritesKeep DEF IInv, TypeOK, Replies
<1>k. c.by \in accounts /\ ProfileOf[c.by] = "user" =>
        (row[c.by].role = "user-seller" <=> row[c.by].phone # 0)
  BY DEF IInv, RowsOK, RowOK
<1>1. CASE UpdateNames(c)
  <2>1. CASE Refuses(c)
    BY <1>1, <1>r, <2>1 DEF UpdateNames
  <2>2. CASE ~Refuses(c)
    <3> DEFINE new == [row[c.by] EXCEPT !.email = NewEmail(c), !.username = NewUsername(c)]
    <3>1. row' = [row EXCEPT ![c.by] = new] /\ Answers(c, "ok")
          /\ UNCHANGED <<accounts, session, places, now, locals>>
      BY <1>1, <2>2 DEF UpdateNames
    <3>2. new \in AccountRows
      BY <1>a DEF AccountRows
    <3>3. new.role = row[c.by].role /\ new.phone = row[c.by].phone
          /\ new.status = row[c.by].status /\ new.deletedBy = row[c.by].deletedBy
      BY <1>a DEF AccountRows
    <3> HIDE DEF new
    <3> QED BY <1>1, <1>k, <1>w, <3>1, <3>2, <3>3 DEF UpdateNames
  <2> QED BY <2>1, <2>2
<1>2. CASE UpdateProfile(c)
  <2>1. CASE Refuses(c)
    BY <1>2, <1>r, <2>1 DEF UpdateProfile
  <2>2. CASE ~Refuses(c)
    <3> DEFINE mine  == IF c.phone # 0 THEN c.phone ELSE saw[c].phone
               tel   == IF mine # snap[c].phone THEN mine ELSE row[c.by].phone
               cbu   == IF saw[c].cbu # snap[c].cbu THEN saw[c].cbu ELSE row[c.by].cbu
               new   == [row[c.by] EXCEPT !.phone = tel, !.cbu = cbu, !.role = RoleAfter(c.by, tel),
                           !.email = IF Renames(c) THEN NewEmail(c) ELSE row[c.by].email,
                           !.username = IF Renames(c) THEN NewUsername(c) ELSE row[c.by].username]
    <3>1. row' = [row EXCEPT ![c.by] = new] /\ Answers(c, "ok")
          /\ UNCHANGED <<accounts, session, places, now, locals>>
      BY <1>2, <2>2 DEF UpdateProfile
    <3>2. tel \in Nat /\ cbu \in Nat
      BY <1>a DEF AccountRows
    <3>3. RoleAfter(c.by, tel) \in Roles
      BY <1>a DEF RoleAfter, Roles, AccountRows
    <3>4. new \in AccountRows
      BY <1>a, <3>2, <3>3 DEF AccountRows
    <3>5. new.role = RoleAfter(c.by, tel) /\ new.phone = tel
          /\ new.status = row[c.by].status /\ new.deletedBy = row[c.by].deletedBy
      BY <1>a DEF AccountRows
    <3>6. c.by \in accounts /\ ProfileOf[c.by] = "user" => (new.role = "user-seller" <=> new.phone # 0)
      BY <1>k, <3>5 DEF RoleAfter
    <3> HIDE DEF new
    <3> QED BY <1>2, <1>w, <3>1, <3>4, <3>5, <3>6 DEF UpdateProfile
  <2> QED BY <2>1, <2>2
<1>3. CASE ChangePassword(c) \/ ChangeCbu(c)
  <2>1. PICK p, b \in Nat :
          row' = [row EXCEPT ![c.by] = [row[c.by] EXCEPT !.password = p, !.cbu = b]]
    <3>1. row[c.by] = [row[c.by] EXCEPT !.cbu = row[c.by].cbu]
          /\ row[c.by] = [row[c.by] EXCEPT !.password = row[c.by].password]
      BY <1>a DEF AccountRows
    <3>2. row[c.by].cbu \in Nat /\ row[c.by].password \in Nat
      BY <1>a DEF AccountRows
    <3>3. CASE ChangePassword(c)
      <4>1. row' = [row EXCEPT ![c.by] = [row[c.by] EXCEPT !.password = c.value, !.cbu = row[c.by].cbu]]
        BY <1>a, <3>3 DEF ChangePassword, AccountRows
      <4> QED BY <1>a, <3>2, <4>1
    <3>4. CASE ChangeCbu(c)
      <4> DEFINE b == IF ProfileOf[c.by] = "admin" THEN row[c.by].cbu ELSE c.value
      <4>1. row' = [row EXCEPT ![c.by] = [row[c.by] EXCEPT !.password = row[c.by].password, !.cbu = b]]
        BY <1>a, <3>4 DEF ChangeCbu, AccountRows
      <4> QED BY <1>a, <3>2, <4>1
    <3> QED BY <1>3, <3>3, <3>4
  <2> DEFINE new == [row[c.by] EXCEPT !.password = p, !.cbu = b]
  <2>2. new \in AccountRows /\ new.role = row[c.by].role /\ new.phone = row[c.by].phone
        /\ new.status = row[c.by].status /\ new.deletedBy = row[c.by].deletedBy
    BY <1>a DEF AccountRows
  <2>3. row' = [row EXCEPT ![c.by] = new]
    BY <2>1
  <2> HIDE DEF new
  <2> QED BY <1>3, <1>k, <1>w, <2>2, <2>3 DEF ChangePassword, ChangeCbu
<1> QED BY <1>1, <1>2, <1>3 DEF OwnWrite

\* The writes of meta: the two columns of a deletion go together, and whoever
\* leaves loses all sessions.
LEMMA MetaKeeps ==
  ASSUME AccountsAssumption, IInv, NEW c \in Calls, DeleteAccount(c) \/ SetStatus(c)
  PROVE  IInv'
<1> USE DEF At
<1>1. PICK a \in People, status \in Statuses, by \in People \cup {Nobody} :
        WriteMeta(a, status, by) /\ (status = "active" <=> by = Nobody)
  <2>1. c.by \in People /\ c.by # Nobody /\ who[c] \in People /\ Nobody \notin People
    BY DEF AccountsAssumption, IInv, TypeOK
  <2>2. CASE DeleteAccount(c)
    BY <2>1, <2>2 DEF DeleteAccount, Statuses
  <2>3. CASE SetStatus(c)
    <3>1. Given(c) \in Statuses
      BY DEF Given, Statuses
    <3> QED BY <2>1, <2>3, <3>1 DEF SetStatus
  <2> QED BY <2>2, <2>3
<1>2. Answers(c, "ok") /\ pc[c] # "done" /\ UNCHANGED <<accounts, places, now, locals>>
  BY <1>1 DEF DeleteAccount, SetStatus, WriteMeta
<1>3. row[a] \in AccountRows /\ session \in Sessions /\ accounts \subseteq People
  BY DEF IInv, TypeOK
<1>4. /\ row' \in [People -> AccountRows]
      /\ row'[a] = [row[a] EXCEPT !.status = status, !.deletedBy = by]
      /\ \A b \in People \ {a} : row'[b] = row[b]
  BY <1>1, <1>3 DEF WriteMeta, IInv, TypeOK, AccountRows
<1>5. row'[a].status = status /\ row'[a].deletedBy = by
      /\ row'[a].role = row[a].role /\ row'[a].phone = row[a].phone
  BY <1>3, <1>4 DEF AccountRows
<1>6. session' \in Sessions
  BY <1>1, <1>3 DEF WriteMeta, Sessions, NoSessions
<1>7. RowsOK'
  <2> SUFFICES ASSUME NEW b \in accounts PROVE RowOK(b)'
    BY <1>2 DEF RowsOK
  <2>1. RowOK(b) /\ b \in People
    BY <1>3 DEF IInv, RowsOK
  <2>2. CASE b = a
    BY <1>1, <1>5, <2>1, <2>2 DEF RowOK
  <2>3. CASE b # a
    BY <1>4, <2>1, <2>3 DEF RowOK
  <2> QED BY <2>2, <2>3
<1>8. SessionsChecked'
  <2>1. ASSUME NEW b \in accounts, NEW d \in Devices,
               row'[b].deletedBy # Nobody, session'[b][d] # 0
        PROVE  row[b].deletedBy # Nobody /\ session[b][d] # 0
    BY <1>1, <1>3, <1>4, <1>5, <2>1 DEF WriteMeta, Sessions, NoSessions
  <2>2. Moves(c)
    BY <1>2, AnswersMoves DEF Replies
  <2> QED BY <1>2, <2>1, <2>2, SessionsKept
<1> QED BY <1>2, <1>3, <1>4, <1>6, <1>7, <1>8, WritesKeep DEF IInv, TypeOK, Replies

\* Registrations: the row is as the triggers on insertion leave it.
LEMMA InsertKeeps ==
  ASSUME AccountsAssumption, IInv, NEW c \in Calls, AddAccount(c) \/ AddAdmin(c)
  PROVE  IInv'
<1> USE DEF At
<1>a. accounts \subseteq People /\ got \in [Calls -> SUBSET People]
      /\ c.by \in People /\ c.whom \in People
      /\ c.email \in Nat /\ c.username \in Nat /\ c.password \in Nat /\ c.phone \in Nat
  BY DEF IInv, TypeOK, AccountsAssumption, Columns
<1>1. CASE Refuses(c)
  BY <1>a, <1>1, AnswersKeeps DEF AddAccount, AddAdmin, Refuses, locals, Replies
<1>2. CASE ~Refuses(c)
  <2>1. PICK a \in People :
          /\ Insert(c, a) /\ a \notin accounts
          /\ \/ Goes(c, "store") /\ c.kind = "add_account" /\ a = c.by
             \/ Answers(c, "ok")
          /\ pc[c] # "done"
    BY <1>a, <1>2 DEF AddAccount, AddAdmin
  <2> DEFINE new == [email |-> c.email, username |-> c.username, password |-> c.password,
                     phone |-> c.phone, cbu |-> 0, role |-> FirstRole(a, c.phone),
                     status |-> "active", deletedBy |-> Nobody]
  <2>2. FirstRole(a, c.phone) \in Roles
        /\ (ProfileOf[a] = "user" => (FirstRole(a, c.phone) = "user-seller" <=> c.phone # 0))
    BY DEF FirstRole, Roles, Profiles, AccountsAssumption
  <2>3. new \in AccountRows /\ new.status = "active" /\ new.deletedBy = Nobody
        /\ new.role = FirstRole(a, c.phone) /\ new.phone = c.phone
    BY <1>a, <2>2 DEF AccountRows, Statuses, Columns
  <2>4. /\ accounts' = accounts \cup {a}
        /\ row' = [row EXCEPT ![a] = new] /\ saw' = [saw EXCEPT ![c] = new]
        /\ UNCHANGED <<session, places, now, who, snap, got>>
    BY <2>1 DEF Insert
  <2> HIDE DEF new
  <2>5. /\ row' \in [People -> AccountRows] /\ row'[a] = new
        /\ \A b \in People \ {a} : row'[b] = row[b]
        /\ saw' \in [Calls -> AccountRows] /\ saw'[c] = new
        /\ \A d \in Calls \ {c} : saw'[d] = saw[d]
    BY <2>3, <2>4 DEF IInv, TypeOK
  <2>6. /\ pc' \in [Calls -> Labels] /\ reply' \in [Calls -> Replies]
        /\ \A d \in Calls \ {c} : pc'[d] = pc[d] /\ reply'[d] = reply[d]
        /\ \/ pc'[c] = "store" /\ reply' = reply /\ c.kind = "add_account"
           \/ pc'[c] = "done"
    <3>1. CASE Goes(c, "store") /\ c.kind = "add_account"
      BY <3>1, GoesTyped DEF IInv, TypeOK, Labels, Replies
    <3>2. CASE Answers(c, "ok")
      BY <3>2, AnswersTyped DEF IInv, Replies
    <3> QED BY <2>1, <3>1, <3>2
  <2>7. Moves(c)
    BY <2>1, <2>4, <2>5, <2>6 DEF Moves
  <2>8. TypeOK'
    BY <1>a, <2>4, <2>5, <2>6 DEF IInv, TypeOK, Labels, Replies
  <2>9. CallsOK'
    <3>1. CallOK(c)'
      BY <2>1, <2>3, <2>4, <2>5, <2>6 DEF IInv, CallsOK, CallOK
    <3> QED BY <2>4, <2>7, <3>1 DEF IInv, CallsOK, CallOK, Moves
  <2>10. RowsOK'
    <3> SUFFICES ASSUME NEW b \in accounts' PROVE RowOK(b)'
      BY DEF RowsOK
    <3>1. CASE b = a
      BY <2>2, <2>3, <2>5, <3>1 DEF RowOK
    <3>2. CASE b # a
      <4>1. b \in accounts /\ row'[b] = row[b]
        BY <1>a, <2>4, <2>5, <3>2
      <4> QED BY <4>1 DEF IInv, RowsOK, RowOK
    <3> QED BY <3>1, <3>2
  <2>11. SessionsChecked'
    BY <1>a, <2>3, <2>4, <2>5, <2>7, SessionsKept
  <2> QED BY <2>8, <2>9, <2>10, <2>11 DEF IInv
<1> QED BY <1>1, <1>2

\* Stores and addresses.
LEMMA PlaceKeeps ==
  ASSUME AccountsAssumption, IInv, NEW c \in Calls, AddPlace(c) \/ DeletePlace(c)
  PROVE  IInv'
<1>1. /\ UNCHANGED <<accounts, row, session, now, locals>> /\ pc[c] # "done"
      /\ \E r \in Replies : Answers(c, r)
  BY DEF AddPlace, DeletePlace, At, Replies
<1>2. places' \in [People -> SUBSET Places]
  <2>1. [table |-> Table(c), id |-> c.id] \in Places /\ places \in [People -> SUBSET Places]
    BY DEF Table, Places, AccountsAssumption, IInv, TypeOK
  <2>2. CASE AddPlace(c)
    BY <2>1, <2>2 DEF AddPlace
  <2>3. CASE DeletePlace(c)
    BY <2>1, <2>3 DEF DeletePlace
  <2> QED BY <2>2, <2>3
<1>3. RowsOK' /\ SessionsChecked'
  <2>1. Moves(c)
    BY <1>1, AnswersMoves
  <2>2. SessionsChecked'
    BY <1>1, <2>1, SessionsKept
  <2> QED BY <1>1, <2>2 DEF IInv, RowsOK, RowOK
<1> QED BY <1>1, <1>2, <1>3, WritesKeep DEF IInv, TypeOK

\* Time only makes tokens older.
LEMMA TickKeeps == ASSUME AccountsAssumption, IInv, Tick PROVE IInv'
<1>1. TypeOK'
  BY DEF IInv, TypeOK, Tick, tables, locals
<1>2. CallsOK'
  <2> SUFFICES ASSUME NEW c \in Calls PROVE CallOK(c)'
    BY DEF CallsOK
  <2>1. c.value \in Nat /\ Life \in Nat /\ now \in Nat /\ now' = now + 1
    BY DEF AccountsAssumption, IInv, TypeOK, Tick
  <2> QED BY <2>1 DEF IInv, CallsOK, CallOK, Tick, tables, locals
<1>3. RowsOK' /\ SessionsChecked'
  BY DEF IInv, RowsOK, RowOK, SessionsChecked, Tick, tables, locals
<1> QED BY <1>1, <1>2, <1>3 DEF IInv

\* A step in which nothing changes.
LEMMA StutterKeeps == ASSUME IInv, UNCHANGED vars PROVE IInv'
  BY DEF IInv, TypeOK, CallsOK, CallOK, RowsOK, RowOK, SessionsChecked, vars, tables, locals

\* At first no call has found or answered anything.
LEMMA InitOK ==
  ASSUME AccountsAssumption, OldAssumption, NEW mix, Init(mix)
  PROVE  IInv
<1>1. \A c \in Calls : c.by \in People /\ OldRows[c.by] \in AccountRows
  BY DEF AccountsAssumption
<1>2. TypeOK
  BY <1>1 DEF Init, TypeOK, AccountsAssumption
<1>3. CallsOK
  BY DEF Init, CallsOK, CallOK
<1>4. RowsOK
  BY DEF Init, RowsOK, RowOK, OldAssumption
<1>5. SessionsChecked
  BY DEF Init, SessionsChecked, OldAssumption
<1> QED BY <1>2, <1>3, <1>4, <1>5 DEF IInv

\* The invariant holds of every behaviour.
THEOREM Invariance == Spec => []IInv
<1>1. (\E mix \in SUBSET Calls : Init(mix)) => IInv
  BY InitOK, AccountsAssumption, OldAssumption
<1>2. IInv /\ [Next]_vars => IInv'
  <2> SUFFICES ASSUME IInv, [Next]_vars PROVE IInv'
    OBVIOUS
  <2>1. ASSUME NEW c \in Calls, Step(c) PROVE IInv'
    BY <2>1, Steps, AccountsAssumption, ReadingKeeps, SessionKeeps, OwnKeeps, MetaKeeps,
       InsertKeeps, PlaceKeeps
  <2> QED BY <2>1, AccountsAssumption, TickKeeps, StutterKeeps DEF Next
<1> QED BY <1>1, <1>2, PTL DEF Spec

\* Types, for all instances.
THEOREM TypeCorrect == Spec => []TypeOK
  BY Invariance, PTL DEF IInv

\* Whatever is written back, a user sells if and only if a phone is known: the
\* trigger compares the columns of the very row that it changes the role of.
THEOREM RoleCorrect == Spec => []RoleMatchesPhone
<1>1. IInv => RoleMatchesPhone
  BY DEF IInv, RowsOK, RowOK, RoleMatchesPhone
<1> QED BY <1>1, Invariance, PTL

\* No account is ever missing in all four lists.
THEOREM ListsCorrect == Spec => []EveryoneListed
<1>1. IInv => EveryoneListed
  <2> SUFFICES ASSUME IInv PROVE EveryoneListed
    OBVIOUS
  <2>1. \A a \in accounts : row[a].status \in Statuses
    BY DEF IInv, TypeOK, AccountRows
  <2>2. \A a \in accounts : a \in Listed(row[a].status)
    BY DEF IInv, RowsOK, RowOK, Listed
  <2>3. \A s \in Statuses : Listed(s) \subseteq accounts
    BY DEF Listed
  <2> QED BY <2>1, <2>2, <2>3 DEF EveryoneListed
<1> QED BY <1>1, Invariance, PTL

\* A device of whoever left has a session only if some call of it was let in.
THEOREM SessionsCorrect == Spec => []SessionsChecked
  BY Invariance, PTL DEF IInv

\* Reading changes no table, and writing its own row leaves the status alone.
LEMMA ReadingLeaves == ASSUME NEW c \in Calls, Reading(c) PROVE UNCHANGED tables
  BY DEF Reading, Reads, Refuses, Shows, Resend, CallFails, LogIn, FindToken, Refresh, NoToken,
         ReadOwn, FindProfile, Verify, FindUser, GetList, Search, PublicSearch, GetAccountInfo,
         GetInfo, GetPublicAccount, ShowPublicAccount, GetPlaces, ReadOwner

\* A write of the own account changes neither sessions, places nor a status.
LEMMA OwnLeaves ==
  ASSUME TypeOK, NEW c \in Calls, OwnWrite(c)
  PROVE  /\ UNCHANGED <<session, places>>
         /\ \A a \in People : row'[a].status = row[a].status /\ row'[a].deletedBy = row[a].deletedBy
<1> USE DEF TypeOK, AccountRows
<1>1. CASE UpdateNames(c)
  BY <1>1 DEF UpdateNames, Refuses, tables
<1>2. CASE UpdateProfile(c)
  BY <1>2 DEF UpdateProfile, Refuses, tables
<1>3. CASE ChangePassword(c)
  BY <1>3 DEF ChangePassword
<1>4. CASE ChangeCbu(c)
  BY <1>4 DEF ChangeCbu
<1> QED BY <1>1, <1>2, <1>3, <1>4 DEF OwnWrite

\* A session changes by its own device, with the account or when it has expired.
THEOREM DevicesApart == Spec => OwnDeviceOnly
<1> DEFINE Mayb(a, d) ==
      \/ \E c \in Calls : pc'[c] = "done" /\ pc[c] # "done" /\ who[c] = a /\ c.device = d
      \/ row[a].deletedBy = Nobody /\ row'[a].deletedBy # Nobody
      \/ session'[a][d] = 0 /\ session[a][d] + Life < now
<1>1. ASSUME IInv, Next, NEW a \in People, NEW d \in Devices, session'[a][d] # session[a][d]
      PROVE  Mayb(a, d)
  <2>0. TypeOK /\ row \in [People -> AccountRows] /\ session \in [People -> [Devices -> Nat]]
    BY <1>1 DEF IInv, TypeOK, Sessions
  <2>1. ~Tick
    BY <1>1 DEF Tick, tables
  <2>2. PICK c \in Calls : Step(c)
    BY <1>1, <2>1 DEF Next
  <2>3. ~Reading(c) /\ ~AddPlace(c) /\ ~DeletePlace(c) /\ ~OwnWrite(c)
    BY <1>1, <2>0, ReadingLeaves, OwnLeaves DEF tables, AddPlace, DeletePlace
  <2>4. ~AddAccount(c) /\ ~AddAdmin(c)
    BY <1>1 DEF AddAccount, AddAdmin, Insert, Refuses, tables
  <2>5. CallOK(c)
    BY <1>1 DEF IInv, CallsOK
  <2>6. CASE DeleteAccount(c) \/ SetStatus(c)
    <3>1. PICK b, by, status : WriteMeta(b, status, by)
      BY <2>6 DEF DeleteAccount, SetStatus
    <3>2. row[b].deletedBy = Nobody /\ by # Nobody /\ b = a
      BY <1>1, <2>0, <3>1 DEF WriteMeta
    <3>3. row'[a].deletedBy = by
      BY <2>0, <3>1, <3>2 DEF WriteMeta, AccountRows
    <3> QED BY <3>2, <3>3
  <2>7. CASE SaveRefreshToken(c)
    <3>1. who[c] = a /\ c.device = d
      BY <1>1, <2>0, <2>7 DEF SaveRefreshToken, TypeOK
    <3>2. pc'[c] = "done" /\ pc[c] # "done"
      BY <2>0, <2>7, AnswersTyped DEF SaveRefreshToken, Replies
    <3> QED BY <3>1, <3>2
  <2>8. CASE LogOut(c)
    <3>1. c.by = a /\ c.device = d
      BY <1>1, <2>0, <2>8 DEF LogOut, Here
    <3>2. who[c] = c.by
      BY <2>5, <2>8 DEF CallOK, LogOut, At, Finders, MetaKinds
    <3>3. pc'[c] = "done" /\ pc[c] # "done"
      BY <2>0, <2>8, AnswersTyped DEF LogOut, At, Replies
    <3> QED BY <3>1, <3>2, <3>3
  <2>9. CASE DropExpired(c)
    <3>1. session'[a][d] = 0 /\ session[a][d] = c.value
      BY <1>1, <2>0, <2>9 DEF DropExpired
    <3>2. c.value + Life < now
      BY <2>5, <2>9 DEF CallOK, DropExpired
    <3> QED BY <3>1, <3>2
  <2> QED BY <2>2, <2>3, <2>4, <2>6, <2>7, <2>8, <2>9, Steps DEF SessionWrite
<1>2. IInv /\ [Next]_vars =>
        [\A a \in People, d \in Devices : session'[a][d] # session[a][d] => Mayb(a, d)]_vars
  BY <1>1
<1> QED BY <1>2, Invariance, PTL DEF Spec, OwnDeviceOnly

\* A store or an address changes hands by no call at all.
THEOREM PlacesCorrect == Spec => PlacesOfOwner
<1> DEFINE Owned(a) == \E c \in Calls : pc'[c] = "done" /\ pc[c] # "done" /\ c.by = a
<1>1. ASSUME IInv, Next, NEW a \in People, places'[a] # places[a]
      PROVE  Owned(a)
  <2>0. TypeOK /\ places \in [People -> SUBSET Places]
    BY <1>1 DEF IInv, TypeOK
  <2>1. ~Tick
    BY <1>1 DEF Tick, tables
  <2>2. PICK c \in Calls : Step(c)
    BY <1>1, <2>1 DEF Next
  <2>3. ~Reading(c) /\ ~OwnWrite(c) /\ ~SessionWrite(c) /\ ~DeleteAccount(c) /\ ~SetStatus(c)
    BY <1>1, <2>0, ReadingLeaves, OwnLeaves
       DEF tables, SessionWrite, SaveRefreshToken, LogOut, DropExpired, DeleteAccount, SetStatus,
           WriteMeta
  <2>4. ~AddAccount(c) /\ ~AddAdmin(c)
    BY <1>1 DEF AddAccount, AddAdmin, Insert, Refuses, tables
  <2>5. AddPlace(c) \/ DeletePlace(c)
    BY <2>2, <2>3, <2>4, Steps
  <2>6. c.by = a
    BY <1>1, <2>0, <2>5 DEF AddPlace, DeletePlace, Mine
  <2>7. pc'[c] = "done" /\ pc[c] # "done"
    BY <2>0, <2>5, AnswersTyped DEF AddPlace, DeletePlace, At, Replies
  <2> QED BY <2>6, <2>7
<1>2. IInv /\ [Next]_vars => [\A a \in People : places'[a] # places[a] => Owned(a)]_vars
  BY <1>1
<1> QED BY <1>2, Invariance, PTL DEF Spec, PlacesOfOwner
=============================================================================
