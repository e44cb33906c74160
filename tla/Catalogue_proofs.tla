--------------------------- MODULE Catalogue_proofs ----------------------------
(***************************************************************************)
(* What holds of all products, entries and requests: who may hold a lock   *)
(* of the cache and give it up, and that rating runs, which the same kind  *)
(* of lock keeps apart, never put an older rating back.                    *)
(***************************************************************************)
EXTENDS Catalogue, FiniteSetTheorems, TLAPS

Labels ==
  {"unsent", "later", "new", "checked", "written", "looking", "missed", "reading",
   "asking", "filling", "releasing", "done", "dead"}
Replies == {"none", "page", "ok", "nothing", "refused", "error"}

\* A write that has been checked is by who may make it.
Entitled(r) ==
  pc[r] = "checked" =>
    /\ r.kind \in {"ban_product", "unban_product"} => r.by \in Administrators
    /\ r.kind \in Writes \ {"create_product", "ban_product", "unban_product"} =>
         r.by = SellerOf[r.product]

RatingLock == [list |-> "rating", of |-> Nobody]
Running    == {"reading", "filling", "releasing"}

\* A rating run that is at work has the lock, which does not expire: a run asks
\* nobody.
RunLocked(r) ==
  r.kind = "calculate_rating" =>
    /\ pc[r] # "asking"
    /\ pc[r] \in Running => lock[RatingLock] = r

\* A rating is of reviewers of today, who are enough.
Valid(p, some) ==
  /\ some \subseteq Reviewers(p)
  /\ some # {} => Cardinality(Reviewers(p)) >= MinReviews

\* What a run is about to write is no less than what there is.
Newer(r) ==
  r.kind = "calculate_rating" /\ pc[r] = "filling" =>
    \A c \in saw[r] : rated[c.product] \subseteq c.rated /\ Valid(c.product, c.rated)

NoneRetracted == \A r \in Requests : r.kind = "delete_review" => pc[r] = "unsent"
RatedOK ==
  NoneRetracted =>
    /\ \A p \in Products : Valid(p, rated[p])
    /\ \A r \in Requests : Newer(r)

AllEntitled == \A r \in Requests : Entitled(r)
RunsLocked  == \A r \in Requests : RunLocked(r)

IInv == TypeOK /\ AllEntitled /\ LockedByWorker /\ RunsLocked /\ RatedOK

-----------------------------------------------------------------------------
(* Types.                                                                  *)

\* The fields of a request, from the assumption on the constant.
LEMMA RequestFields ==
  ASSUME NEW r \in Requests
  PROVE  /\ r.by \in Accounts /\ r.product \in Products /\ r.kind \in Kinds
         /\ r.kind \in {"create_review", "delete_review"} => r.by \in Authors
         /\ r # Nobody
  BY CatalogueAssumption

\* What a page shows of a product is a card.
LEMMA PagesTyped ==
  ASSUME TypeOK, NEW p \in Products
  PROVE  /\ \A some \in SUBSET Authors : Page(p, some) \in Cards
         /\ Card(p) \in Cards /\ Counted(p) \in Cards /\ Page(p, Reviewers(p)) \in Cards
         /\ \A some \in SUBSET Authors : [Counted(p) EXCEPT !.rated = some] \in Cards
<1>1. version[p] \in Nat /\ rated[p] \in SUBSET Authors
  BY DEF TypeOK
<1>2. Status(p) \in {"active", "unavailable", "deleted", "banned"}
  BY DEF Status
<1>3. \A some \in SUBSET Authors : Page(p, some) \in Cards
  BY <1>1, <1>2 DEF Page, Cards
<1>4. Reviewers(p) \in SUBSET Authors
  BY DEF Reviewers
<1>5. Counted(p) \in Cards /\ \A some \in SUBSET Authors : [Counted(p) EXCEPT !.rated = some] \in Cards
  BY DEF Counted, Cards
<1> QED BY <1>3, <1>4, <1>5 DEF Card

\* Every list the service answers with is a set of cards.
LEMMA ViewTyped ==
  ASSUME TypeOK
  PROVE  /\ \A e : View(e) \in SUBSET Cards
         /\ SearchProduct \in SUBSET Cards /\ BannedList \in SUBSET Cards
<1>1. made \subseteq Products /\ Listed \subseteq Products /\ OnSale \subseteq Products
  BY DEF TypeOK, Listed, OnSale
<1>2. Total \in SUBSET Cards /\ \A c : CategoryTotal(c) \in SUBSET Cards
  BY <1>1, PagesTyped DEF Total, CategoryTotal
<1>3. ProductList \in SUBSET Cards /\ Featured \in SUBSET Cards
      /\ \A c : ProductsByCategory(c) \in SUBSET Cards
  BY <1>1, PagesTyped DEF ProductList, Featured, ProductsByCategory
<1>4. \A s : MyProductList(s) \in SUBSET Cards /\ AccountProducts(s) \in SUBSET Cards
             /\ AccountReviews(s) \in SUBSET Cards
  BY <1>1, PagesTyped DEF MyProductList, AccountProducts, AccountReviews
<1>5. SearchProduct \in SUBSET Cards /\ BannedList \in SUBSET Cards
  BY <1>1, PagesTyped DEF SearchProduct, BannedList
<1>6. \A e : {Page(p, Reviewers(p)) : p \in made \cap {e.of}} \in SUBSET Cards
  BY <1>1, PagesTyped
<1> QED BY <1>2, <1>3, <1>4, <1>5, <1>6 DEF View

\* Going on to a step moves only the request that does.
LEMMA GoesTyped ==
  ASSUME TypeOK, NEW r \in Requests, NEW next \in Labels, Goes(r, next)
  PROVE  /\ pc' \in [Requests -> Labels] /\ told' \in [Requests -> Replies]
         /\ pc'[r] = next /\ \A q \in Requests \ {r} : pc'[q] = pc[q]
  BY DEF TypeOK, Goes, Labels, Replies

\* Answering ends only the request that answers.
LEMMA AnswersTyped ==
  ASSUME TypeOK, NEW r \in Requests, NEW reply \in Replies, Answers(r, reply)
  PROVE  /\ pc' \in [Requests -> Labels] /\ told' \in [Requests -> Replies]
         /\ pc'[r] = "done" /\ \A q \in Requests \ {r} : pc'[q] = pc[q]
  BY DEF TypeOK, Answers, Labels, Replies

\* A rating run that ends goes on to give its lock back.
LEMMA EndsTyped ==
  ASSUME TypeOK, NEW r \in Requests, NEW reply \in Replies, Ends(r, reply)
  PROVE  /\ pc' \in [Requests -> Labels] /\ told' \in [Requests -> Replies]
         /\ pc'[r] = "releasing" /\ \A q \in Requests \ {r} : pc'[q] = pc[q]
  BY DEF TypeOK, Ends, Labels, Replies

-----------------------------------------------------------------------------
(* Steps of a request that leave the locks alone.                          *)

Held == AtWork \cup {"dead"}

\* What such a step may do to where the request is, and to what the others are.
Moves(r) ==
  /\ pc' \in [Requests -> Labels] /\ told' \in [Requests -> Replies]
  /\ \A q \in Requests \ {r} : pc'[q] = pc[q] /\ saw'[q] = saw[q]
  /\ pc[r] # "unsent" /\ pc'[r] # "unsent"
  /\ pc[r] \in Held => pc'[r] \in Held
  /\ r.kind = "calculate_rating" =>
       /\ pc'[r] # "asking"
       /\ pc'[r] \in Running => pc[r] \in Running

\* The locks are as they were, and who has one works on.
LEMMA LocksKept ==
  ASSUME IInv, NEW r \in Requests, Moves(r), UNCHANGED lock, Entitled(r)'
  PROVE  AllEntitled' /\ LockedByWorker' /\ RunsLocked'
<1>1. AllEntitled'
  BY DEF IInv, AllEntitled, Entitled, Moves
<1>2. LockedByWorker'
  BY DEF IInv, LockedByWorker, Moves, Held, TypeOK, EntryOf
<1>3. RunsLocked'
  BY DEF IInv, RunsLocked, RunLocked, Moves
<1> QED BY <1>1, <1>2, <1>3

\* A step sends no deletion of a review: with none after it, there was none before.
LEMMA RetractedBefore ==
  ASSUME NEW r \in Requests, Moves(r), NoneRetracted'
  PROVE  NoneRetracted
  BY DEF NoneRetracted, Moves

\* Ratings and reviews stay, and no run begins to write.
LEMMA RatedKept ==
  ASSUME IInv, NEW r \in Requests, Moves(r), UNCHANGED <<rated, reviews>>, Newer(r)'
  PROVE  RatedOK'
<1>1. \A p \in Products : \A some : Valid(p, some)' <=> Valid(p, some)
  BY DEF Valid, Reviewers
<1>2. SUFFICES ASSUME NoneRetracted'
               PROVE  /\ \A p \in Products : Valid(p, rated[p])'
                      /\ \A q \in Requests : Newer(q)'
  BY DEF RatedOK
<1>3. /\ \A p \in Products : Valid(p, rated[p])
      /\ \A q \in Requests : Newer(q)
  BY <1>2, RetractedBefore DEF IInv, RatedOK
<1>4. \A q \in Requests \ {r} : Newer(q)'
  BY <1>3 DEF Newer, Moves, Valid, Reviewers
<1>5. \A p \in Products : Valid(p, rated[p])'
  BY <1>3 DEF Valid, Reviewers
<1> QED BY <1>4, <1>5

\* A step that neither writes a table nor has a run begin to write.
LEMMA MovesKeep ==
  ASSUME IInv, NEW r \in Requests, Moves(r), UNCHANGED <<tables, lock>>, Entitled(r)',
         cache' \in [Entries -> (SUBSET Cards) \cup {Nothing}],
         saw' \in [Requests -> SUBSET Cards],
         r.kind # "calculate_rating" \/ pc'[r] # "filling"
  PROVE  IInv'
<1>1. TypeOK'
  BY DEF IInv, TypeOK, tables, Moves, Labels, Replies
<1>2. Newer(r)'
  BY DEF Newer
<1> QED BY <1>1, <1>2, LocksKept, RatedKept DEF IInv, tables

\* Steps that write neither tables nor Redis.
LEMMA QuietKeeps ==
  ASSUME IInv, NEW r \in Requests,
         \/ Miss(r) \/ NoLock(r) \/ AskAccounts(r) \/ ReadFails(r) \/ RatingsFail(r)
         \/ CheckProduct(r) \/ WriteFails(r) \/ Crash(r) \/ RepeatStep(r)
  PROVE  IInv'
<1>1. TypeOK /\ RunLocked(r)
  BY DEF IInv, RunsLocked
<1>2. /\ UNCHANGED <<tables, cache, lock, saw>>
      /\ cache' \in [Entries -> (SUBSET Cards) \cup {Nothing}] /\ saw' \in [Requests -> SUBSET Cards]
  BY <1>1 DEF TypeOK, Miss, NoLock, AskAccounts, ReadFails, RatingsFail, CheckProduct, WriteFails,
       Crash, RepeatStep, RepeatRead, RepeatEdit, RepeatBan, RepeatReview, Repeats
<1>3. CASE Miss(r)
  <2>1. EntryOf(r).list = "account_products" => r.kind # "calculate_rating"
    BY DEF EntryOf
  <2>2. Moves(r) /\ pc'[r] \in {"reading", "missed"}
    BY <1>1, <1>2, <1>3, <2>1, GoesTyped
    DEF Miss, Looks, Moves, Held, AtWork, Labels, Running
  <2> QED BY <1>2, <2>2, MovesKeep DEF Entitled
<1>4. CASE NoLock(r)
  <2>1. Moves(r) /\ pc'[r] = "done"
    BY <1>1, <1>2, <1>4, AnswersTyped
    DEF NoLock, Locks, Moves, Held, AtWork, Replies, Running
  <2> QED BY <1>2, <2>1, MovesKeep DEF Entitled
<1>5. CASE AskAccounts(r)
  <2>1. Moves(r) /\ pc'[r] = "filling" /\ r.kind # "calculate_rating"
    BY <1>1, <1>2, <1>5, GoesTyped
    DEF AskAccounts, RunLocked, Moves, Held, AtWork, Labels, Running
  <2> QED BY <1>2, <2>1, MovesKeep DEF Entitled
<1>6. CASE ReadFails(r) \/ RatingsFail(r)
  <2>1. Moves(r) /\ pc'[r] = "releasing"
    BY <1>1, <1>2, <1>6, EndsTyped
    DEF ReadFails, RatingsFail, RunLocked, Moves, Held, AtWork, Replies, Running
  <2> QED BY <1>2, <2>1, MovesKeep DEF Entitled
<1>7. CASE CheckProduct(r)
  <2>1. Moves(r) /\ pc'[r] \in {"checked", "done"} /\ (pc'[r] = "checked" => Allowed(r))
    BY <1>1, <1>2, <1>7, GoesTyped, AnswersTyped
    DEF CheckProduct, Moves, Held, AtWork, Labels, Replies, Running
  <2>2. Entitled(r)'
    BY <1>7, <2>1 DEF Entitled, Allowed, CheckProduct, Writes
  <2> QED BY <1>2, <2>1, <2>2, MovesKeep
<1>8. CASE WriteFails(r)
  <2>1. Moves(r) /\ pc'[r] = "done"
    BY <1>1, <1>2, <1>8, AnswersTyped DEF WriteFails, Moves, Held, AtWork, Replies, Running
  <2> QED BY <1>2, <2>1, MovesKeep DEF Entitled
<1>9. CASE Crash(r)
  <2>1. Moves(r) /\ pc'[r] = "dead"
    BY <1>1, <1>2, <1>9, GoesTyped DEF Crash, Moves, Held, AtWork, Labels, Running
  <2> QED BY <1>2, <2>1, MovesKeep DEF Entitled
<1>10. CASE RepeatStep(r)
  <2>1. Repeats(r)
    BY <1>10 DEF RepeatStep, RepeatRead, RepeatEdit, RepeatBan, RepeatReview
  <2>2. Moves(r) /\ pc'[r] = "new"
    BY <1>1, <1>2, <2>1, GoesTyped DEF Repeats, Moves, Held, AtWork, Labels, Running
  <2> QED BY <1>2, <2>2, MovesKeep DEF Entitled
<1> QED BY <1>3, <1>4, <1>5, <1>6, <1>7, <1>8, <1>9, <1>10

\* Reads of Redis and of the tables change what the request saw, and no more.
LEMMA ReadKeeps ==
  ASSUME IInv, NEW r \in Requests, Hit(r) \/ Query(r) \/ ReadTables(r)
  PROVE  IInv'
<1>1. TypeOK
  BY DEF IInv
<1>2. /\ UNCHANGED <<tables, cache, lock>>
      /\ cache' \in [Entries -> (SUBSET Cards) \cup {Nothing}]
  BY <1>1 DEF TypeOK, Hit, Query, ReadTables
<1>3. CASE Hit(r)
  <2>1. Moves(r) /\ pc'[r] = "done"
    BY <1>1, <1>3, AnswersTyped DEF Hit, Looks, Moves, Held, AtWork, Replies, Running, TypeOK
  <2>2. EntryOf(r) \in Entries
    BY <1>3, RequestFields, CatalogueAssumption
    DEF Hit, Looks, Cached, EntryOf, Entries, Of, Categories, Sellers, Lists
  <2>3. saw' \in [Requests -> SUBSET Cards]
    BY <1>1, <1>3, <2>2 DEF Hit, TypeOK
  <2> QED BY <1>2, <2>1, <2>3, MovesKeep DEF Entitled
<1>4. CASE Query(r)
  <2>1. r.kind # "calculate_rating" /\ pc[r] = "reading"
    BY <1>4 DEF Query, Reads
  <2>2. Moves(r) /\ pc'[r] \in {"releasing", "asking", "filling"}
    BY <1>1, <1>4, <2>1, GoesTyped, EndsTyped
    DEF Query, Moves, Held, AtWork, Labels, Replies, TypeOK
  <2>3. saw' \in [Requests -> SUBSET Cards]
    BY <1>1, <1>4, ViewTyped DEF Query, TypeOK
  <2> QED BY <1>2, <2>1, <2>2, <2>3, MovesKeep DEF Entitled
<1>5. CASE ReadTables(r)
  <2>1. Moves(r) /\ pc'[r] = "done"
    BY <1>1, <1>5, AnswersTyped DEF ReadTables, Moves, Held, AtWork, Replies, Running, TypeOK
  <2>2. saw' \in [Requests -> SUBSET Cards]
    BY <1>1, <1>5, ViewTyped DEF ReadTables, TypeOK
  <2> QED BY <1>2, <2>1, <2>2, MovesKeep DEF Entitled
<1> QED BY <1>3, <1>4, <1>5

\* Writing and dropping a page touch Redis alone.
LEMMA CacheKeeps ==
  ASSUME IInv, NEW r \in Requests, FillPage(r) \/ Drop(r)
  PROVE  IInv'
<1>1. TypeOK
  BY DEF IInv
<1>2. UNCHANGED <<tables, lock, saw>> /\ saw' \in [Requests -> SUBSET Cards]
  BY <1>1 DEF TypeOK, FillPage, Drop
<1>3. cache' \in [Entries -> (SUBSET Cards) \cup {Nothing}]
  BY <1>1 DEF TypeOK, FillPage, Drop
<1>4. CASE FillPage(r)
  <2>1. Moves(r) /\ pc'[r] = "releasing"
    BY <1>1, <1>2, <1>4, EndsTyped DEF FillPage, Moves, Held, AtWork, Replies, Running
  <2> QED BY <1>2, <1>3, <2>1, MovesKeep DEF Entitled
<1>5. CASE Drop(r)
  <2>1. Moves(r) /\ pc'[r] \in {"looking", "done"}
    BY <1>1, <1>2, <1>5, GoesTyped, AnswersTyped
    DEF Drop, Moves, Held, AtWork, Labels, Replies, Running
  <2> QED BY <1>2, <1>3, <2>1, MovesKeep DEF Entitled
<1> QED BY <1>4, <1>5

-----------------------------------------------------------------------------
(* Locks.                                                                  *)

\* SET NX finds no lock: the run becomes the one that holds it.
LEMMA TakeKeeps ==
  ASSUME IInv, NEW r \in Requests, TakeLock(r)
  PROVE  IInv'
<1>1. TypeOK /\ LockedByWorker /\ RunsLocked
  BY DEF IInv
<1>2. /\ pc' \in [Requests -> Labels] /\ told' \in [Requests -> Replies]
      /\ pc'[r] = "reading" /\ \A q \in Requests \ {r} : pc'[q] = pc[q]
  BY <1>1, GoesTyped DEF TakeLock, Labels
<1>3. pc[r] \in {"missed", "new"} /\ lock[EntryOf(r)] = Nobody
      /\ lock' = [lock EXCEPT ![EntryOf(r)] = r] /\ UNCHANGED <<tables, cache, saw>>
  BY DEF TakeLock, Locks
<1>4. TypeOK'
  BY <1>1, <1>2, <1>3 DEF TypeOK, tables, Labels, Replies
<1>5. LockedByWorker'
  BY <1>1, <1>2, <1>3, RequestFields DEF LockedByWorker, AtWork, TypeOK, EntryOf
<1>6. RatingLock \in Entries
  BY DEF RatingLock, Entries, Of
<1>7. RunsLocked'
  <2> SUFFICES ASSUME NEW q \in Requests, q.kind = "calculate_rating"
               PROVE  pc'[q] # "asking" /\ (pc'[q] \in Running => lock'[RatingLock] = q)
    BY DEF RunsLocked, RunLocked
  <2>1. CASE q = r
    <3>1. EntryOf(r) = RatingLock
      BY <2>1 DEF EntryOf, RatingLock
    <3> QED BY <1>1, <1>2, <1>3, <1>6, <2>1, <3>1 DEF TypeOK
  <2>2. CASE q # r
    <3>1. pc[q] \in Running => lock[RatingLock] = q
      BY <1>1 DEF RunsLocked, RunLocked
    <3>2. pc[q] \in Running => EntryOf(r) # RatingLock
      BY <1>3, <3>1, RequestFields
    <3> QED BY <1>1, <1>2, <1>3, <2>2, <3>1, <3>2 DEF RunsLocked, RunLocked, TypeOK
  <2> QED BY <2>1, <2>2
<1>8. AllEntitled'
  BY <1>2 DEF IInv, AllEntitled, Entitled
<1>9. RatedOK'
  BY <1>2, <1>3 DEF IInv, RatedOK, NoneRetracted, Newer, Valid, Reviewers, tables
<1> QED BY <1>4, <1>5, <1>7, <1>8, <1>9 DEF IInv

\* A run gives its lock back, if it is still its own.
LEMMA ReleaseKeeps ==
  ASSUME IInv, NEW r \in Requests, Release(r)
  PROVE  IInv'
<1>1. TypeOK /\ LockedByWorker /\ RunsLocked
  BY DEF IInv
<1>2. /\ pc' \in [Requests -> Labels] /\ told' \in [Requests -> Replies]
      /\ pc[r] = "releasing"
      /\ pc'[r] = "done" /\ \A q \in Requests \ {r} : pc'[q] = pc[q]
  BY <1>1, GoesTyped DEF Release, Labels
<1>3. /\ lock' = [e \in Entries |-> IF e = EntryOf(r) /\ lock[e] = r THEN Nobody ELSE lock[e]]
      /\ UNCHANGED <<tables, cache, saw>>
  BY DEF Release
<1>4. TypeOK'
  BY <1>1, <1>2, <1>3 DEF TypeOK, tables, Labels, Replies
<1>5. \A e \in Entries : lock'[e] # Nobody => lock'[e] = lock[e] /\ lock[e] # r
  BY <1>1, <1>3 DEF LockedByWorker
<1>6. LockedByWorker'
  BY <1>1, <1>2, <1>5 DEF LockedByWorker, TypeOK, EntryOf
<1>7. RunsLocked'
  <2>1. RatingLock \in Entries
    BY DEF RatingLock, Entries, Of
  <2> QED BY <1>1, <1>2, <1>3, <2>1 DEF RunsLocked, RunLocked, Running
<1>8. AllEntitled'
  BY <1>2 DEF IInv, AllEntitled, Entitled
<1>9. RatedOK'
  BY <1>2, <1>3 DEF IInv, RatedOK, NoneRetracted, Newer, Valid, Reviewers, tables
<1> QED BY <1>4, <1>6, <1>7, <1>8, <1>9 DEF IInv

\* Entries and locks expire.
LEMMA TimeKeeps ==
  ASSUME IInv, NEW e \in Entries, Expire(e) \/ LockExpires(e)
  PROVE  IInv'
<1>1. TypeOK /\ LockedByWorker /\ RunsLocked
  BY DEF IInv
<1>2. UNCHANGED <<tables, pc, saw, told>>
  BY DEF Expire, LockExpires
<1>3. TypeOK'
  BY <1>1, <1>2 DEF TypeOK, tables, Expire, LockExpires
<1>4. \A f \in Entries : lock'[f] # Nobody => lock'[f] = lock[f]
  BY <1>1 DEF Expire, LockExpires, TypeOK
<1>5. LockedByWorker'
  BY <1>1, <1>2, <1>4 DEF LockedByWorker, EntryOf
<1>6. RunsLocked'
  <2> SUFFICES ASSUME NEW q \in Requests, q.kind = "calculate_rating", pc[q] \in Running
               PROVE  lock'[RatingLock] = q
    BY <1>1, <1>2 DEF RunsLocked, RunLocked
  <2>1. lock[RatingLock] = q /\ pc[q] \notin {"dead", "asking"}
    BY <1>1 DEF RunsLocked, RunLocked, Running
  <2>2. RatingLock \in Entries
    BY DEF RatingLock, Entries, Of
  <2> QED BY <1>1, <2>1, <2>2 DEF Expire, LockExpires, TypeOK
<1>7. AllEntitled'
  BY <1>2 DEF IInv, AllEntitled, Entitled
<1>8. RatedOK'
  BY <1>2 DEF IInv, RatedOK, NoneRetracted, Newer, Valid, Reviewers, tables
<1> QED BY <1>3, <1>5, <1>6, <1>7, <1>8 DEF IInv

-----------------------------------------------------------------------------
(* Rating runs.                                                            *)

\* A run reads the averages: of reviewers that it may yet write.
LEMMA SnapshotKeeps ==
  ASSUME IInv, NEW r \in Requests, SnapshotRatings(r)
  PROVE  IInv'
<1> DEFINE cards == {[Counted(p) EXCEPT !.rated = Average(p)] : p \in Listed}
<1>1. TypeOK /\ r.kind = "calculate_rating" /\ pc[r] = "reading"
  BY DEF IInv, SnapshotRatings
<1>2. saw' = [saw EXCEPT ![r] = cards] /\ UNCHANGED <<tables, cache, lock>>
  BY DEF SnapshotRatings
<1>3. Listed \subseteq Products /\ \A p \in Products : Average(p) \in SUBSET Authors
  BY <1>1 DEF Listed, TypeOK, Average, Reviewers
<1>4. cards \in SUBSET Cards
  BY <1>1, <1>3, PagesTyped
<1>5. \A c \in cards : \E p \in Products : c.product = p /\ c.rated = Average(p)
  BY <1>3 DEF Counted
<1> HIDE DEF cards
<1>6. Moves(r) /\ pc'[r] = "filling"
  BY <1>1, <1>2, GoesTyped
  DEF SnapshotRatings, Moves, Held, AtWork, Labels, Running, TypeOK
<1>7. saw'[r] = cards /\ TypeOK'
  BY <1>1, <1>2, <1>4, <1>6 DEF TypeOK, tables, Moves, Labels, Replies
<1>8. ASSUME NoneRetracted', NEW p \in Products
      PROVE  rated[p] \subseteq Average(p) /\ Valid(p, Average(p))
  <2>1. Valid(p, rated[p])
    BY <1>6, <1>8, RetractedBefore DEF IInv, RatedOK
  <2>2. CASE Cardinality(Reviewers(p)) < MinReviews
    <3>1. ~(Cardinality(Reviewers(p)) >= MinReviews)
      <4>1. Cardinality(Reviewers(p)) \in Nat
        BY CatalogueAssumption, FS_Subset, FS_CardinalityType DEF Reviewers
      <4> QED BY <2>2, <4>1, CatalogueAssumption
    <3> QED BY <2>1, <2>2, <3>1 DEF Average, Valid
  <2>3. CASE ~(Cardinality(Reviewers(p)) < MinReviews)
    <3>1. Cardinality(Reviewers(p)) >= MinReviews
      <4>1. Cardinality(Reviewers(p)) \in Nat
        BY CatalogueAssumption, FS_Subset, FS_CardinalityType DEF Reviewers
      <4> QED BY <2>3, <4>1, CatalogueAssumption
    <3> QED BY <2>1, <2>3, <3>1 DEF Average, Valid
  <2> QED BY <2>2, <2>3
<1>9. RatedOK'
  <2> SUFFICES ASSUME NoneRetracted'
               PROVE  /\ \A p \in Products : Valid(p, rated[p])'
                      /\ \A q \in Requests : Newer(q)'
    BY DEF RatedOK
  <2>1. /\ \A p \in Products : Valid(p, rated[p])
        /\ \A q \in Requests : Newer(q)
    BY <1>6, RetractedBefore DEF IInv, RatedOK
  <2>2. \A p \in Products : Valid(p, rated[p])'
    BY <1>2, <2>1 DEF tables, Valid, Reviewers
  <2>3. \A q \in Requests \ {r} : Newer(q)'
    BY <1>2, <1>6, <2>1 DEF tables, Newer, Moves, Valid, Reviewers
  <2>4. Newer(r)'
    <3>1. \A c \in cards : rated[c.product] \subseteq c.rated /\ Valid(c.product, c.rated)
      BY <1>5, <1>8
    <3> QED BY <1>2, <1>7, <3>1 DEF tables, Newer, Valid, Reviewers
  <2> QED BY <2>2, <2>3, <2>4
<1>10. Entitled(r)'
  BY <1>6 DEF Entitled
<1> QED BY <1>2, <1>6, <1>7, <1>9, <1>10, LocksKept DEF IInv

\* The run that writes is the only one that has read.
LEMMA Written ==
  ASSUME IInv, NEW r \in Requests, WriteRatings(r), NoneRetracted
  PROVE  \A p \in Products : rated[p] \subseteq rated'[p] /\ Valid(p, rated'[p])
<1> SUFFICES ASSUME NEW p \in Products
             PROVE  rated[p] \subseteq rated'[p] /\ Valid(p, rated'[p])
  OBVIOUS
<1> DEFINE of == {c \in saw[r] : c.product = p}
<1>1. rated'[p] = IF of = {} THEN rated[p] ELSE UNION {c.rated : c \in of}
  BY DEF WriteRatings
<1>2. Valid(p, rated[p]) /\ Newer(r)
  BY DEF IInv, RatedOK
<1>3. \A c \in of : rated[p] \subseteq c.rated /\ Valid(p, c.rated)
  BY <1>2 DEF WriteRatings, Newer
<1> HIDE DEF of
<1>4. CASE of = {}
  BY <1>1, <1>2, <1>4
<1>5. CASE of # {}
  <2>1. rated'[p] = UNION {c.rated : c \in of}
    BY <1>1, <1>5
  <2>2. rated[p] \subseteq rated'[p]
    BY <1>3, <1>5, <2>1
  <2>3. rated'[p] \subseteq Reviewers(p)
    BY <1>3, <2>1 DEF Valid
  <2>4. ASSUME rated'[p] # {} PROVE Cardinality(Reviewers(p)) >= MinReviews
    <3>1. PICK c \in of : c.rated # {}
      BY <2>1, <2>4
    <3> QED BY <1>3, <3>1 DEF Valid
  <2> QED BY <2>2, <2>3, <2>4 DEF Valid
<1> QED BY <1>4, <1>5

\* A run writes what it read, when nobody retracts a review.
LEMMA WriteKeeps ==
  ASSUME IInv, NEW r \in Requests, WriteRatings(r)
  PROVE  IInv'
<1>1. TypeOK /\ r.kind = "calculate_rating" /\ pc[r] = "filling"
      /\ UNCHANGED <<made, deletedBy, inStock, version, reviews, cache, lock, saw>>
  BY DEF IInv, WriteRatings
<1>2. Moves(r) /\ pc'[r] = "releasing"
  BY <1>1, EndsTyped DEF WriteRatings, Moves, Held, AtWork, Replies, Running
<1>3. rated' \in [Products -> SUBSET Authors]
  <2>1. \A c \in saw[r] : c.rated \in SUBSET Authors
    BY <1>1 DEF TypeOK, Cards
  <2> QED BY <1>1, <2>1 DEF WriteRatings, TypeOK
<1>4. TypeOK'
  BY <1>1, <1>2, <1>3 DEF TypeOK, Moves, Labels, Replies
<1>5. \A q \in Requests : q.kind = "calculate_rating" /\ pc[q] = "filling" => q = r
  BY <1>1 DEF IInv, RunsLocked, RunLocked, Running
<1>6. RatedOK'
  <2> SUFFICES ASSUME NoneRetracted'
               PROVE  /\ \A p \in Products : Valid(p, rated[p])'
                      /\ \A q \in Requests : Newer(q)'
    BY DEF RatedOK
  <2>1. \A q \in Requests : Newer(q)'
    BY <1>2, <1>5 DEF Newer, Moves
  <2>2. \A p \in Products : Valid(p, rated'[p])
    BY <1>2, RetractedBefore, Written
  <2> QED BY <1>1, <2>1, <2>2 DEF Valid, Reviewers
<1>7. Entitled(r)'
  BY <1>2 DEF Entitled
<1> QED BY <1>1, <1>2, <1>4, <1>6, <1>7, LocksKept DEF IInv

-----------------------------------------------------------------------------
(* Requests that write.                                                    *)

\* What such a request leaves: the locks, and what all have read.
LEMMA TablesKeep ==
  ASSUME IInv, NEW r \in Requests, Moves(r), r.kind # "calculate_rating", Entitled(r)',
         UNCHANGED <<rated, reviews, cache, lock, saw>>,
         made' \subseteq Products,
         deletedBy' \in [Products -> Sellers \cup Administrators \cup {Nobody}],
         inStock' \in [Products -> BOOLEAN], version' \in [Products -> Nat]
  PROVE  IInv'
<1>1. TypeOK'
  BY DEF IInv, TypeOK, Moves, Labels, Replies
<1>2. Newer(r)'
  BY DEF Newer
<1> QED BY <1>1, <1>2, LocksKept, RatedKept DEF IInv

\* The commands that create, change, remove, ban, restore and trade products.
LEMMA EditKeeps ==
  ASSUME IInv, NEW r \in Requests,
         CreateProduct(r) \/ Update(r) \/ Remove(r) \/ Ban(r) \/ Restore(r) \/ Trade(r)
  PROVE  IInv'
<1>1. TypeOK /\ Entitled(r) /\ r.product \in Products
  BY RequestFields DEF IInv, AllEntitled
<1>2. CASE CreateProduct(r)
  <2>1. Moves(r) /\ pc'[r] = "looking" /\ r.kind # "calculate_rating"
    BY <1>1, <1>2, GoesTyped DEF CreateProduct, Moves, Held, AtWork, Labels, Running
  <2>2. made' \subseteq Products
    BY <1>1, <1>2 DEF CreateProduct, TypeOK
  <2> QED BY <1>1, <1>2, <2>1, <2>2, TablesKeep DEF CreateProduct, TypeOK, Entitled
<1>3. CASE Update(r)
  <2>1. Moves(r) /\ pc'[r] = "written" /\ r.kind # "calculate_rating"
    BY <1>1, <1>3, GoesTyped DEF Update, Commits, Moves, Held, AtWork, Labels, Running
  <2>2. version' \in [Products -> Nat] /\ inStock' \in [Products -> BOOLEAN]
    BY <1>1, <1>3 DEF Update, TypeOK
  <2> QED BY <1>1, <1>3, <2>1, <2>2, TablesKeep DEF Update, TypeOK, Entitled
<1>4. CASE Remove(r)
  <2>1. Moves(r) /\ pc'[r] = "written" /\ r.kind # "calculate_rating"
    BY <1>1, <1>4, GoesTyped DEF Remove, Commits, Moves, Held, AtWork, Labels, Running
  <2>2. r.by \in Sellers
    BY <1>1, <1>4 DEF Remove, Commits, Entitled, Writes, Sellers
  <2>3. /\ inStock' \in [Products -> BOOLEAN]
        /\ deletedBy' \in [Products -> Sellers \cup Administrators \cup {Nobody}]
    BY <1>1, <1>4, <2>2 DEF Remove, TypeOK
  <2> QED BY <1>1, <1>4, <2>1, <2>3, TablesKeep DEF Remove, TypeOK, Entitled
<1>5. CASE Ban(r)
  <2>1. Moves(r) /\ pc'[r] = "written" /\ r.kind # "calculate_rating"
    BY <1>1, <1>5, GoesTyped DEF Ban, Commits, Moves, Held, AtWork, Labels, Running
  <2>2. r.by \in Administrators
    BY <1>1, <1>5 DEF Ban, Commits, Entitled
  <2>3. deletedBy' \in [Products -> Sellers \cup Administrators \cup {Nobody}]
    BY <1>1, <1>5, <2>2 DEF Ban, TypeOK
  <2> QED BY <1>1, <1>5, <2>1, <2>3, TablesKeep DEF Ban, TypeOK, Entitled
<1>6. CASE Restore(r)
  <2>1. Moves(r) /\ pc'[r] = "written" /\ r.kind # "calculate_rating"
    BY <1>1, <1>6, GoesTyped DEF Restore, Commits, Moves, Held, AtWork, Labels, Running
  <2>2. deletedBy' \in [Products -> Sellers \cup Administrators \cup {Nobody}]
    BY <1>1, <1>6 DEF Restore, TypeOK
  <2> QED BY <1>1, <1>6, <2>1, <2>2, TablesKeep DEF Restore, TypeOK, Entitled
<1>7. CASE Trade(r)
  <2>1. Moves(r) /\ pc'[r] = "done" /\ r.kind # "calculate_rating"
    BY <1>1, <1>7, AnswersTyped DEF Trade, Moves, Held, AtWork, Replies, Running
  <2>2. version' \in [Products -> Nat]
    <3>1. \/ version' = version
          \/ version' = [version EXCEPT ![r.product] = version[r.product] + 1]
      BY <1>7 DEF Trade
    <3> QED BY <1>1, <3>1 DEF TypeOK
  <2>3. inStock' \in [Products -> BOOLEAN]
    <3>1. \/ inStock' = inStock
          \/ \E some \in BOOLEAN : inStock' = [inStock EXCEPT ![r.product] = some]
      BY <1>7 DEF Trade
    <3> QED BY <1>1, <3>1 DEF TypeOK
  <2> QED BY <1>1, <1>7, <2>1, <2>2, <2>3, TablesKeep DEF Trade, TypeOK, Entitled
<1> QED BY <1>2, <1>3, <1>4, <1>5, <1>6, <1>7

\* A review is written or deleted: the reviews change, and no rating does.
LEMMA ReviewKeeps ==
  ASSUME IInv, NEW r \in Requests, AddReview(r) \/ DeleteReview(r)
  PROVE  IInv'
<1>1. TypeOK /\ r.by \in Authors /\ r.product \in Products
  BY RequestFields DEF IInv, AddReview, DeleteReview
<1>2. UNCHANGED <<made, deletedBy, inStock, version, rated, cache, lock, saw>>
  BY DEF AddReview, DeleteReview
<1>3. Moves(r) /\ pc'[r] \in {"written", "done"} /\ r.kind # "calculate_rating"
  BY <1>1, GoesTyped, AnswersTyped
  DEF AddReview, DeleteReview, Moves, Held, AtWork, Labels, Replies, Running
<1>4. reviews' \subseteq Authors \X Products
  BY <1>1 DEF AddReview, DeleteReview, TypeOK
<1>5. TypeOK'
  BY <1>1, <1>2, <1>3, <1>4 DEF TypeOK, Moves, Labels, Replies
<1>6. Entitled(r)'
  BY <1>3 DEF Entitled
<1>7. RatedOK'
  <2> SUFFICES ASSUME NoneRetracted'
               PROVE  /\ \A p \in Products : Valid(p, rated[p])'
                      /\ \A q \in Requests : Newer(q)'
    BY DEF RatedOK
  <2>1. /\ \A p \in Products : Valid(p, rated[p])
        /\ \A q \in Requests : Newer(q)
    BY <1>3, RetractedBefore DEF IInv, RatedOK
  <2>2. reviews \subseteq reviews'
    BY <1>3 DEF NoneRetracted, Moves, AddReview, DeleteReview
  <2>3. ASSUME NEW p, NEW some, Valid(p, some) PROVE Valid(p, some)'
    <3>1. Reviewers(p) \subseteq Reviewers(p)' /\ Reviewers(p)' \subseteq Authors
      BY <2>2 DEF Reviewers
    <3>2. /\ Cardinality(Reviewers(p)) \in Nat /\ Cardinality(Reviewers(p)') \in Nat
          /\ Cardinality(Reviewers(p)) <= Cardinality(Reviewers(p)')
      BY <3>1, CatalogueAssumption, FS_Subset, FS_CardinalityType
    <3> HIDE DEF Reviewers
    <3>3. Cardinality(Reviewers(p))' = Cardinality(Reviewers(p)')
      OBVIOUS
    <3> QED BY <2>3, <3>1, <3>2, <3>3, CatalogueAssumption DEF Valid
  <2>4. \A p \in Products : Valid(p, rated[p])'
    BY <1>2, <2>1, <2>3
  <2>5. \A q \in Requests : Newer(q)'
    BY <1>2, <1>3, <2>1, <2>3 DEF Newer, Moves
  <2> QED BY <2>4, <2>5
<1> QED BY <1>2, <1>3, <1>5, <1>6, <1>7, LocksKept DEF IInv

-----------------------------------------------------------------------------

\* Every step keeps the invariant.
LEMMA Steps ==
  ASSUME IInv, [Next]_vars
  PROVE  IInv'
<1>1. CASE UNCHANGED vars
  <2>1. (TypeOK /\ AllEntitled /\ LockedByWorker /\ RunsLocked)'
    BY <1>1 DEF vars, IInv, TypeOK, AllEntitled, Entitled, LockedByWorker, RunsLocked, RunLocked
  <2>2. \A p : Reviewers(p)' = Reviewers(p)
    BY <1>1 DEF vars, Reviewers
  <2>3. ASSUME NEW p, NEW some, Valid(p, some) PROVE Valid(p, some)'
    <3> HIDE DEF Reviewers
    <3>1. Cardinality(Reviewers(p))' = Cardinality(Reviewers(p)')
      OBVIOUS
    <3> QED BY <2>2, <2>3, <3>1 DEF Valid
  <2>4. RatedOK'
    BY <1>1, <2>3 DEF vars, IInv, RatedOK, NoneRetracted, Newer
  <2> QED BY <2>1, <2>4 DEF IInv
<1>2. ASSUME NEW r \in Requests, Working(r) \/ Crash(r) PROVE IInv'
  <2>1. ASSUME ReadStep(r) PROVE IInv'
    BY <1>2, <2>1, QuietKeeps, ReadKeeps, CacheKeeps, TakeKeeps, ReleaseKeeps, SnapshotKeeps,
       WriteKeeps, Zenon
    DEF ReadStep
  <2>2. ASSUME WriteStep(r) PROVE IInv'
    BY <1>2, <2>2, QuietKeeps, CacheKeeps, EditKeeps, ReviewKeeps, Zenon DEF WriteStep
  <2> QED BY <1>2, <2>1, <2>2, QuietKeeps, Zenon DEF Working
<1> QED BY <1>1, <1>2, TimeKeeps, Zenon DEF Next, Timely

\* At first nothing is rated, nothing is locked and no run has read anything.
LEMMA InitOK ==
  ASSUME NEW mix, Init(mix)
  PROVE  IInv
<1>1. TypeOK
  BY CatalogueAssumption DEF Init, TypeOK, Entries, Sellers
<1>2. AllEntitled /\ LockedByWorker /\ RunsLocked
  BY DEF Init, AllEntitled, Entitled, LockedByWorker, RunsLocked, RunLocked, Running
<1>3. RatedOK
  BY DEF Init, RatedOK, Valid, Newer
<1> QED BY <1>1, <1>2, <1>3 DEF IInv

\* Whatever the requests, repetitions, failures and expiries: types, locks held
\* by who works under them, and ratings of today's reviewers.
THEOREM Invariance == Spec => []IInv
<1>1. (\E mix \in SUBSET Requests : Init(mix)) => IInv
  BY InitOK
<1> QED BY <1>1, Steps, PTL DEF Spec

\* What is cached and read are cards of products, and only accounts that may
\* delete or ban a product have.
THEOREM TypeCorrect == Spec => []TypeOK
<1>1. IInv => TypeOK
  BY DEF IInv
<1> QED BY <1>1, Invariance, PTL

\* A lock is held by a request at work on its entry, or by one cut off.
THEOREM LockedCorrect == Spec => []LockedByWorker
<1>1. IInv => LockedByWorker
  BY DEF IInv
<1> QED BY <1>1, Invariance, PTL

\* A lock is given up by its holder or by time, never by another request.
THEOREM OwnerCorrect == Spec => LockByOwner
<1> DEFINE GivenUp(e) ==
      lock[e] # Nobody /\ lock'[e] # lock[e] =>
        /\ lock'[e] = Nobody
        /\ \/ pc[lock[e]] \in {"dead", "asking"}
           \/ pc[lock[e]] = "releasing" /\ pc'[lock[e]] = "done"
<1>1. ASSUME IInv, [Next]_vars PROVE \A e \in Entries : GivenUp(e)
  <2> SUFFICES ASSUME NEW e \in Entries, lock[e] # Nobody, lock'[e] # lock[e]
               PROVE  GivenUp(e)
    OBVIOUS
  <2>1. TypeOK
    BY <1>1 DEF IInv
  <2>2. ~UNCHANGED lock
    OBVIOUS
  <2>3. ASSUME NEW r \in Requests, TakeLock(r) PROVE GivenUp(e)
    BY <2>1, <2>3 DEF TakeLock, TypeOK
  <2>4. ASSUME NEW r \in Requests, Release(r) PROVE GivenUp(e)
    <3>1. lock[e] = r /\ lock'[e] = Nobody /\ pc[r] = "releasing"
      BY <2>4 DEF Release
    <3>2. pc'[r] = "done"
      BY <2>1, <2>4, GoesTyped DEF Release, Labels
    <3> QED BY <3>1, <3>2
  <2>5. ASSUME NEW f \in Entries, LockExpires(f) PROVE GivenUp(e)
    BY <2>1, <2>5 DEF LockExpires, TypeOK
  <2> HIDE DEF GivenUp
  <2>6. ASSUME NEW r \in Requests, Working(r) \/ Crash(r) PROVE GivenUp(e)
    <3>1. CASE ReadStep(r)
      BY <2>2, <2>3, <2>4, <3>1
      DEF ReadStep, Hit, Miss, NoLock, Query, AskAccounts, FillPage, ReadFails, ReadTables,
          SnapshotRatings, WriteRatings, RatingsFail
    <3>2. CASE WriteStep(r)
      BY <2>2, <3>2
      DEF WriteStep, CheckProduct, CreateProduct, Update, Remove, Ban, Restore, Trade,
          AddReview, DeleteReview, Drop, WriteFails
    <3>3. CASE RepeatStep(r) \/ Crash(r)
      BY <2>2, <3>3 DEF RepeatStep, RepeatRead, RepeatEdit, RepeatBan, RepeatReview, Repeats, Crash
    <3> QED BY <2>6, <3>1, <3>2, <3>3 DEF Working
  <2>7. ASSUME NEW f \in Entries, Expire(f) PROVE GivenUp(e)
    BY <2>2, <2>7 DEF Expire
  <2>8. CASE UNCHANGED vars
    BY <2>2, <2>8 DEF vars
  <2> QED BY <1>1, <2>5, <2>6, <2>7, <2>8 DEF Next, Timely
<1> QED BY <1>1, Invariance, PTL DEF Spec, LockByOwner

\* While reviews are only added, no run takes a review out of a rating.
THEOREM RatingsCorrect == Spec => RatingsForward
<1>1. ASSUME IInv, [Next]_vars
      PROVE  NoneRetracted => \A p \in Products : rated[p] \subseteq rated'[p]
  <2>1. CASE UNCHANGED rated
    BY <2>1
  <2>2. ASSUME NEW r \in Requests, WriteRatings(r), NoneRetracted
        PROVE  \A p \in Products : rated[p] \subseteq rated'[p]
    BY <1>1, <2>2, Written
  <2>3. ASSUME NEW r \in Requests, Working(r) \/ Crash(r)
        PROVE  UNCHANGED rated \/ WriteRatings(r)
    <3>1. CASE ReadStep(r)
      BY <3>1
      DEF ReadStep, Hit, Miss, TakeLock, NoLock, Query, AskAccounts, FillPage, ReadFails, Release,
          ReadTables, SnapshotRatings, RatingsFail, tables
    <3>2. CASE WriteStep(r)
      BY <3>2
      DEF WriteStep, CheckProduct, CreateProduct, Update, Remove, Ban, Restore, Trade,
          AddReview, DeleteReview, Drop, WriteFails, tables
    <3>3. CASE RepeatStep(r) \/ Crash(r)
      BY <3>3
      DEF RepeatStep, RepeatRead, RepeatEdit, RepeatBan, RepeatReview, Repeats, Crash, tables
    <3> QED BY <2>3, <3>1, <3>2, <3>3 DEF Working
  <2>4. ASSUME NEW e \in Entries, Expire(e) \/ LockExpires(e) PROVE UNCHANGED rated
    BY <2>4 DEF Expire, LockExpires, tables
  <2>5. CASE UNCHANGED vars
    BY <2>5 DEF vars
  <2> QED BY <1>1, <2>1, <2>2, <2>3, <2>4, <2>5 DEF Next, Timely
<1> QED BY <1>1, Invariance, PTL DEF Spec, RatingsForward, NoneRetracted
=============================================================================
