------------------------------- MODULE Catalogue -------------------------------
(***************************************************************************)
(* The pages and lists of the product service, cached in Redis for 30 s,   *)
(* while products are made, edited, delisted, sold, reviewed and rated.    *)
(*                                                                         *)
(* A reader that misses the cache takes the entry's lock (SET NX EX 100),  *)
(* queries the tables, fills the entry and releases the lock; one that     *)
(* does not get the lock answers nothing.  An edit drops some entries once *)
(* it has committed.  A product looks like how often it was written:       *)
(* ProductStock has what the edits and the purchases write.                *)
(***************************************************************************)
EXTENDS Naturals, FiniteSets

CONSTANTS
  Products,
  SellerOf,       \* SellerOf[p]: the account that sells it
  CategoryOf,     \* CategoryOf[p]: the slug of its category
  Administrators, \* the accounts that is_admin accepts
  Authors,        \* the accounts that write reviews
  Tens,           \* the authors whose ratings are 10, the highest
  Requests,       \* messages: [id, kind, by, product, list, again]
  MinReviews,     \* MIN_REVIEWS of calculateRating
  Nobody,         \* no account, no request
  Nothing         \* no entry

Writes == {"create_product", "update_product", "update_field", "delete_product",
           "restore_product", "ban_product", "unban_product"}
Kinds  == {"get", "create_review", "delete_review", "calculate_rating",
           "reserve", "restore_stock"} \cup Writes

Sellers    == {SellerOf[p] : p \in Products}
Categories == {CategoryOf[p] : p \in Products}
Accounts   == Sellers \cup Authors \cup Administrators

\* The entries of Redis: of all products, a category, an account or a product.
\* Only the first page of a list is told apart.  "rating" has a lock alone.
Of(lists, whose) == [list : lists, of : whose]
Entries ==
  Of({"total", "products", "featured", "rating"}, {Nobody})
  \cup Of({"category_total", "category"}, Categories)
  \cup Of({"my_products", "account_products", "my_reviews"}, Sellers \cup Authors)
  \cup Of({"product"}, Products)

Lists == {"total", "products", "featured", "category_total", "category", "my_products",
          "account_products", "my_reviews", "product", "search", "banned_list"}

ASSUME CatalogueAssumption ==
  /\ Nobody \notin Products \cup Accounts \cup Requests
  /\ Administrators \cap (Sellers \cup Authors) = {}
  /\ MinReviews \in Nat /\ Tens \subseteq Authors /\ IsFiniteSet(Authors)
  /\ Requests \subseteq
       [id : Nat \ {0}, kind : Kinds, by : Accounts, product : Products,
        list : Lists, again : Nat]
  /\ \A r \in Requests :
       /\ r.list \in {"my_products", "my_reviews"} => r.by \in Sellers \cup Authors
       /\ r.kind \in {"create_review", "delete_review"} => r.by \in Authors
       /\ r.kind = "create_product" => r.by = SellerOf[r.product]

VARIABLES
  made,       \* the products there are
  deletedBy,  \* meta.deleted_by
  inStock,    \* stock > 0
  version,    \* how often each was written
  reviews,    \* the <<account, product>> keys of the review rows
  rated,      \* the reviewers whose ratings rating_avg is the average of
  cache,      \* the entries
  lock,       \* the request whose token is in lock:<entry>
  pc,         \* what each request does next
  saw,        \* what it read
  told        \* what it answers

vars == <<made, deletedBy, inStock, version, reviews, rated, cache, lock, pc, saw, told>>
tables == <<made, deletedBy, inStock, version, reviews, rated>>

\* A product as a page or a list shows it.
Cards == [product : Products, version : Nat, rated : SUBSET Authors,
          status : {"active", "unavailable", "deleted", "banned"}, reviews : SUBSET Authors]

TypeOK ==
  /\ made \subseteq Products
  /\ deletedBy \in [Products -> Sellers \cup Administrators \cup {Nobody}]
  /\ inStock \in [Products -> BOOLEAN]
  /\ version \in [Products -> Nat]
  /\ reviews \subseteq Authors \X Products
  /\ rated \in [Products -> SUBSET Authors]
  /\ cache \in [Entries -> (SUBSET Cards) \cup {Nothing}]
  /\ lock \in [Entries -> Requests \cup {Nobody}]
  /\ pc \in [Requests ->
       {"unsent", "later", "new", "checked", "written", "looking", "missed", "reading",
        "asking", "filling", "releasing", "done", "dead"}]
  /\ saw \in [Requests -> SUBSET Cards]
  /\ told \in [Requests -> {"none", "page", "ok", "nothing", "refused", "error"}]

\* The requests of mix are on their way, repetitions later.  There are the
\* products that none of them makes, in stock, and nothing in Redis.
Init(mix) ==
  /\ made = Products \ {r.product : r \in {q \in mix : q.kind = "create_product"}}
  /\ deletedBy = [p \in Products |-> Nobody]
  /\ inStock = [p \in Products |-> TRUE]
  /\ version = [p \in Products |-> 0]
  /\ reviews = {}
  /\ rated = [p \in Products |-> {}]
  /\ cache = [e \in Entries |-> Nothing]
  /\ lock = [e \in Entries |-> Nobody]
  /\ pc = [r \in Requests |-> IF r \notin mix THEN "unsent"
                               ELSE IF r.again = 0 THEN "new" ELSE "later"]
  /\ saw = [r \in Requests |-> {}]
  /\ told = [r \in Requests |-> "none"]

Goes(r, next) ==
  /\ pc' = [pc EXCEPT ![r] = next]
  /\ UNCHANGED told

Answers(r, reply) ==
  /\ pc' = [pc EXCEPT ![r] = "done"]
  /\ told' = [told EXCEPT ![r] = reply]

-----------------------------------------------------------------------------
(* What the queries return.                                                *)

Listed == {p \in made : deletedBy[p] = Nobody}
OnSale == {p \in Listed : inStock[p]}

Status(p) ==
  IF deletedBy[p] = SellerOf[p] THEN "deleted"
  ELSE IF deletedBy[p] # Nobody THEN "banned"
  ELSE IF inStock[p] THEN "active" ELSE "unavailable"

Reviewers(p) == {a \in Authors : <<a, p>> \in reviews}

Page(p, reviewers) ==
  [product |-> p, version |-> version[p], rated |-> rated[p], status |-> Status(p),
   reviews |-> reviewers]
Card(p) == Page(p, {})

\* A count is kept as what is counted.
Counted(p) ==
  [product |-> p, version |-> 0, rated |-> {}, status |-> "active", reviews |-> {}]

\* The total of a category counts what is out of stock, too.
Total == {Counted(p) : p \in OnSale}
CategoryTotal(c) == {Counted(p) : p \in {q \in Listed : CategoryOf[q] = c}}

ProductList == {Card(p) : p \in OnSale}
Featured == {Card(p) : p \in OnSale}
ProductsByCategory(c) == {Card(p) : p \in {q \in OnSale : CategoryOf[q] = c}}

\* All products of the seller, deleted and banned ones included.
MyProductList(s) == {Card(p) : p \in {q \in made : SellerOf[q] = s}}

\* The condition's OR is not in parentheses: it brings along what any seller
\* has deleted.
AccountProducts(s) ==
  {Card(p) : p \in {q \in made : \/ SellerOf[q] = s /\ deletedBy[q] = Nobody
                                 \/ deletedBy[q] = SellerOf[q]}}

AccountReviews(a) == {Card(p) : p \in {q \in made : <<a, q>> \in reviews}}

SearchProduct == {Card(p) : p \in Listed}

BannedList == {Card(p) : p \in {q \in made : deletedBy[q] \notin {Nobody, SellerOf[q]}}}

View(e) ==
  IF e.list = "total" THEN Total
  ELSE IF e.list = "category_total" THEN CategoryTotal(e.of)
  ELSE IF e.list = "products" THEN ProductList
  ELSE IF e.list = "category" THEN ProductsByCategory(e.of)
  ELSE IF e.list = "featured" THEN Featured
  ELSE IF e.list = "my_products" THEN MyProductList(e.of)
  ELSE IF e.list = "account_products" THEN AccountProducts(e.of)
  ELSE IF e.list = "my_reviews" THEN AccountReviews(e.of)
  ELSE {Page(p, Reviewers(p)) : p \in made \cap {e.of}}

\* getProductById answers NOT_FOUND, or BANNED.
Withheld(e) ==
  e.list = "product" /\ (e.of \notin made \/ deletedBy[e.of] \notin {Nobody, SellerOf[e.of]})

-----------------------------------------------------------------------------
(* The cached reads.                                                       *)

\* Creations and whole updates answer with the product's page.
EntryOf(r) ==
  IF r.kind = "calculate_rating" THEN [list |-> "rating", of |-> Nobody]
  ELSE IF r.kind # "get" THEN [list |-> "product", of |-> r.product]
  ELSE [list |-> r.list,
        of |-> IF r.list \in {"total", "products", "featured"} THEN Nobody
               ELSE IF r.list \in {"category_total", "category"} THEN CategoryOf[r.product]
               ELSE IF r.list \in {"my_products", "my_reviews"} THEN r.by
               ELSE IF r.list = "account_products" THEN SellerOf[r.product]
               ELSE r.product]

Cached(r) == r.kind # "get" \/ r.list \notin {"search", "banned_list"}

Looks(r) == Cached(r) /\ (pc[r] = "looking" \/ (r.kind = "get" /\ pc[r] = "new"))

Hit(r) ==
  /\ Looks(r) /\ cache[EntryOf(r)] # Nothing
  /\ saw' = [saw EXCEPT ![r] = cache[EntryOf(r)]]
  /\ Answers(r, "page")
  /\ UNCHANGED <<tables, cache, lock>>

\* The list of another account's products is filled without a lock.
Miss(r) ==
  /\ Looks(r) /\ cache[EntryOf(r)] = Nothing
  /\ Goes(r, IF EntryOf(r).list = "account_products" THEN "reading" ELSE "missed")
  /\ UNCHANGED <<tables, cache, lock, saw>>

Locks(r) == pc[r] = "missed" \/ (r.kind = "calculate_rating" /\ pc[r] = "new")

\* Mutant of TakeLock: SET without NX.
TakeLockAnyway(r) ==
  /\ Locks(r)
  /\ lock' = [lock EXCEPT ![EntryOf(r)] = r]
  /\ Goes(r, "reading")
  /\ UNCHANGED <<tables, cache, saw>>

TakeLock(r) ==
  /\ Locks(r) /\ lock[EntryOf(r)] = Nobody
  /\ lock' = [lock EXCEPT ![EntryOf(r)] = r]
  /\ Goes(r, "reading")
  /\ UNCHANGED <<tables, cache, saw>>

\* The handler returns undefined, and the controller no answer at all;
\* createProduct expects one.
NoLock(r) ==
  /\ Locks(r) /\ lock[EntryOf(r)] # Nobody
  /\ Answers(r, IF r.kind = "create_product" THEN "error" ELSE "nothing")
  /\ UNCHANGED <<tables, cache, lock, saw>>

\* What the finally block is left to do.  createProduct answers with the id
\* when there is no page.
Ends(r, reply) ==
  /\ pc' = [pc EXCEPT ![r] = "releasing"]
  /\ told' = [told EXCEPT ![r] = IF r.kind = "create_product" THEN "ok" ELSE reply]

Reads(r) == r.kind # "calculate_rating" /\ pc[r] = "reading"

\* Mutant of Query: what is withheld is answered before the try.
QueryOutside(r) ==
  /\ Reads(r)
  /\ IF Withheld(EntryOf(r))
     THEN Answers(r, "refused") /\ UNCHANGED saw
     ELSE /\ saw' = [saw EXCEPT ![r] = View(EntryOf(r))]
          /\ Goes(r, IF EntryOf(r).list = "product" THEN "asking" ELSE "filling")
  /\ UNCHANGED <<tables, cache, lock>>

Query(r) ==
  /\ Reads(r)
  /\ IF Withheld(EntryOf(r))
     THEN Ends(r, "refused") /\ UNCHANGED saw
     ELSE /\ saw' = [saw EXCEPT ![r] = View(EntryOf(r))]
          /\ Goes(r, IF EntryOf(r).list = "product" THEN "asking" ELSE "filling")
  /\ UNCHANGED <<tables, cache, lock>>

\* A page asks the account service for its seller and reviewers.
AskAccounts(r) ==
  /\ pc[r] = "asking"
  /\ Goes(r, "filling")
  /\ UNCHANGED <<tables, cache, lock, saw>>

\* Some lists are not kept when they are empty.
Kept(r) == saw[r] # {} \/ EntryOf(r).list \notin {"my_products", "account_products", "my_reviews"}

\* SET .. EX 30; that it failed is not told.
FillPage(r) ==
  /\ r.kind # "calculate_rating" /\ pc[r] = "filling"
  /\ \/ UNCHANGED cache
     \/ Kept(r) /\ cache' = [cache EXCEPT ![EntryOf(r)] = saw[r]]
  /\ Ends(r, "page")
  /\ UNCHANGED <<tables, lock, saw>>

\* The database, or the account service.
ReadFails(r) ==
  /\ pc[r] \in {"reading", "asking"}
  /\ Ends(r, "error")
  /\ UNCHANGED <<tables, cache, lock, saw>>

\* Mutant of Release: whatever the token in the lock is.
ReleaseAny(r) ==
  /\ pc[r] = "releasing"
  /\ lock' = [lock EXCEPT ![EntryOf(r)] = Nobody]
  /\ Goes(r, "done")
  /\ UNCHANGED <<tables, cache, saw>>

\* The script deletes the lock if it still has the request's own token.
Release(r) ==
  /\ pc[r] = "releasing"
  /\ lock' = [e \in Entries |-> IF e = EntryOf(r) /\ lock[e] = r THEN Nobody ELSE lock[e]]
  /\ Goes(r, "done")
  /\ UNCHANGED <<tables, cache, saw>>

\* searchProduct and getBannedList go to the tables each time.
ReadTables(r) ==
  /\ r.kind = "get" /\ ~Cached(r) /\ pc[r] = "new"
  /\ IF r.list = "banned_list" /\ r.by \notin Administrators
     THEN Answers(r, "refused") /\ UNCHANGED saw
     ELSE /\ saw' = [saw EXCEPT ![r] = IF r.list = "search" THEN SearchProduct ELSE BannedList]
          /\ Answers(r, "page")
  /\ UNCHANGED <<tables, cache, lock>>

-----------------------------------------------------------------------------
(* The rating run: by cron in every replica, or an event.                  *)

\* Too few reviews give the default rating.
Average(p) == IF Cardinality(Reviewers(p)) < MinReviews THEN {} ELSE Reviewers(p)

\* CREATE TEMPORARY TABLE .. SELECT
SnapshotRatings(r) ==
  /\ r.kind = "calculate_rating" /\ pc[r] = "reading"
  /\ saw' = [saw EXCEPT ![r] = {[Counted(p) EXCEPT !.rated = Average(p)] : p \in Listed}]
  /\ Goes(r, "filling")
  /\ UNCHANGED <<tables, cache, lock>>

\* An average of 10 does not fit rating_avg, a DECIMAL(3,2).
OutOfRange(r) == \E c \in saw[r] : c.rated # {} /\ c.rated \subseteq Tens

\* UPDATE product .. INNER JOIN
WriteRatings(r) ==
  LET of(p) == {c \in saw[r] : c.product = p} IN
  /\ r.kind = "calculate_rating" /\ pc[r] = "filling" /\ ~OutOfRange(r)
  /\ rated' = [p \in Products |-> IF of(p) = {} THEN rated[p]
                                  ELSE UNION {c.rated : c \in of(p)}]
  /\ Ends(r, "ok")
  /\ UNCHANGED <<made, deletedBy, inStock, version, reviews, cache, lock, saw>>

RatingsFail(r) ==
  /\ r.kind = "calculate_rating" /\ pc[r] = "filling"
  /\ Ends(r, "error")
  /\ UNCHANGED <<tables, cache, lock, saw>>

-----------------------------------------------------------------------------
(* Requests that write.                                                    *)

\* As in ProductStock; a product can be reviewed unless it is delisted.
Allowed(r) ==
  /\ r.product \in made
  /\ IF r.kind \in {"ban_product", "unban_product"} THEN r.by \in Administrators
     ELSE IF r.kind = "create_review" THEN deletedBy[r.product] = Nobody
     ELSE /\ r.by = SellerOf[r.product]
          /\ deletedBy[r.product] = IF r.kind = "restore_product" THEN r.by ELSE Nobody

CheckProduct(r) ==
  /\ r.kind \in (Writes \ {"create_product"}) \cup {"create_review"} /\ pc[r] = "new"
  /\ IF Allowed(r) THEN Goes(r, "checked") ELSE Answers(r, "refused")
  /\ UNCHANGED <<tables, cache, lock, saw>>

\* One transaction; then its page is read.
CreateProduct(r) ==
  /\ r.kind = "create_product" /\ pc[r] = "new"
  /\ made' = made \cup {r.product}
  /\ Goes(r, "looking")
  /\ UNCHANGED <<deletedBy, inStock, version, reviews, rated, cache, lock, saw>>

Commits(r, kinds) == r.kind \in kinds /\ pc[r] = "checked" /\ Goes(r, "written")

\* updateStock, updatePrice, updateDiscount and updateProduct.
Update(r) ==
  /\ Commits(r, {"update_field", "update_product"})
  /\ version' = [version EXCEPT ![r.product] = version[r.product] + 1]
  /\ \E stocked \in BOOLEAN : inStock' = [inStock EXCEPT ![r.product] = stocked]
  /\ UNCHANGED <<made, deletedBy, reviews, rated, cache, lock, saw>>

Remove(r) ==
  /\ Commits(r, {"delete_product"})
  /\ inStock' = [inStock EXCEPT ![r.product] = FALSE]
  /\ deletedBy' = [deletedBy EXCEPT ![r.product] = r.by]
  /\ UNCHANGED <<made, version, reviews, rated, cache, lock, saw>>

Ban(r) ==
  /\ Commits(r, {"ban_product"})
  /\ deletedBy' = [deletedBy EXCEPT ![r.product] = r.by]
  /\ UNCHANGED <<made, inStock, version, reviews, rated, cache, lock, saw>>

Restore(r) ==
  /\ Commits(r, {"restore_product", "unban_product"})
  /\ deletedBy' = [deletedBy EXCEPT ![r.product] = Nobody]
  /\ UNCHANGED <<made, inStock, version, reviews, rated, cache, lock, saw>>

\* The reservations and restorations of purchases drop no entry.
Trade(r) ==
  /\ r.kind \in {"reserve", "restore_stock"} /\ pc[r] = "new"
  /\ IF r.product \in (IF r.kind = "reserve" THEN OnSale ELSE Listed)
     THEN /\ version' = [version EXCEPT ![r.product] = version[r.product] + 1]
          /\ \E left \in BOOLEAN :
               inStock' = [inStock EXCEPT ![r.product] = (r.kind = "restore_stock") \/ left]
          /\ Answers(r, "ok")
     ELSE UNCHANGED <<version, inStock>> /\ Answers(r, "refused")
  /\ UNCHANGED <<made, deletedBy, reviews, rated, cache, lock, saw>>

\* (product_id, account_id) is the primary key.
AddReview(r) ==
  LET review == <<r.by, r.product>> IN
  /\ r.kind = "create_review" /\ pc[r] = "checked"
  /\ reviews' = reviews \cup {review}
  /\ IF review \in reviews THEN Answers(r, "refused") ELSE Goes(r, "written")
  /\ UNCHANGED <<made, deletedBy, inStock, version, rated, cache, lock, saw>>

DeleteReview(r) ==
  LET review == <<r.by, r.product>> IN
  /\ r.kind = "delete_review" /\ pc[r] = "new"
  /\ reviews' = reviews \ {review}
  /\ IF review \in reviews THEN Goes(r, "written") ELSE Answers(r, "refused")
  /\ UNCHANGED <<made, deletedBy, inStock, version, rated, cache, lock, saw>>

\* The entries that a request drops once it has committed.
Dropped(r) ==
  IF r.kind \in {"create_review", "delete_review"} THEN Of({"my_reviews"}, {r.by})
  ELSE Of({"product"}, {r.product})
       \cup (IF r.kind \in {"restore_product", "unban_product"} THEN {}
             ELSE Of({"featured"}, {Nobody}))
       \cup (IF r.kind \in {"ban_product", "unban_product"} THEN {}
             ELSE Of({"my_products"}, {r.by}))

\* DEL, of which any may fail unnoticed.  updateProduct goes on to the page,
\* and addReview to ask the account service for the author.
Drop(r) ==
  /\ pc[r] = "written"
  /\ \E gone \in SUBSET Dropped(r) :
       cache' = [e \in Entries |-> IF e \in gone THEN Nothing ELSE cache[e]]
  /\ \/ r.kind = "update_product" /\ Goes(r, "looking")
     \/ r.kind # "update_product" /\ Answers(r, "ok")
     \/ r.kind = "create_review" /\ Answers(r, "error")
  /\ UNCHANGED <<tables, lock, saw>>

\* The database, the account service, or a category that is not there.
WriteFails(r) ==
  /\ pc[r] = "checked" \/ (pc[r] = "new" /\ r.kind \in Writes \cup {"delete_review"})
  /\ Answers(r, "error")
  /\ UNCHANGED <<tables, cache, lock, saw>>

-----------------------------------------------------------------------------
(* Time, failures and repetitions.                                         *)

\* The replica stops, or the release is lost.
Crash(r) ==
  /\ pc[r] \in {"written", "reading", "asking", "filling", "releasing"}
  /\ Goes(r, "dead")
  /\ UNCHANGED <<tables, cache, lock, saw>>

\* Mutant of Expire: SET without EX.
ExpireNever(e) == FALSE /\ UNCHANGED vars

Expire(e) ==
  /\ cache[e] # Nothing
  /\ cache' = [cache EXCEPT ![e] = Nothing]
  /\ UNCHANGED <<tables, lock, pc, saw, told>>

\* 100 s: the holder is gone, or waits for the account service, which it asks
\* without a timeout.
LockExpires(e) ==
  /\ lock[e] # Nobody /\ pc[lock[e]] \in {"dead", "asking"}
  /\ lock' = [lock EXCEPT ![e] = Nobody]
  /\ UNCHANGED <<tables, cache, pc, saw, told>>

\* withRetry in the gateway: no answer for 3 s, so the message is sent again.
Repeats(r) ==
  /\ pc[r] = "later"
  /\ \E q \in Requests : q.id = r.again /\ pc[q] \notin {"unsent", "done"}
  /\ Goes(r, "new")
  /\ UNCHANGED <<tables, cache, lock, saw>>

RepeatRead(r) == r.kind = "get" /\ r.list # "my_reviews" /\ Repeats(r)
RepeatEdit(r) == r.kind \in Writes \ {"ban_product", "unban_product"} /\ Repeats(r)
RepeatBan(r) == r.kind \in {"ban_product", "unban_product"} /\ Repeats(r)
RepeatReview(r) ==
  /\ \/ r.kind \in {"create_review", "delete_review"}
     \/ r.kind = "get" /\ r.list = "my_reviews"
  /\ Repeats(r)

ReadStep(r) ==
  \/ Hit(r) \/ Miss(r) \/ TakeLock(r) \/ NoLock(r)
  \/ Query(r) \/ AskAccounts(r) \/ FillPage(r) \/ ReadFails(r) \/ Release(r) \/ ReadTables(r)
  \/ SnapshotRatings(r) \/ WriteRatings(r) \/ RatingsFail(r)

WriteStep(r) ==
  \/ CheckProduct(r) \/ CreateProduct(r) \/ Update(r) \/ Remove(r) \/ Ban(r) \/ Restore(r)
  \/ Trade(r) \/ AddReview(r) \/ DeleteReview(r) \/ Drop(r) \/ WriteFails(r)

RepeatStep(r) == RepeatRead(r) \/ RepeatEdit(r) \/ RepeatBan(r) \/ RepeatReview(r)

Working(r) == ReadStep(r) \/ WriteStep(r) \/ RepeatStep(r)

Timely == \E e \in Entries : Expire(e) \/ LockExpires(e)

Next == Timely \/ \E r \in Requests : Working(r) \/ Crash(r)

Spec == (\E mix \in SUBSET Requests : Init(mix)) /\ [][Next]_vars

-----------------------------------------------------------------------------
(* Properties.                                                             *)

AtWork == {"reading", "asking", "filling", "releasing"}

\* A lock is held by a request that is at work on what the lock is for and will
\* release it, or by one that has been cut off: never by one that has answered.
LockedByWorker ==
  \A e \in Entries :
    lock[e] # Nobody => EntryOf(lock[e]) = e /\ pc[lock[e]] \in AtWork \cup {"dead"}

\* A lock is given up by its holder or by time.  A request that outlived its
\* lock does not give up the one that another request has taken since.
LockByOwner ==
  [][\A e \in Entries :
       lock[e] # Nobody /\ lock'[e] # lock[e] =>
         /\ lock'[e] = Nobody
         /\ \/ pc[lock[e]] \in {"dead", "asking"}
            \/ pc[lock[e]] = "releasing" /\ pc'[lock[e]] = "done"]_vars

\* While reviews are only added, a product's rating only takes more of them into
\* account: a rating run never puts back what an earlier one had read.
RatingsForward ==
  [][(\A r \in Requests : r.kind = "delete_review" => pc[r] = "unsent") =>
       \A p \in Products : rated[p] \subseteq rated'[p]]_vars

\* When nothing is written any more, every page and list soon shows what the
\* tables have, or is not kept; those that no edit drops, too.
PagesCatchUp ==
  <>[](\A e \in Entries : cache[e] = Nothing \/ (cache[e] = View(e) /\ ~Withheld(e)))
=============================================================================
