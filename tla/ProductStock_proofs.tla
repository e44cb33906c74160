------------------------- MODULE ProductStock_proofs -------------------------
(***************************************************************************)
(* What holds of every product, mix of requests and stock: types, with     *)
(* them a stock within its column, and how the stock moves.                *)
(***************************************************************************)
EXTENDS ProductStock, TLAPS

\* A ban that is about to be written was asked for by an admin, and a
\* restoration that is not over has an attempt left.
BanInv == \A r \in Requests :
  Kind[r] = "ban_product" /\ pc[r] = "checked" => By[r] \in Admins

TriesInv == \A r \in Requests :
  Kind[r] = "restore_stock" /\ pc[r] # "done" => tries[r] < MaxAttempts

IInv == TypeOK /\ BanInv /\ TriesInv

\* A product as createProduct leaves it satisfies the invariant.
LEMMA InitInv == ASSUME ProductAssumption PROVE Init => IInv
<1> SUFFICES ASSUME Init PROVE IInv
  OBVIOUS
<1>1. Row \in Columns
  BY DEF Init, Row, Columns
<1>2. seen \in [Requests -> Columns] /\ snap \in [Requests -> Columns]
  BY <1>1 DEF Init
<1>3. pc \in [Requests -> {"unsent", "new"}]
  BY DEF Init
<1>4. asked \in [Requests -> BOOLEAN] /\ tries = [r \in Requests |-> 0]
      /\ result \in [Requests -> {"none"}]
  BY DEF Init
<1>5. TypeOK
  BY <1>2, <1>3, <1>4 DEF Init, TypeOK, MaxAttempts
<1>6. BanInv /\ TriesInv
  BY <1>3, <1>4 DEF BanInv, TriesInv, MaxAttempts
<1> QED BY <1>5, <1>6 DEF IInv

\* What a request writes in pc and result has their types, and only its own
\* entry changes.
LEMMA AnswersTyped ==
  ASSUME TypeOK, NEW r \in Requests, NEW answer \in {"ok", "refused"}, Answers(r, answer)
  PROVE  /\ pc' \in [Requests -> {"unsent", "new", "checked", "saving", "done"}]
         /\ result' \in [Requests -> {"none", "ok", "refused"}]
         /\ pc'[r] = "done" /\ result'[r] = answer
         /\ \A q \in Requests : q # r => pc'[q] = pc[q] /\ result'[q] = result[q]
  BY DEF TypeOK, Answers

\* The same of a request that goes on.
LEMMA GoesTyped ==
  ASSUME TypeOK, NEW r \in Requests, NEW step \in {"new", "checked", "saving"}, Goes(r, step)
  PROVE  /\ pc' \in [Requests -> {"unsent", "new", "checked", "saving", "done"}]
         /\ result' = result
         /\ pc'[r] = step
         /\ \A q \in Requests : q # r => pc'[q] = pc[q]
  BY DEF TypeOK, Goes

\* The row read by a query has the columns' types.
LEMMA RowTyped == ASSUME TypeOK PROVE Row \in Columns
  BY DEF TypeOK, Row, Columns

\* What save() writes in the stock: what it is, what was read, what was named.
LEMMA SaveWrites ==
  ASSUME ProductAssumption, TypeOK, NEW r \in Requests, Save(r)
  PROVE  stock' \in Stocks /\ price' \in Prices
<1>1. seen[r].stock \in Stocks /\ seen[r].price \in Prices
  BY DEF TypeOK, Columns
<1>2. NewStock[r] \in Stocks \cup {Omitted} /\ NewPrice[r] \in Prices \cup {Omitted}
  BY DEF ProductAssumption
<1> QED BY <1>1, <1>2 DEF Save, TypeOK

\* Edits preserve the invariant; a ban's author was checked before.
LEMMA EditKeeps ==
  ASSUME ProductAssumption, IInv, NEW r \in Requests, EditNext(r)
  PROVE  IInv'
<1> USE DEF IInv
<1>1. CASE Check(r)
  <2>1. Goes(r, "checked")
    BY <1>1 DEF Check
  <2>2. seen' \in [Requests -> Columns]
    BY <1>1, RowTyped DEF Check, TypeOK
  <2>3. TypeOK'
    BY <1>1, <2>1, <2>2, GoesTyped DEF Check, TypeOK
  <2>4. BanInv'
    <3>1. Kind[r] = "ban_product" => By[r] \in Admins
      BY <1>1 DEF Check, Allowed
    <3> QED BY <2>1, <3>1, GoesTyped DEF BanInv
  <2>5. TriesInv'
    BY <1>1, <2>1, GoesTyped DEF Check, TriesInv, Edits
  <2> QED BY <2>3, <2>4, <2>5
<1>2. CASE Refuse(r)
  <2>1. Answers(r, "refused")
    BY <1>2 DEF Refuse
  <2>2. TypeOK'
    BY <1>2, <2>1, AnswersTyped DEF Refuse, TypeOK
  <2>3. BanInv' /\ TriesInv'
    BY <1>2, <2>1, AnswersTyped DEF Refuse, BanInv, TriesInv
  <2> QED BY <2>2, <2>3
<1>3. CASE Reload(r)
  <2>1. Goes(r, "saving")
    BY <1>3 DEF Reload
  <2>2. snap' \in [Requests -> Columns]
    BY <1>3, RowTyped DEF Reload, TypeOK
  <2>3. TypeOK'
    BY <1>3, <2>1, <2>2, GoesTyped DEF Reload, TypeOK
  <2>4. BanInv' /\ TriesInv'
    BY <1>3, <2>1, GoesTyped DEF Reload, BanInv, TriesInv
  <2> QED BY <2>3, <2>4
<1>4. CASE \/ UpdateStock(r) \/ UpdatePrice(r) \/ Save(r)
           \/ DeleteProduct(r) \/ Undelete(r) \/ BanProduct(r)
  <2>1. Answers(r, "ok")
    BY <1>4 DEF UpdateStock, UpdatePrice, Save, DeleteProduct, Undelete, BanProduct, Writes
  <2>2. UNCHANGED <<active, seen, snap, asked, tries>>
    BY <1>4 DEF UpdateStock, UpdatePrice, Save, DeleteProduct, Undelete, BanProduct
  <2>3. stock' \in Stocks /\ price' \in Prices
    <3>1. CASE Save(r)
      BY <3>1, SaveWrites
    <3>2. CASE UpdateStock(r)
      <4>1. NewStock[r] \in Stocks
        BY <3>2 DEF UpdateStock, Writes, ProductAssumption
      <4> QED BY <3>2, <4>1 DEF UpdateStock, TypeOK
    <3>3. CASE UpdatePrice(r)
      <4>1. NewPrice[r] \in Prices
        BY <3>3 DEF UpdatePrice, Writes, ProductAssumption
      <4> QED BY <3>3, <4>1 DEF UpdatePrice, TypeOK
    <3>4. CASE DeleteProduct(r)
      BY <3>4 DEF DeleteProduct, TypeOK, Stocks, ProductAssumption
    <3>5. CASE Undelete(r) \/ BanProduct(r)
      BY <3>5 DEF Undelete, BanProduct, TypeOK
    <3> QED BY <1>4, <3>1, <3>2, <3>3, <3>4, <3>5
  <2>4. deletedBy' \in Admins \cup {Seller, NoOne}
    <3>1. CASE BanProduct(r)
      <4>1. By[r] \in Admins
        BY <3>1 DEF BanProduct, Writes, BanInv
      <4> QED BY <3>1, <4>1 DEF BanProduct
    <3>2. CASE ~BanProduct(r)
      BY <1>4, <3>2 DEF UpdateStock, UpdatePrice, Save, DeleteProduct, Undelete, TypeOK
    <3> QED BY <3>1, <3>2
  <2>5. TypeOK'
    BY <2>1, <2>2, <2>3, <2>4, AnswersTyped DEF TypeOK
  <2>6. BanInv' /\ TriesInv'
    BY <2>1, <2>2, AnswersTyped DEF BanInv, TriesInv
  <2> QED BY <2>5, <2>6
<1> QED BY <1>1, <1>2, <1>3, <1>4 DEF EditNext

\* So do reservations and restorations: a unit is taken only if there is one,
\* returned only within the column, and a third failure is the last.
LEMMA StockKeeps ==
  ASSUME ProductAssumption, IInv, NEW r \in Requests, StockNext(r) \/ Fails(r)
  PROVE  IInv'
<1> USE DEF IInv
<1>1. CASE AskSeller(r)
  <2>1. Goes(r, "checked")
    BY <1>1 DEF AskSeller
  <2>2. asked' \in [Requests -> BOOLEAN]
    BY <1>1 DEF AskSeller, TypeOK
  <2>3. TypeOK'
    BY <1>1, <2>1, <2>2, GoesTyped DEF AskSeller, TypeOK
  <2>4. BanInv' /\ TriesInv'
    BY <1>1, <2>1, GoesTyped DEF AskSeller, BanInv, TriesInv
  <2> QED BY <2>3, <2>4
<1>2. CASE Reserve(r) \/ RestoreStock(r)
  <2>1. Answers(r, "ok")
    BY <1>2 DEF Reserve, RestoreStock
  <2>2. stock' \in Stocks
    <3>1. Amount[r] \in Nat /\ Limit \in Nat
      BY DEF ProductAssumption
    <3> QED BY <1>2, <3>1 DEF Reserve, RestoreStock, TypeOK, Stocks
  <2>3. UNCHANGED <<price, deletedBy, active, seen, snap, asked, tries>>
    BY <1>2 DEF Reserve, RestoreStock
  <2>4. TypeOK'
    BY <2>1, <2>2, <2>3, AnswersTyped DEF TypeOK
  <2>5. BanInv' /\ TriesInv'
    BY <2>1, <2>3, AnswersTyped DEF BanInv, TriesInv
  <2> QED BY <2>4, <2>5
<1>3. CASE RestoreLooks(r)
  <2>1. Goes(r, "checked") \/ Answers(r, "refused")
    BY <1>3 DEF RestoreLooks
  <2>2. UNCHANGED <<stock, price, deletedBy, active, seen, snap, asked, tries>>
    BY <1>3 DEF RestoreLooks
  <2>3. TypeOK'
    BY <2>1, <2>2, AnswersTyped, GoesTyped DEF TypeOK
  <2>4. BanInv' /\ TriesInv'
    BY <1>3, <2>1, <2>2, AnswersTyped, GoesTyped DEF RestoreLooks, BanInv, TriesInv
  <2> QED BY <2>3, <2>4
<1>4. CASE RestoreFails(r)
  <2>1. Kind[r] = "restore_stock" /\ tries[r] \in Nat /\ tries[r] < MaxAttempts
    BY <1>4 DEF RestoreFails, TypeOK, TriesInv
  <2>2. /\ tries' \in [Requests -> 0..MaxAttempts]
        /\ tries'[r] = tries[r] + 1
        /\ \A q \in Requests : q # r => tries'[q] = tries[q]
    BY <1>4, <2>1 DEF RestoreFails, TypeOK, MaxAttempts
  <2>3. \/ Goes(r, "new") /\ tries'[r] < MaxAttempts
        \/ Answers(r, "refused")
    BY <1>4, <2>2 DEF RestoreFails
  <2>4. UNCHANGED <<stock, price, deletedBy, active, seen, snap, asked>>
    BY <1>4 DEF RestoreFails
  <2>5. TypeOK'
    BY <2>2, <2>3, <2>4, AnswersTyped, GoesTyped DEF TypeOK
  <2>6. BanInv' /\ TriesInv'
    BY <2>1, <2>2, <2>3, AnswersTyped, GoesTyped DEF BanInv, TriesInv
  <2> QED BY <2>5, <2>6
<1>5. CASE Fails(r)
  <2>1. Answers(r, "refused")
    BY <1>5 DEF Fails
  <2>2. TypeOK'
    BY <1>5, <2>1, AnswersTyped DEF Fails, TypeOK
  <2>3. BanInv' /\ TriesInv'
    BY <1>5, <2>1, AnswersTyped DEF Fails, BanInv, TriesInv
  <2> QED BY <2>2, <2>3
<1> QED BY <1>1, <1>2, <1>3, <1>4, <1>5 DEF StockNext

\* Every step of the system preserves the invariant.
LEMMA NextKeeps == ASSUME ProductAssumption, IInv, [Next]_vars PROVE IInv'
<1>1. ASSUME NEW r \in Requests, EditNext(r) PROVE IInv'
  BY <1>1, EditKeeps
<1>2. ASSUME NEW r \in Requests, StockNext(r) \/ Fails(r) PROVE IInv'
  BY <1>2, StockKeeps
<1>3. CASE SellerChanges
  BY <1>3 DEF SellerChanges, IInv, TypeOK, BanInv, TriesInv
<1>4. CASE UNCHANGED vars
  BY <1>4 DEF vars, IInv, TypeOK, BanInv, TriesInv
<1> QED BY <1>1, <1>2, <1>3, <1>4 DEF Next

\* The strengthened invariant holds always.
LEMMA Invariance == Spec => []IInv
<1>1. Init => IInv
  BY ProductAssumption, InitInv
<1>2. IInv /\ [Next]_vars => IInv'
  BY ProductAssumption, NextKeeps
<1> QED BY <1>1, <1>2, PTL DEF Spec

\* The stock is never negative and never exceeds its column, whatever requests
\* meet, and only the seller or an admin is ever named by deletedBy.
THEOREM TypeCorrect == Spec => []TypeOK
<1>1. IInv => TypeOK
  BY DEF IInv
<1> QED BY <1>1, Invariance, PTL

-----------------------------------------------------------------------------
(* How the stock moves.                                                    *)

\* Every update of the product names its stock.
NamesStock == \A r \in Requests : Kind[r] = "update_product" => NewStock[r] # Omitted

\* A request that only goes on, or is refused, takes no effect.
LEMMA NoEffect ==
  ASSUME TypeOK, NEW r \in Requests,
         \/ Answers(r, "refused")
         \/ \E step \in {"new", "checked", "saving"} : Goes(r, step)
  PROVE  \A q \in Requests : ~TookEffect(q)
<1>1. CASE Answers(r, "refused")
  BY <1>1, AnswersTyped DEF TookEffect
<1>2. CASE \E step \in {"new", "checked", "saving"} : Goes(r, step)
  BY <1>2 DEF Goes, TookEffect
<1> QED BY <1>1, <1>2

\* A request that is not over has not taken effect.
AnswerInv == \A r \in Requests : pc[r] # "done" => result[r] = "none"

\* An answer is given once.
LEMMA AnswerInvariance == Spec => []AnswerInv
<1>1. ProductAssumption /\ Init => AnswerInv
  BY DEF Init, AnswerInv
<1>2. ASSUME TypeOK, AnswerInv, [Next]_vars PROVE AnswerInv'
  <2>1. ASSUME NEW r \in Requests, NEW answer \in {"ok", "refused"}, Answers(r, answer)
        PROVE AnswerInv'
    BY <1>2, <2>1, AnswersTyped DEF AnswerInv
  <2>2. ASSUME NEW r \in Requests, NEW step \in {"new", "checked", "saving"}, Goes(r, step),
               pc[r] # "done"
        PROVE AnswerInv'
    BY <1>2, <2>2, GoesTyped DEF AnswerInv
  <2>3. ASSUME NEW r \in Requests, EditNext(r) PROVE AnswerInv'
    BY <2>1, <2>2, <2>3
       DEF EditNext, Check, Refuse, UpdateStock, UpdatePrice, Reload, Save,
           DeleteProduct, Undelete, BanProduct, Writes
  <2>4. ASSUME NEW r \in Requests, StockNext(r) \/ Fails(r) PROVE AnswerInv'
    BY <2>1, <2>2, <2>4
       DEF StockNext, AskSeller, Reserve, RestoreLooks, RestoreStock, RestoreFails, Fails
  <2>5. CASE SellerChanges
    BY <1>2, <2>5 DEF SellerChanges, AnswerInv
  <2>6. CASE UNCHANGED vars
    BY <1>2, <2>6 DEF vars, AnswerInv
  <2> QED BY <1>2, <2>3, <2>4, <2>5, <2>6 DEF Next
<1> QED BY <1>1, <1>2, ProductAssumption, TypeCorrect, PTL DEF Spec

\* What a step does to the stock is what the requests that take effect say.
StepMoves ==
  /\ \A r \in Requests : TookEffect(r) => Moves(r)
  /\ stock' # stock => \E r \in Requests : TookEffect(r)

\* A step that answers one request and leaves the stock as that request says.
LEMMA OneMoves ==
  ASSUME TypeOK, AnswerInv, NEW r \in Requests, pc[r] # "done", Answers(r, "ok"), Moves(r)
  PROVE  StepMoves
<1>1. TookEffect(r)
  BY AnswersTyped DEF TookEffect, AnswerInv
<1>2. \A q \in Requests : TookEffect(q) => q = r
  BY AnswersTyped DEF TookEffect
<1> QED BY <1>1, <1>2 DEF StepMoves

\* Edits write the stock that they name, or leave it.
LEMMA EditMoves ==
  ASSUME ProductAssumption, TypeOK, AnswerInv, NamesStock, NEW r \in Requests, EditNext(r)
  PROVE  StepMoves
<1>1. CASE Check(r) \/ Refuse(r) \/ Reload(r)
  <2>1. \A q \in Requests : ~TookEffect(q)
    BY <1>1, NoEffect DEF Check, Refuse, Reload
  <2> QED BY <1>1, <2>1 DEF Check, Refuse, Reload, StepMoves
<1>2. CASE Save(r)
  <2>1. stock' \in {stock, NewStock[r]}
    BY <1>2 DEF Save, NamesStock
  <2> QED BY <1>2, <2>1, OneMoves DEF Save, Moves
<1>3. CASE UpdateStock(r)
  BY <1>3, OneMoves DEF UpdateStock, Writes, Moves
<1>4. CASE DeleteProduct(r)
  BY <1>4, OneMoves DEF DeleteProduct, Writes, Moves
<1>5. CASE UpdatePrice(r) \/ Undelete(r) \/ BanProduct(r)
  <2>1. /\ Kind[r] \in {"update_price", "restore_product", "ban_product", "unban_product"}
        /\ pc[r] = "checked" /\ Answers(r, "ok") /\ stock' = stock
    BY <1>5 DEF UpdatePrice, Undelete, BanProduct, Writes
  <2> QED BY <2>1, OneMoves DEF Moves
<1> QED BY <1>1, <1>2, <1>3, <1>4, <1>5 DEF EditNext

\* A reservation takes its units, a restoration returns them, at once.
LEMMA UnitsMove ==
  ASSUME ProductAssumption, TypeOK, AnswerInv, NEW r \in Requests, StockNext(r) \/ Fails(r)
  PROVE  StepMoves
<1>1. CASE AskSeller(r) \/ RestoreLooks(r) \/ RestoreFails(r) \/ Fails(r)
  <2>1. \A q \in Requests : ~TookEffect(q)
    BY <1>1, NoEffect DEF AskSeller, RestoreLooks, RestoreFails, Fails
  <2> QED BY <1>1, <2>1 DEF AskSeller, RestoreLooks, RestoreFails, Fails, StepMoves
<1>2. CASE Reserve(r)
  BY <1>2, OneMoves DEF Reserve, Moves
<1>3. CASE RestoreStock(r)
  BY <1>3, OneMoves DEF RestoreStock, Moves
<1> QED BY <1>1, <1>2, <1>3 DEF StockNext

\* If updates of the product name its stock, no request undoes what another
\* did to it: every change is one request's, made to the current stock.
THEOREM MovesCorrect == ASSUME NamesStock PROVE Spec => StockMoves
<1>1. TypeOK /\ AnswerInv /\ [Next]_vars => [StepMoves]_vars
  <2> SUFFICES ASSUME TypeOK, AnswerInv, Next PROVE StepMoves
    OBVIOUS
  <2>1. ASSUME NEW r \in Requests, EditNext(r) PROVE StepMoves
    BY <2>1, ProductAssumption, EditMoves
  <2>2. ASSUME NEW r \in Requests, StockNext(r) \/ Fails(r) PROVE StepMoves
    BY <2>2, ProductAssumption, UnitsMove
  <2>3. CASE SellerChanges
    BY <2>3 DEF SellerChanges, StepMoves, TookEffect
  <2> QED BY <2>1, <2>2, <2>3 DEF Next
<1>2. StepMoves <=> /\ \A r \in Requests : TookEffect(r) => Moves(r)
                   /\ stock' # stock => \E r \in Requests : TookEffect(r)
  BY DEF StepMoves
<1> QED BY <1>1, TypeCorrect, AnswerInvariance, PTL DEF Spec, StockMoves, StepMoves

\* A reservation that takes effect does so on a product neither deleted nor
\* banned: the row is looked at again under its lock.
THEOREM SoldCorrect == Spec => NeverSoldDeleted
<1> DEFINE Sound == \A r \in Requests :
       TookEffect(r) /\ Kind[r] = "reserve" => deletedBy = NoOne /\ deletedBy' = NoOne
<1>1. TypeOK /\ [Next]_vars => [Sound]_vars
  <2> SUFFICES ASSUME TypeOK, Next, NEW q \in Requests,
                      TookEffect(q), Kind[q] = "reserve"
               PROVE  deletedBy = NoOne /\ deletedBy' = NoOne
    OBVIOUS
  <2>1. ASSUME NEW r \in Requests, EditNext(r) PROVE FALSE
    <3>1. Kind[r] # "reserve"
      BY <2>1 DEF EditNext, Check, Refuse, UpdateStock, UpdatePrice, Reload, Save,
                  DeleteProduct, Undelete, BanProduct, Writes, Edits
    <3>2. \/ Answers(r, "refused") \/ Answers(r, "ok")
          \/ \E step \in {"new", "checked", "saving"} : Goes(r, step)
      BY <2>1 DEF EditNext, Check, Refuse, UpdateStock, UpdatePrice, Reload, Save,
                  DeleteProduct, Undelete, BanProduct, Writes
    <3> QED BY <3>1, <3>2, AnswersTyped, NoEffect DEF TookEffect
  <2>2. ASSUME NEW r \in Requests,
               AskSeller(r) \/ RestoreLooks(r) \/ RestoreFails(r) \/ Fails(r)
        PROVE  FALSE
    BY <2>2, NoEffect DEF AskSeller, RestoreLooks, RestoreFails, Fails
  <2>3. ASSUME NEW r \in Requests, RestoreStock(r) PROVE FALSE
    BY <2>3, AnswersTyped DEF RestoreStock, TookEffect
  <2>4. ASSUME NEW r \in Requests, Reserve(r) PROVE deletedBy = NoOne /\ deletedBy' = NoOne
    BY <2>4 DEF Reserve
  <2>5. ~SellerChanges
    BY DEF SellerChanges, TookEffect
  <2> QED BY <2>1, <2>2, <2>3, <2>4, <2>5 DEF Next, StockNext
<1> QED BY <1>1, TypeCorrect, PTL DEF Spec, NeverSoldDeleted
=============================================================================
