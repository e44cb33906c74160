----------------------------- MODULE Balance_proofs -----------------------------
(***************************************************************************)
(* Proofs about Balance for any accounts, tokens, amounts and executions,  *)
(* with any number of executions per token, and any faults.                *)
(***************************************************************************)
EXTENDS Balance, Sums_proofs

\* A withdrawal in its transaction holds the lock of its account's balance,
\* which is still what it read: without it Pay could overdraw the account or
\* undo an income.
LockInv ==
  \A e \in Executions : pc[e] = "locked" =>
    /\ Withdraws(e) /\ Amount[TokenOf[e]] > 0
    /\ Account[TokenOf[e]] \in Holders
    /\ holder[Account[TokenOf[e]]] = e
    /\ seen[e] = balance[Account[TokenOf[e]]]

BooksInv == TypeOK /\ LockInv

\* The tables as the account service finds them: no row lock is held.
LEMMA BooksInit == Init => BooksInv
<1> SUFFICES ASSUME Init PROVE BooksInv
  OBVIOUS
<1>1. TypeOK
  BY BalanceAssumption DEF Init, TypeOK
<1>2. LockInv
  BY DEF Init, LockInv
<1> QED
  BY <1>1, <1>2 DEF BooksInv

\* A balance stays natural when no more than it holds is taken from it.
LEMMA Minus == \A m \in Nat, n \in Int : n <= m => m - n \in Nat
OBVIOUS

\* What the two ways of ending a withdrawal's transaction have in common.
LEMMA UnlockInv ==
  ASSUME BooksInv, NEW e \in Executions, pc[e] = "locked", Unlock(e),
         pc' = [pc EXCEPT ![e] = "record"],
         seen' = seen, left' = left, token' = token, income' = income,
         balance' \in [Holders -> Nat],
         \A a \in Holders : a # Account[TokenOf[e]] => balance'[a] = balance[a],
         withdrawal' \in [Withdrawals -> {"absent", "completed", "failed"}],
         outcome' \in [Executions -> {"pending", "completed", "failed"}],
         reply' \in [Executions -> {"none", "paid", "declined", "refused", "error"}]
  PROVE  BooksInv'
<1>1. TypeOK'
  BY DEF BooksInv, TypeOK, Unlock
<1>2. \A f \in Executions : pc'[f] = "locked" =>
        /\ pc[f] = "locked" /\ f # e
        /\ Account[TokenOf[f]] # Account[TokenOf[e]]
  BY DEF BooksInv, TypeOK, LockInv
<1>3. LockInv'
  BY <1>2 DEF BooksInv, TypeOK, LockInv, Unlock, Withdraws
<1> QED
  BY <1>1, <1>3 DEF BooksInv

\* withdraw keeps the types, and what it read under the lock stays true.
LEMMA BooksWithdraw ==
  ASSUME BooksInv, NEW e \in Executions, WithdrawNext(e)
  PROVE  BooksInv'
<1> USE DEF BooksInv, TypeOK, Ends
<1>1. CASE WithdrawRefused(e)
  BY <1>1 DEF WithdrawRefused, LockInv, Withdraws
<1>2. CASE NoBalance(e)
  BY <1>2 DEF NoBalance, Starts, LockInv, Withdraws
<1>3. CASE LockBalance(e)
  <2>1. TypeOK'
    BY <1>3 DEF LockBalance
  <2>2. LockInv'
    BY <1>3, BalanceAssumption DEF LockBalance, Starts, Valid, LockInv, Withdraws
  <2> QED
    BY <2>1, <2>2
<1>4. CASE NoCbu(e)
  BY <1>4, UnlockInv DEF NoCbu
<1>5. CASE Pay(e)
  <2> DEFINE w == TokenOf[e]
  <2>1. w \in Withdrawals /\ Account[w] \in Holders /\ seen[e] - Amount[w] \in Nat
    BY <1>5, Minus, BalanceAssumption DEF Pay, LockInv, Withdraws
  <2>2. balance' \in [Holders -> Nat]
    BY <1>5, <2>1 DEF Pay
  <2> QED
    BY <1>5, <2>1, <2>2, UnlockInv DEF Pay
<1>6. CASE Decline(e)
  BY <1>6, UnlockInv DEF Decline
<1>7. CASE TransactionFails(e)
  BY <1>7, UnlockInv DEF TransactionFails
<1> QED
  BY <1>1, <1>2, <1>3, <1>4, <1>5, <1>6, <1>7 DEF WithdrawNext

\* So does add_to_account_balance, which waits for the lock withdraw holds.
LEMMA BooksCredit ==
  ASSUME BooksInv, NEW e \in Executions, CreditNext(e)
  PROVE  BooksInv'
<1> USE DEF BooksInv, TypeOK, Ends
<1>1. ASSUME NEW a \in Holders, CreditAccount(e, a) PROVE BooksInv'
  <2> DEFINE i == TokenOf[e]
  <2>1. i \in Incomes /\ balance[a] + Sums[i][a] \in Nat /\ holder[a] = NoOne
    <3>1. i \in Incomes /\ holder[a] = NoOne
      BY <1>1, BalanceAssumption DEF CreditAccount, Credits, Withdraws
    <3>2. balance[a] \in Nat /\ Sums[i][a] \in Nat
      BY <3>1, BalanceAssumption
    <3> QED
      BY <3>1, <3>2
  <2>2. TypeOK'
    <3>1. balance' = [balance EXCEPT ![a] = balance[a] + Sums[i][a]]
      BY <1>1 DEF CreditAccount
    <3>2. balance' \in [Holders -> Nat]
      BY <2>1, <3>1
    <3>3. income' \subseteq Incomes \X Holders /\ left' \in [Executions -> SUBSET Holders]
      BY <1>1, <2>1 DEF CreditAccount
    <3> QED
      BY <1>1, <3>2, <3>3 DEF CreditAccount
  <2>3. LockInv'
    BY <1>1, <2>1, BalanceAssumption DEF CreditAccount, LockInv, Withdraws
  <2> QED
    BY <2>2, <2>3
<1>2. ASSUME NEW a \in Holders, CreditFails(e, a) PROVE BooksInv'
  BY <1>2 DEF CreditFails, LockInv, Withdraws
<1>3. CASE FinishCredits(e)
  BY <1>3 DEF FinishCredits, Credits, LockInv, Withdraws
<1> QED
  BY <1>1, <1>2, <1>3 DEF CreditNext

\* Every step keeps the types and the meaning of the row locks.
LEMMA BooksStep == BooksInv /\ [Next]_vars => BooksInv'
<1> SUFFICES ASSUME BooksInv, [Next]_vars PROVE BooksInv'
  OBVIOUS
<1>1. ASSUME NEW e \in Executions, Record(e) PROVE BooksInv'
  BY <1>1, BalanceAssumption DEF Record, Tokens, BooksInv, TypeOK, LockInv, Withdraws
<1>2. ASSUME NEW e \in Executions, Crash(e) PROVE BooksInv'
  <2>1. TypeOK'
    BY <1>2 DEF Crash, BooksInv, TypeOK
  <2>2. LockInv'
    BY <1>2 DEF Crash, BooksInv, TypeOK, LockInv, Withdraws
  <2> QED
    BY <2>1, <2>2 DEF BooksInv
<1>3. CASE UNCHANGED vars
  BY <1>3 DEF vars, BooksInv, TypeOK, LockInv, Withdraws
<1> QED
  BY <1>1, <1>2, <1>3, BooksWithdraw, BooksCredit DEF Next, Step

\* The books keep their types, whatever runs concurrently or again: in
\* particular no balance ever becomes negative.
THEOREM TypeCorrect == Spec => []TypeOK
<1>1. BooksInv => TypeOK
  BY DEF BooksInv
<1> QED
  BY <1>1, BooksInit, BooksStep, PTL DEF Spec

-----------------------------------------------------------------------------
(* Double entry.                                                           *)

\* What a step does to an account's balance and to the rows that explain it:
\* nothing, or one row more and the balance changed by what it says.
RowsKept(a) ==
  balance'[a] = balance[a] /\ Receipts(a)' = Receipts(a) /\ Payments(a)' = Payments(a)

RowsStep(a) ==
  \/ RowsKept(a)
  \/ \E i \in Incomes \ Receipts(a) :
       /\ Receipts(a)' = Receipts(a) \cup {i} /\ Payments(a)' = Payments(a)
       /\ balance'[a] = balance[a] + Sums[i][a]
  \/ \E w \in Withdrawals \ Payments(a) :
       /\ Receipts(a)' = Receipts(a) /\ Payments(a)' = Payments(a) \cup {w}
       /\ balance'[a] = balance[a] - Amount[w]

\* Every step leaves the books alone or books its change of a balance.
LEMMA RowsNext ==
  ASSUME BooksInv, [Next]_vars, NEW a \in Holders
  PROVE  RowsStep(a)
<1>1. ASSUME NEW e \in Executions, Pay(e) PROVE RowsStep(a)
  <2> DEFINE w == TokenOf[e]
             h == Account[w]
  <2>1. /\ w \in Withdrawals /\ h \in Holders /\ withdrawal[w] = "absent"
        /\ seen[e] = balance[h]
    BY <1>1 DEF Pay, BooksInv, LockInv, Withdraws
  <2>2. /\ balance' = [balance EXCEPT ![h] = balance[h] - Amount[w]]
        /\ withdrawal' = [withdrawal EXCEPT ![w] = "completed"]
        /\ income' = income
    BY <1>1, <2>1 DEF Pay
  <2>3. Receipts(a)' = Receipts(a)
    BY <2>2 DEF Receipts, Received
  <2>4. CASE a = h
    <3>1. w \notin Payments(a) /\ Payments(a)' = Payments(a) \cup {w}
      BY <2>1, <2>2, <2>4 DEF Payments, Paid, BooksInv, TypeOK
    <3>2. balance'[a] = balance[a] - Amount[w]
      BY <2>1, <2>2, <2>4 DEF BooksInv, TypeOK
    <3> QED
      BY <2>1, <2>3, <3>1, <3>2 DEF RowsStep
  <2>5. CASE a # h
    <3>1. Payments(a)' = Payments(a)
      BY <2>1, <2>2, <2>5 DEF Payments, Paid, BooksInv, TypeOK
    <3>2. balance'[a] = balance[a]
      BY <2>2, <2>5 DEF BooksInv, TypeOK
    <3> QED
      BY <2>3, <3>1, <3>2 DEF RowsStep, RowsKept
  <2> QED
    BY <2>4, <2>5
<1>2. ASSUME NEW e \in Executions, Decline(e) PROVE RowsStep(a)
  BY <1>2 DEF Decline, Receipts, Received, Payments, Paid, BooksInv, TypeOK, RowsStep, RowsKept
<1>3. ASSUME NEW e \in Executions, NEW h \in Holders, CreditAccount(e, h) PROVE RowsStep(a)
  <2> DEFINE i == TokenOf[e]
  <2>1. i \in Incomes /\ <<i, h>> \notin income
    BY <1>3, BalanceAssumption DEF CreditAccount, Credits, Withdraws
  <2>2. /\ balance' = [balance EXCEPT ![h] = balance[h] + Sums[i][h]]
        /\ income' = income \cup {<<i, h>>} /\ withdrawal' = withdrawal
    BY <1>3 DEF CreditAccount
  <2>3. Payments(a)' = Payments(a)
    BY <2>2 DEF Payments, Paid
  <2>4. CASE a = h
    <3>1. i \notin Receipts(a) /\ Receipts(a)' = Receipts(a) \cup {i}
      BY <2>1, <2>2, <2>4 DEF Receipts, Received
    <3>2. balance'[a] = balance[a] + Sums[i][a]
      BY <2>2, <2>4 DEF BooksInv, TypeOK
    <3> QED
      BY <2>1, <2>3, <3>1, <3>2 DEF RowsStep
  <2>5. CASE a # h
    <3>1. Receipts(a)' = Receipts(a)
      BY <2>2, <2>5 DEF Receipts, Received
    <3>2. balance'[a] = balance[a]
      BY <2>2, <2>5 DEF BooksInv, TypeOK
    <3> QED
      BY <2>3, <3>1, <3>2 DEF RowsStep, RowsKept
  <2> QED
    BY <2>4, <2>5
<1>4. ASSUME NEW e \in Executions, WithdrawNext(e)
      PROVE  Pay(e) \/ Decline(e) \/ UNCHANGED books
  BY <1>4 DEF WithdrawNext, WithdrawRefused, NoBalance, LockBalance, NoCbu, TransactionFails, books
<1>5. ASSUME NEW e \in Executions, CreditNext(e)
      PROVE  (\E h \in Holders : CreditAccount(e, h)) \/ UNCHANGED books
  BY <1>5 DEF CreditNext, CreditFails, FinishCredits, books
<1>6. ASSUME NEW e \in Executions, Record(e) \/ Crash(e) PROVE UNCHANGED books
  BY <1>6 DEF Record, Crash, books
<1>7. UNCHANGED vars => UNCHANGED books
  BY DEF vars, books
<1>8. UNCHANGED books => RowsStep(a)
  BY DEF books, RowsStep, RowsKept, Receipts, Received, Payments, Paid
<1> QED
  BY <1>1, <1>2, <1>3, <1>4, <1>5, <1>6, <1>7, <1>8 DEF Next, Step

BookedStep ==
  \A a \in Holders :
    \/ /\ balance'[a] = balance[a]
       /\ \A i \in Incomes : Received(i, a)' = Received(i, a)
       /\ \A w \in Withdrawals : Paid(w, a)' = Paid(w, a)
    \/ \E i \in Incomes : /\ ~Received(i, a) /\ Received(i, a)'
                          /\ balance'[a] = balance[a] + Sums[i][a]
    \/ \E w \in Withdrawals : /\ ~Paid(w, a) /\ Paid(w, a)'
                              /\ balance'[a] = balance[a] - Amount[w]

\* A row more is a row that was not there.
LEMMA BookedNext == BooksInv /\ [Next]_vars => BookedStep
<1> SUFFICES ASSUME BooksInv, [Next]_vars, NEW a \in Holders
             PROVE  \/ /\ balance'[a] = balance[a]
                       /\ \A i \in Incomes : Received(i, a)' = Received(i, a)
                       /\ \A w \in Withdrawals : Paid(w, a)' = Paid(w, a)
                    \/ \E i \in Incomes : /\ ~Received(i, a) /\ Received(i, a)'
                                          /\ balance'[a] = balance[a] + Sums[i][a]
                    \/ \E w \in Withdrawals : /\ ~Paid(w, a) /\ Paid(w, a)'
                                              /\ balance'[a] = balance[a] - Amount[w]
  BY DEF BookedStep
<1>1. RowsStep(a)
  BY RowsNext
<1>2. CASE RowsKept(a)
  <2>1. \A i \in Incomes : Received(i, a)' = Received(i, a)
    BY <1>2 DEF RowsKept, Receipts, Received
  <2>2. \A w \in Withdrawals : Paid(w, a)' = Paid(w, a)
    BY <1>2 DEF RowsKept, Payments, Paid
  <2> QED
    BY <1>2, <2>1, <2>2 DEF RowsKept
<1>3. ASSUME NEW i \in Incomes \ Receipts(a), Receipts(a)' = Receipts(a) \cup {i}
      PROVE  ~Received(i, a) /\ Received(i, a)'
  BY <1>3 DEF Receipts, Received
<1>4. ASSUME NEW w \in Withdrawals \ Payments(a), Payments(a)' = Payments(a) \cup {w}
      PROVE  ~Paid(w, a) /\ Paid(w, a)'
  BY <1>4 DEF Payments, Paid
<1> QED
  BY <1>1, <1>2, <1>3, <1>4 DEF RowsStep

\* Every change of a balance is booked by exactly the row that explains it:
\* withdrawals and incomes running together lose none of each other's updates.
THEOREM BookedCorrect == Spec => Booked
<1>1. BooksInv /\ [Next]_vars => [BookedStep]_vars
  BY BookedNext
<1>2. Spec => [][BookedStep]_vars
  BY <1>1, BooksInit, BooksStep, PTL DEF Spec
<1> QED
  BY <1>2 DEF BookedStep, Booked

\* What is taken and brought is summed over finitely many rows, one more at most
\* with every step: the tables may grow without bound.
SumsInv ==
  /\ \A a \in Holders : IsFiniteSet(Receipts(a)) /\ IsFiniteSet(Payments(a))
  /\ Balanced

\* There are no rows at first.
LEMMA SumsInit == Init => SumsInv
<1> SUFFICES ASSUME Init, NEW a \in Holders
             PROVE  /\ IsFiniteSet(Receipts(a)) /\ IsFiniteSet(Payments(a))
                    /\ balance[a] =
                         InitBalance[a]
                         + SumFunctionOnSet([i \in Incomes |-> Sums[i][a]], Receipts(a))
                         - SumFunctionOnSet(Amount, Payments(a))
  BY DEF SumsInv, Balanced
<1>1. Receipts(a) = {} /\ Payments(a) = {}
  BY DEF Init, Receipts, Received, Payments, Paid
<1>2. balance[a] = InitBalance[a] /\ InitBalance[a] \in Int
  BY BalanceAssumption DEF Init
<1> QED
  BY <1>1, <1>2, SumEmpty, FS_EmptySet

\* Every step keeps an account's balance and the sum of its rows in step.
LEMMA SumsNext == BooksInv /\ SumsInv /\ [Next]_vars => SumsInv'
<1> SUFFICES ASSUME BooksInv, SumsInv, [Next]_vars, NEW a \in Holders
             PROVE  /\ IsFiniteSet(Receipts(a)') /\ IsFiniteSet(Payments(a)')
                    /\ balance'[a] =
                         InitBalance[a]
                         + SumFunctionOnSet([i \in Incomes |-> Sums[i][a]], Receipts(a)')
                         - SumFunctionOnSet(Amount, Payments(a)')
  BY DEF SumsInv, Balanced
<1> DEFINE brings == [i \in Incomes |-> Sums[i][a]]
           R == Receipts(a)
           P == Payments(a)
<1>1. /\ IsFiniteSet(R) /\ IsFiniteSet(P) /\ R \subseteq Incomes /\ P \subseteq Withdrawals
      /\ \A i \in Incomes : brings[i] = Sums[i][a] /\ brings[i] \in Int
      /\ \A w \in Withdrawals : Amount[w] \in Int
      /\ balance[a] = InitBalance[a] + SumFunctionOnSet(brings, R) - SumFunctionOnSet(Amount, P)
      /\ InitBalance[a] \in Int
  <2>1. R \subseteq Incomes /\ P \subseteq Withdrawals
    BY DEF Receipts, Payments
  <2>2. IsFiniteSet(R) /\ IsFiniteSet(P)
    BY DEF SumsInv
  <2>3. \A i \in Incomes : brings[i] = Sums[i][a] /\ brings[i] \in Int
    BY BalanceAssumption
  <2>4. InitBalance[a] \in Int /\ \A w \in Withdrawals : Amount[w] \in Int
    BY BalanceAssumption
  <2>5. balance[a] = InitBalance[a] + SumFunctionOnSet(brings, R) - SumFunctionOnSet(Amount, P)
    BY DEF SumsInv, Balanced
  <2> QED
    BY <2>1, <2>2, <2>3, <2>4, <2>5
<1> HIDE DEF brings
<1>2. SumFunctionOnSet(brings, R) \in Int /\ SumFunctionOnSet(Amount, P) \in Int
  BY <1>1, SumInt
<1>3. ASSUME NEW i \in Incomes \ R
      PROVE  SumFunctionOnSet(brings, R \cup {i}) = Sums[i][a] + SumFunctionOnSet(brings, R)
  <2>1. i \notin R /\ \A j \in R \cup {i} : brings[j] \in Int
    BY <1>1
  <2> QED
    BY <1>1, <2>1, SumAdd
<1>4. ASSUME NEW w \in Withdrawals \ P
      PROVE  SumFunctionOnSet(Amount, P \cup {w}) = Amount[w] + SumFunctionOnSet(Amount, P)
  <2>1. w \notin P /\ \A v \in P \cup {w} : Amount[v] \in Int
    BY <1>1
  <2> QED
    BY <1>1, <2>1, SumAdd
<1>5. \A x : IsFiniteSet(R \cup {x}) /\ IsFiniteSet(P \cup {x})
  BY <1>1, FS_AddElement
<1>6. RowsStep(a)
  BY RowsNext
<1> HIDE DEF R, P
<1>7. CASE RowsKept(a)
  BY <1>1, <1>7 DEF RowsKept, R, P, brings
<1>8. ASSUME NEW i \in Incomes \ R, Receipts(a)' = R \cup {i}, Payments(a)' = P,
             balance'[a] = balance[a] + Sums[i][a]
      PROVE  /\ IsFiniteSet(Receipts(a)') /\ IsFiniteSet(Payments(a)')
             /\ balance'[a] = InitBalance[a] + SumFunctionOnSet(brings, Receipts(a)')
                              - SumFunctionOnSet(Amount, Payments(a)')
  <2>1. Sums[i][a] \in Int /\ balance[a] \in Int
    BY <1>1, <1>2
  <2>2. SumFunctionOnSet(brings, Receipts(a)') = Sums[i][a] + SumFunctionOnSet(brings, R)
    BY <1>3, <1>8
  <2>3. SumFunctionOnSet(Amount, Payments(a)') = SumFunctionOnSet(Amount, P)
    BY <1>8
  <2>4. IsFiniteSet(Receipts(a)') /\ IsFiniteSet(Payments(a)')
    BY <1>1, <1>5, <1>8
  <2> QED
    BY <1>1, <1>2, <1>8, <2>1, <2>2, <2>3, <2>4
<1>9. ASSUME NEW w \in Withdrawals \ P, Receipts(a)' = R, Payments(a)' = P \cup {w},
             balance'[a] = balance[a] - Amount[w]
      PROVE  /\ IsFiniteSet(Receipts(a)') /\ IsFiniteSet(Payments(a)')
             /\ balance'[a] = InitBalance[a] + SumFunctionOnSet(brings, Receipts(a)')
                              - SumFunctionOnSet(Amount, Payments(a)')
  <2>1. Amount[w] \in Int /\ balance[a] \in Int
    BY <1>1, <1>2
  <2>2. SumFunctionOnSet(Amount, Payments(a)') = Amount[w] + SumFunctionOnSet(Amount, P)
    BY <1>4, <1>9
  <2>3. SumFunctionOnSet(brings, Receipts(a)') = SumFunctionOnSet(brings, R)
    BY <1>9
  <2>4. IsFiniteSet(Receipts(a)') /\ IsFiniteSet(Payments(a)')
    BY <1>1, <1>5, <1>9
  <2> QED
    BY <1>1, <1>2, <1>9, <2>1, <2>2, <2>3, <2>4
<1> QED
  BY <1>6, <1>7, <1>8, <1>9 DEF RowsStep, R, P, brings

\* Every balance is what its rows add up to, whatever runs concurrently or
\* again, for any number of accounts, of rows and of executions.
THEOREM BalancedCorrect == Spec => []Balanced
<1>1. SumsInv => Balanced
  BY DEF SumsInv
<1>2. Spec => []BooksInv
  BY BooksInit, BooksStep, PTL DEF Spec
<1> QED
  BY <1>1, <1>2, SumsInit, SumsNext, PTL DEF Spec

-----------------------------------------------------------------------------
(* Withdrawal rows and answers.                                            *)

\* Only a committing execution writes a row, its own token's and only a new one.
RowStep ==
  \/ withdrawal' = withdrawal
  \/ \E e \in Executions, status \in {"completed", "failed"} :
       /\ Withdraws(e) /\ pc[e] = "locked" /\ withdrawal[TokenOf[e]] = "absent"
       /\ withdrawal' = [withdrawal EXCEPT ![TokenOf[e]] = status]

\* Every step leaves the withdrawal rows alone or finalizes an absent one.
LEMMA RowNext == BooksInv /\ [Next]_vars => RowStep
<1> SUFFICES ASSUME BooksInv, [Next]_vars PROVE RowStep
  OBVIOUS
<1>1. ASSUME NEW e \in Executions, Pay(e) \/ Decline(e) PROVE RowStep
  BY <1>1 DEF Pay, Decline, BooksInv, LockInv, RowStep
<1>2. ASSUME NEW e \in Executions, WithdrawNext(e)
      PROVE  Pay(e) \/ Decline(e) \/ withdrawal' = withdrawal
  BY <1>2 DEF WithdrawNext, WithdrawRefused, NoBalance, LockBalance, NoCbu, TransactionFails
<1>3. ASSUME NEW e \in Executions, CreditNext(e) PROVE withdrawal' = withdrawal
  BY <1>3 DEF CreditNext, CreditAccount, CreditFails, FinishCredits
<1>4. ASSUME NEW e \in Executions, Record(e) \/ Crash(e) PROVE withdrawal' = withdrawal
  BY <1>4 DEF Record, Crash
<1>5. UNCHANGED vars => withdrawal' = withdrawal
  BY DEF vars
<1> QED
  BY <1>1, <1>2, <1>3, <1>4, <1>5 DEF Next, Step, RowStep

FinalizedStep == \A w \in Withdrawals : withdrawal[w] # "absent" => withdrawal'[w] = withdrawal[w]

\* A finalized withdrawal is never changed by a second execution of its token.
THEOREM FinalizedCorrect == Spec => Finalized
<1>1. BooksInv /\ RowStep => FinalizedStep
  BY DEF BooksInv, TypeOK, RowStep, FinalizedStep
<1>2. BooksInv /\ [Next]_vars => [FinalizedStep]_vars
  BY <1>1, RowNext
<1>3. Spec => [][FinalizedStep]_vars
  BY <1>2, BooksInit, BooksStep, PTL DEF Spec
<1> QED
  BY <1>3 DEF FinalizedStep, Finalized

\* An execution that has not ended has said nothing; if its token runs once,
\* it has written nothing either.
OpenInv ==
  \A e \in Executions : pc[e] \in {"new", "locked"} =>
    /\ reply[e] = "none" /\ outcome[e] = "pending"
    /\ Withdraws(e) /\ Alone(e) => withdrawal[TokenOf[e]] = "absent"

OutcomeInv == BooksInv /\ OpenInv /\ OutcomeTrue

\* Nothing has been answered or recorded when the executions start.
LEMMA OutcomeInit == Init => OutcomeInv
<1>1. Init => OpenInv /\ OutcomeTrue
  BY DEF Init, OpenInv, OutcomeTrue, Withdraws
<1> QED
  BY <1>1, BooksInit DEF OutcomeInv

\* A step without a new row, by an execution that says nothing or that it failed.
LEMMA OutcomeFailed ==
  ASSUME OutcomeInv, BooksInv', withdrawal' = withdrawal, NEW e \in Executions,
         \A f \in Executions : f # e =>
           pc'[f] = pc[f] /\ reply'[f] = reply[f] /\ outcome'[f] = outcome[f],
         \/ reply'[e] = reply[e] /\ outcome'[e] = outcome[e]
            /\ (pc'[e] \in {"new", "locked"} => pc[e] \in {"new", "locked"})
         \/ /\ pc[e] \in {"new", "locked"} /\ pc'[e] \notin {"new", "locked"}
            /\ reply'[e] \in {"refused", "error"} /\ outcome'[e] \in {"pending", "failed"}
         \/ ~Withdraws(e) /\ pc'[e] \notin {"new", "locked"}
  PROVE  OutcomeInv'
<1>1. OpenInv'
  BY DEF OutcomeInv, OpenInv, Withdraws, Alone
<1>2. OutcomeTrue'
  BY DEF OutcomeInv, OpenInv, OutcomeTrue, Withdraws, Alone
<1> QED
  BY <1>1, <1>2 DEF OutcomeInv

\* The step that writes the row says what it wrote.
LEMMA OutcomeCommitted ==
  ASSUME OutcomeInv, BooksInv', NEW e \in Executions, Pay(e) \/ Decline(e)
  PROVE  OutcomeInv'
<1> DEFINE w == TokenOf[e]
<1>1. w \in Withdrawals /\ Withdraws(e) /\ withdrawal[w] = "absent"
  BY DEF OutcomeInv, BooksInv, LockInv, Withdraws, Pay, Decline
<1>2. /\ pc' = [pc EXCEPT ![e] = "record"]
      /\ outcome' = [outcome EXCEPT ![e] = "completed"]
      /\ \/ reply' = [reply EXCEPT ![e] = "paid"]
            /\ withdrawal' = [withdrawal EXCEPT ![w] = "completed"]
         \/ reply' = [reply EXCEPT ![e] = "declined"]
            /\ withdrawal' = [withdrawal EXCEPT ![w] = "failed"]
  BY DEF Pay, Decline, Ends
<1>3. \A f \in Executions : f # e /\ Alone(f) => TokenOf[f] # w
  BY DEF Alone
<1>4. OpenInv'
  BY <1>1, <1>2, <1>3 DEF OutcomeInv, BooksInv, TypeOK, OpenInv, Withdraws, Alone
<1>5. OutcomeTrue'
  BY <1>1, <1>2, <1>3 DEF OutcomeInv, BooksInv, TypeOK, OpenInv, OutcomeTrue, Withdraws, Alone
<1> QED
  BY <1>4, <1>5 DEF OutcomeInv

\* Every step answers and records only what its transaction wrote.
LEMMA OutcomeStep == OutcomeInv /\ [Next]_vars => OutcomeInv'
<1> SUFFICES ASSUME OutcomeInv, [Next]_vars PROVE OutcomeInv'
  OBVIOUS
<1>1. BooksInv'
  BY BooksStep DEF OutcomeInv
<1> USE DEF Ends
<1>2. ASSUME NEW e \in Executions, WithdrawNext(e) PROVE OutcomeInv'
  <2>1. CASE Pay(e) \/ Decline(e)
    BY <1>1, <2>1, OutcomeCommitted
  <2>2. CASE WithdrawRefused(e) \/ NoBalance(e) \/ NoCbu(e) \/ TransactionFails(e)
    <3>1. /\ withdrawal' = withdrawal /\ pc[e] \in {"new", "locked"}
          /\ pc'[e] \notin {"new", "locked"} /\ reply'[e] \in {"refused", "error"}
          /\ outcome'[e] \in {"pending", "failed"}
          /\ \A f \in Executions : f # e =>
               pc'[f] = pc[f] /\ reply'[f] = reply[f] /\ outcome'[f] = outcome[f]
      BY <2>2 DEF WithdrawRefused, NoBalance, Starts, NoCbu, TransactionFails, OutcomeInv,
         BooksInv, TypeOK, OpenInv
    <3> QED
      BY <1>1, <3>1, OutcomeFailed
  <2>3. CASE LockBalance(e)
    <3>1. /\ withdrawal' = withdrawal /\ reply' = reply /\ outcome' = outcome /\ pc[e] = "new"
          /\ \A f \in Executions : f # e => pc'[f] = pc[f]
      BY <2>3 DEF LockBalance, Starts, OutcomeInv, BooksInv, TypeOK
    <3> QED
      BY <1>1, <3>1, OutcomeFailed
  <2> QED
    BY <1>2, <2>1, <2>2, <2>3 DEF WithdrawNext
<1>3. ASSUME NEW e \in Executions, CreditNext(e) PROVE OutcomeInv'
  <2>1. CASE FinishCredits(e)
    <3>1. /\ withdrawal' = withdrawal /\ ~Withdraws(e) /\ pc'[e] = "record"
          /\ \A f \in Executions : f # e =>
               pc'[f] = pc[f] /\ reply'[f] = reply[f] /\ outcome'[f] = outcome[f]
      BY <2>1 DEF FinishCredits, Credits, OutcomeInv, BooksInv, TypeOK
    <3> QED
      BY <1>1, <3>1, OutcomeFailed
  <2>2. CASE \E a \in Holders : CreditAccount(e, a) \/ CreditFails(e, a)
    <3>1. UNCHANGED <<withdrawal, pc, reply, outcome>>
      BY <2>2 DEF CreditAccount, CreditFails
    <3> QED
      BY <1>1, <3>1, OutcomeFailed
  <2> QED
    BY <1>3, <2>1, <2>2 DEF CreditNext
<1>4. ASSUME NEW e \in Executions, Record(e) \/ Crash(e) PROVE OutcomeInv'
  <2>1. /\ withdrawal' = withdrawal /\ reply' = reply /\ outcome' = outcome
        /\ pc'[e] \notin {"new", "locked"} /\ \A f \in Executions : f # e => pc'[f] = pc[f]
    BY <1>4 DEF Record, Crash, OutcomeInv, BooksInv, TypeOK
  <2> QED
    BY <1>1, <2>1, OutcomeFailed
<1>5. CASE UNCHANGED vars
  BY <1>1, <1>5 DEF vars, OutcomeInv, OpenInv, OutcomeTrue, Withdraws, Alone
<1> QED
  BY <1>2, <1>3, <1>4, <1>5 DEF Next, Step

\* What withdraw answers, and records in the token, is true of the rows: a
\* failure that was answered or recorded took no money, if the token ran once.
THEOREM OutcomeCorrect == Spec => []OutcomeTrue
<1>1. OutcomeInv => OutcomeTrue
  BY DEF OutcomeInv
<1> QED
  BY <1>1, OutcomeInit, OutcomeStep, PTL DEF Spec
=============================================================================
