-------------------------------- MODULE Balance --------------------------------
(***************************************************************************)
(* The sellers' money in the account service: the balance rows, the income *)
(* and withdrawal rows that explain them, and the concurrent executions of *)
(* withdraw and add_to_account_balance that write all three.               *)
(*                                                                         *)
(* check(token) means an operation to run once; when it fails to (see      *)
(* TransactionToken) two executions share a token, and what keeps the      *)
(* books right is here: row locks, primary keys and the withdrawal_guard   *)
(* trigger.  Amounts are in cents.                                         *)
(***************************************************************************)
EXTENDS Integers, Functions

CONSTANTS
  Holders,      \* accounts with a balance row: users and businesses
  Others,       \* accounts without one: admins
  Withdrawals,  \* tokens of withdraw requests
  Incomes,      \* tokens of add_to_account_balance messages
  Executions,   \* executions of either handler
  Mixes,        \* the sets of executions that may meet
  NoOne,        \* no execution
  TokenOf,      \* TokenOf[e]: the token execution e was sent with
  Account,      \* Account[w]: who withdraws
  Amount,       \* Amount[w]: how much, as the body of POST /balance says
  Sums,         \* Sums[i][a]: what income i brings a, 0 if nothing
  InitBalance,  \* InitBalance[a]
  Faults        \* the faults the environment may inject

FaultKinds == {"crash",   \* the service stops: its transaction is rolled back
               "redis"}   \* the token's status is not written, silently

ASSUME BalanceAssumption ==
  /\ Holders \cap Others = {}
  /\ Withdrawals \cap Incomes = {}
  /\ NoOne \notin Executions
  /\ Mixes \subseteq SUBSET Executions
  /\ TokenOf \in [Executions -> Withdrawals \cup Incomes]
  /\ Account \in [Withdrawals -> Holders \cup Others]
  /\ Amount \in [Withdrawals -> Int]
  /\ Sums \in [Incomes -> [Holders -> Nat]]
  /\ InitBalance \in [Holders -> Nat]
  /\ Faults \subseteq FaultKinds

VARIABLES
  balance,     \* amount of each balance row
  withdrawal,  \* status of each withdrawal row
  income,      \* the <<token, account>> keys of the income rows
  holder,      \* the execution that holds the lock of a balance row
  seen,        \* the amount each withdrawal read under the lock
  left,        \* the accounts each income execution has still to credit
  pc,          \* progress of each execution
  outcome,     \* the status it leaves in its token
  reply,       \* what it answers
  token        \* transaction:<uuid>

vars == <<balance, withdrawal, income, holder, seen, left, pc, outcome, reply, token>>
books == <<balance, withdrawal, income>>

Tokens == Withdrawals \cup Incomes
Withdraws(e) == TokenOf[e] \in Withdrawals
Valid(e) == Withdraws(e) => Amount[TokenOf[e]] > 0

TypeOK ==
  /\ balance \in [Holders -> Nat]
  /\ withdrawal \in [Withdrawals -> {"absent", "completed", "failed"}]
  /\ income \subseteq Incomes \X Holders
  /\ holder \in [Holders -> Executions \cup {NoOne}]
  /\ seen \in [Executions -> Nat]
  /\ left \in [Executions -> SUBSET Holders]
  /\ pc \in [Executions -> {"unsent", "new", "locked", "record", "done", "dead"}]
  /\ outcome \in [Executions -> {"pending", "completed", "failed"}]
  /\ reply \in [Executions -> {"none", "paid", "declined", "refused", "error"}]
  /\ token \in [Tokens -> {"pending", "completed", "failed"}]

\* Every execution follows a check(token) that left the token Pending.
Init ==
  /\ balance = InitBalance
  /\ withdrawal = [w \in Withdrawals |-> "absent"]
  /\ income = {}
  /\ holder = [a \in Holders |-> NoOne]
  /\ seen = [e \in Executions |-> 0]
  /\ left = [e \in Executions |->
               IF Withdraws(e) THEN {} ELSE {a \in Holders : Sums[TokenOf[e]][a] > 0}]
  /\ \E mix \in Mixes : pc = [e \in Executions |-> IF e \in mix THEN "new" ELSE "unsent"]
  /\ outcome = [e \in Executions |-> "pending"]
  /\ reply = [e \in Executions |-> "none"]
  /\ token = [t \in Tokens |-> "pending"]

-----------------------------------------------------------------------------
(* withdraw.                                                               *)

Starts(e) == Withdraws(e) /\ pc[e] = "new" /\ Valid(e)

\* The handler's work is over: status still has to be written to the token.
Ends(e, status, answer) ==
  /\ pc' = [pc EXCEPT ![e] = "record"]
  /\ outcome' = [outcome EXCEPT ![e] = status]
  /\ reply' = [reply EXCEPT ![e] = answer]

\* amount <= 0: answered before the try, so the token stays Pending and the
\* lock on it is left to expire.
WithdrawRefused(e) ==
  /\ Withdraws(e) /\ pc[e] = "new" /\ ~Valid(e)
  /\ pc' = [pc EXCEPT ![e] = "done"]
  /\ reply' = [reply EXCEPT ![e] = "refused"]
  /\ UNCHANGED <<balance, withdrawal, income, holder, seen, left, outcome, token>>

NoBalance(e) ==
  /\ Starts(e) /\ Account[TokenOf[e]] \in Others
  /\ Ends(e, "failed", "error")
  /\ UNCHANGED <<balance, withdrawal, income, holder, seen, left, token>>

\* Mutant of LockBalance: the balance is read without waiting for its lock.
LockBalanceShared(e) ==
  LET a == Account[TokenOf[e]] IN
  /\ Starts(e) /\ a \in Holders
  /\ holder' = [holder EXCEPT ![a] = e]
  /\ seen' = [seen EXCEPT ![e] = balance[a]]
  /\ pc' = [pc EXCEPT ![e] = "locked"]
  /\ UNCHANGED <<balance, withdrawal, income, left, outcome, reply, token>>

\* SELECT .. FOR UPDATE of the balance row.
LockBalance(e) ==
  LET a == Account[TokenOf[e]] IN
  /\ Starts(e) /\ a \in Holders /\ holder[a] = NoOne
  /\ holder' = [holder EXCEPT ![a] = e]
  /\ seen' = [seen EXCEPT ![e] = balance[a]]
  /\ pc' = [pc EXCEPT ![e] = "locked"]
  /\ UNCHANGED <<balance, withdrawal, income, left, outcome, reply, token>>

\* Commit or rollback.
Unlock(e) == holder' = [holder EXCEPT ![Account[TokenOf[e]]] = NoOne]

\* The account has no CBU: nothing was written.
NoCbu(e) ==
  /\ pc[e] = "locked" /\ Unlock(e)
  /\ Ends(e, "failed", "refused")
  /\ UNCHANGED <<balance, withdrawal, income, seen, left, token>>

\* Mutant of Pay: the amount is not compared with the balance.
PayOverdrawn(e) ==
  LET w == TokenOf[e] IN
  /\ pc[e] = "locked" /\ Unlock(e) /\ withdrawal[w] = "absent"
  /\ balance' = [balance EXCEPT ![Account[w]] = seen[e] - Amount[w]]
  /\ withdrawal' = [withdrawal EXCEPT ![w] = "completed"]
  /\ Ends(e, "completed", "paid")
  /\ UNCHANGED <<income, seen, left, token>>

\* Mutant of Pay: the answer is built in the try, after the commit, and throws.
PayReportsError(e) ==
  LET w == TokenOf[e] IN
  /\ pc[e] = "locked" /\ Unlock(e) /\ withdrawal[w] = "absent" /\ seen[e] >= Amount[w]
  /\ balance' = [balance EXCEPT ![Account[w]] = seen[e] - Amount[w]]
  /\ withdrawal' = [withdrawal EXCEPT ![w] = "completed"]
  /\ Ends(e, "failed", "error")
  /\ UNCHANGED <<income, seen, left, token>>

\* Write the balance computed from the one read, finalize the row, commit.
\* A row of this token that is not pending makes withdrawal_guard throw.
Pay(e) ==
  LET w == TokenOf[e] IN
  /\ pc[e] = "locked" /\ Unlock(e) /\ withdrawal[w] = "absent" /\ seen[e] >= Amount[w]
  /\ balance' = [balance EXCEPT ![Account[w]] = seen[e] - Amount[w]]
  /\ withdrawal' = [withdrawal EXCEPT ![w] = "completed"]
  /\ Ends(e, "completed", "paid")
  /\ UNCHANGED <<income, seen, left, token>>

\* Mutant of Decline: no withdrawal_guard, a finalized row is overwritten.
DeclineFinalized(e) ==
  LET w == TokenOf[e] IN
  /\ pc[e] = "locked" /\ Unlock(e) /\ seen[e] < Amount[w]
  /\ withdrawal' = [withdrawal EXCEPT ![w] = "failed"]
  /\ Ends(e, "completed", "declined")
  /\ UNCHANGED <<balance, income, seen, left, token>>

\* Too little money: a failed row, committed, and a Completed token.
Decline(e) ==
  LET w == TokenOf[e] IN
  /\ pc[e] = "locked" /\ Unlock(e) /\ withdrawal[w] = "absent" /\ seen[e] < Amount[w]
  /\ withdrawal' = [withdrawal EXCEPT ![w] = "failed"]
  /\ Ends(e, "completed", "declined")
  /\ UNCHANGED <<balance, income, seen, left, token>>

\* Mutant of TransactionFails: neither committed nor rolled back.
TransactionFailsOpen(e) ==
  /\ pc[e] = "locked"
  /\ Ends(e, "failed", "error")
  /\ UNCHANGED <<balance, withdrawal, income, holder, seen, left, token>>

\* An error, the trigger's among them: rolled back.
TransactionFails(e) ==
  /\ pc[e] = "locked" /\ Unlock(e)
  /\ Ends(e, "failed", "error")
  /\ UNCHANGED <<balance, withdrawal, income, seen, left, token>>

-----------------------------------------------------------------------------
(* add_to_account_balance, one transaction per seller.                     *)

Credits(e) == ~Withdraws(e) /\ pc[e] = "new"

\* Mutant of CreditAccount: the income row has no primary key.
CreditAccountAgain(e, a) ==
  LET i == TokenOf[e] IN
  /\ Credits(e) /\ a \in left[e] /\ holder[a] = NoOne
  /\ balance' = [balance EXCEPT ![a] = @ + Sums[i][a]]
  /\ income' = income \cup {<<i, a>>}
  /\ left' = [left EXCEPT ![e] = @ \ {a}]
  /\ UNCHANGED <<withdrawal, holder, seen, pc, outcome, reply, token>>

\* increment waits for the row lock; the income's key is (token, account).
CreditAccount(e, a) ==
  LET i == TokenOf[e] IN
  /\ Credits(e) /\ a \in left[e] /\ holder[a] = NoOne
  /\ <<i, a>> \notin income
  /\ balance' = [balance EXCEPT ![a] = @ + Sums[i][a]]
  /\ income' = income \cup {<<i, a>>}
  /\ left' = [left EXCEPT ![e] = @ \ {a}]
  /\ UNCHANGED <<withdrawal, holder, seen, pc, outcome, reply, token>>

\* A duplicate key or any other error: rolled back, logged, on to the next.
CreditFails(e, a) ==
  /\ Credits(e) /\ a \in left[e]
  /\ left' = [left EXCEPT ![e] = @ \ {a}]
  /\ UNCHANGED <<balance, withdrawal, income, holder, seen, pc, outcome, reply, token>>

\* Completed, whatever failed; there is no answer.
FinishCredits(e) ==
  /\ Credits(e) /\ left[e] = {}
  /\ Ends(e, "completed", "none")
  /\ UNCHANGED <<balance, withdrawal, income, holder, seen, left, token>>

-----------------------------------------------------------------------------
(* The token's status, and faults.                                         *)

Record(e) ==
  /\ pc[e] = "record"
  /\ \/ /\ pc' = [pc EXCEPT ![e] = "done"]
        /\ token' = [token EXCEPT ![TokenOf[e]] = outcome[e]]
     \/ /\ "redis" \in Faults
        /\ pc' = [pc EXCEPT ![e] = "dead"]
        /\ UNCHANGED token
  /\ UNCHANGED <<balance, withdrawal, income, holder, seen, left, outcome, reply>>

Crash(e) ==
  /\ "crash" \in Faults
  /\ pc[e] \in {"locked", "record"} \/ Credits(e)
  /\ pc' = [pc EXCEPT ![e] = "dead"]
  /\ holder' = [a \in Holders |-> IF holder[a] = e THEN NoOne ELSE holder[a]]
  /\ UNCHANGED <<balance, withdrawal, income, seen, left, outcome, reply, token>>

WithdrawNext(e) ==
  \/ WithdrawRefused(e) \/ NoBalance(e) \/ LockBalance(e) \/ NoCbu(e)
  \/ Pay(e) \/ Decline(e) \/ TransactionFails(e)

CreditNext(e) ==
  \/ \E a \in Holders : CreditAccount(e, a) \/ CreditFails(e, a)
  \/ FinishCredits(e)

Step(e) == WithdrawNext(e) \/ CreditNext(e) \/ Record(e)

Next == \E e \in Executions : Step(e) \/ Crash(e)

Spec == Init /\ [][Next]_vars

\* A message handed to the service is worked on; InnoDB grants its row locks.  An
\* execution takes finitely many steps, so that one that can go on at last does.
Fairness == WF_vars(\E e \in Executions : Step(e))

FairSpec == Spec /\ Fairness

-----------------------------------------------------------------------------
(* Properties, of executions that may share tokens.                        *)

Paid(w, a) == Account[w] = a /\ withdrawal[w] = "completed"
Received(i, a) == <<i, a>> \in income

\* The rows that explain an account's balance.
Receipts(a) == {i \in Incomes : Received(i, a)}
Payments(a) == {w \in Withdrawals : Paid(w, a)}

\* Every balance is what its rows add up to: no concurrent execution loses an
\* update of another, and none books the same token twice.
Balanced ==
  \A a \in Holders :
    balance[a] = InitBalance[a]
                 + SumFunctionOnSet([i \in Incomes |-> Sums[i][a]], Receipts(a))
                 - SumFunctionOnSet(Amount, Payments(a))

\* Step by step: a balance changes exactly with one new row that says by how
\* much, and from what it was at that moment.
Booked ==
  [][\A a \in Holders :
       \/ /\ balance'[a] = balance[a]
          /\ \A i \in Incomes : Received(i, a)' = Received(i, a)
          /\ \A w \in Withdrawals : Paid(w, a)' = Paid(w, a)
       \/ \E i \in Incomes : /\ ~Received(i, a) /\ Received(i, a)'
                             /\ balance'[a] = balance[a] + Sums[i][a]
       \/ \E w \in Withdrawals : /\ ~Paid(w, a) /\ Paid(w, a)'
                                 /\ balance'[a] = balance[a] - Amount[w]]_vars

\* A finalized withdrawal stays as it is, also when its token runs again.
Finalized ==
  [][\A w \in Withdrawals : withdrawal[w] # "absent" => withdrawal'[w] = withdrawal[w]]_vars

Alone(e) == \A f \in Executions : TokenOf[f] = TokenOf[e] => f = e

\* What an execution answers, and leaves in the token, is true of the rows;
\* that it failed, if the token runs once.
OutcomeTrue ==
  \A e \in Executions :
    LET w == TokenOf[e] IN
    Withdraws(e) =>
      /\ reply[e] = "paid" => withdrawal[w] = "completed"
      /\ reply[e] = "declined" => withdrawal[w] = "failed"
      /\ outcome[e] = "completed" => withdrawal[w] # "absent"
      /\ reply[e] \in {"refused", "error"} /\ Alone(e) => withdrawal[w] = "absent"

\* Every execution ends, unless the service stops in its middle, and a valid
\* one leaves a final status in its token, unless the write is lost: nobody
\* waits forever for a row lock, also not for that of an execution that died.
Resolved ==
  <>(\A e \in Executions :
       \/ pc[e] \in {"unsent", "dead"}
       \/ pc[e] = "done" /\ (Valid(e) => token[TokenOf[e]] # "pending"))
=============================================================================
