--------------------------- MODULE TransactionToken ---------------------------
(***************************************************************************)
(* The transaction token: how a request that must not run twice crosses    *)
(* RabbitMQ.  The caller (the gateway, or the order service for its        *)
(* compensations) creates a token, sends the request with withRetry and    *)
(* finally consults the token's entry in Redis.  Every delivery of the     *)
(* request runs check(token) of the service that consumes it: it reads the *)
(* cached status, then tries lock:<uuid>, and executes, answers from the   *)
(* cache or waits for the publication of whoever executes.                 *)
(*                                                                         *)
(* One token is modelled: its keys, lock and channel carry its uuid, so    *)
(* tokens do not interact.  A replica talks to Redis over one connection,  *)
(* which keeps the order of its commands: pipe[r] holds the deliveries     *)
(* whose next command is under way, in the order they were issued.         *)
(***************************************************************************)
EXTENDS Naturals, Sequences

CONSTANTS
  Deliveries,  \* the messages of one request: the first and withRetry's retries
  Replicas,    \* the replicas of the service that consumes the request
  NoOne,       \* no delivery
  Handler,     \* the operation behind the token
  Internal,    \* whose token it is, see Init
  Faults       \* the faults the environment may inject

Handlers == {"create_order", "withdraw", "cancel_draft_order",
             "restore_stock", "add_to_account_balance"}

\* Handlers that answer a SuccessDto; the others answer nothing.
Answering == {"create_order", "withdraw", "cancel_draft_order"}

\* Handlers whose second execution the database refuses: the UNIQUE
\* draft_order_id, the withdrawal_guard trigger, the primary key of increment.
OncePerToken == {"create_order", "withdraw", "add_to_account_balance"}

FaultKinds == {"redis",        \* a Redis command fails and is swallowed
               "lock_ttl",     \* lock:<uuid> expires under a holder at work
               "cache_ttl",    \* transaction:<uuid> expires (EX 120 or 3600)
               "message_ttl",  \* a queued message expires or is lost
               "crash"}        \* a replica stops; noAck: its messages are gone

ASSUME TokenAssumption ==
  /\ NoOne \notin Deliveries
  /\ Handler \in Handlers
  /\ Internal \in BOOLEAN
  /\ Faults \subseteq FaultKinds

VARIABLES
  cache,     \* status in transaction:<uuid>
  lock,      \* the delivery that set lock:<uuid>; the key's value is the uuid
  pipe,      \* commands under way of each replica's Redis connection
  at,        \* the replica each delivery is handed to
  pc,        \* what each delivery does next
  seen,      \* the cached status each delivery read
  outcome,   \* the status each delivery records and publishes
  reply,     \* the answer of each delivery
  effects,   \* the deliveries whose execution of the operation committed
  caller,    \* what the caller knows
  awaiting   \* the delivery whose answer the caller still waits for

vars == <<cache, lock, pipe, at, pc, seen, outcome, reply, effects, caller, awaiting>>

Status == {"pending", "completed", "failed"}
Cached == Status \cup {"nil"}
Redis  == {"get", "setnx", "set_pending", "release_cached", "record",
           "release", "publish"}
Ended  == {"answered", "returned", "dead", "cut"}
Steps  == Redis \cup Ended \cup {"unsent", "queued", "execute", "waiting"}

\* A delivery from the SET NX that gave it the lock to its releaseLock.
Holding == {"set_pending", "release_cached", "execute", "record", "release"}

Told == {"calling", "check", "ok", "failed", "pending", "unknown", "gone"}

TypeOK ==
  /\ cache \in Cached
  /\ lock \in Deliveries \cup {NoOne}
  /\ pipe \in [Replicas -> Seq(Deliveries)]
  /\ at \in [Deliveries -> Replicas]
  /\ pc \in [Deliveries -> Steps]
  /\ seen \in [Deliveries -> Cached]
  /\ outcome \in [Deliveries -> Status]
  /\ reply \in [Deliveries -> Cached]
  /\ effects \subseteq Deliveries
  /\ caller \in Told
  /\ awaiting \in Deliveries \cup {NoOne}

\* An internal token (a service's, or the gateway's for a notification) is
\* sent uncached, in attempts of MESSAGE_TIMEOUT a minute apart.  That of a
\* user's request is cached as Pending (EX 120) before the gateway sends it,
\* in two attempts of 3 s.
Init ==
  /\ cache = IF Internal THEN "nil" ELSE "pending"
  /\ lock = NoOne
  /\ pipe = [r \in Replicas |-> <<>>]
  /\ at \in [Deliveries -> Replicas]
  /\ pc = [d \in Deliveries |-> "unsent"]
  /\ seen = [d \in Deliveries |-> "nil"]
  /\ outcome = [d \in Deliveries |-> "pending"]
  /\ reply = [d \in Deliveries |-> "nil"]
  /\ effects = {}
  /\ caller = "calling"
  /\ awaiting = NoOne

-----------------------------------------------------------------------------
(* The caller.                                                             *)

\* send(...).pipe(withRetry(..)): the next attempt once the last timed out.
Send(d) ==
  /\ caller = "calling" /\ awaiting = NoOne
  /\ pc[d] = "unsent"
  /\ pc' = [pc EXCEPT ![d] = "queued"]
  /\ awaiting' = d
  /\ UNCHANGED <<cache, lock, pipe, at, seen, outcome, reply, effects, caller>>

\* Mutant of AttemptTimeout: the call has no timeout of its own.
AttemptTimeoutNever ==
  /\ caller = "calling" /\ awaiting # NoOne /\ FALSE
  /\ UNCHANGED vars

\* perAttemptTimeout; after the last retry the caller turns to the cache.
AttemptTimeout ==
  /\ caller = "calling" /\ awaiting # NoOne
  /\ awaiting' = NoOne
  /\ caller' = IF \E d \in Deliveries : pc[d] = "unsent" THEN "calling" ELSE "check"
  /\ UNCHANGED <<cache, lock, pipe, at, pc, seen, outcome, reply, effects>>

\* The answer to the current attempt.  A handler that returns nothing
\* completes the call without a value: EmptyError, and the cache is read.
Answer(d) ==
  /\ awaiting = d /\ pc[d] \in {"answered", "returned"}
  /\ awaiting' = NoOne
  /\ caller' = IF Handler \notin Answering THEN "check"
               ELSE IF reply[d] = "completed" THEN "ok" ELSE "failed"
  /\ UNCHANGED <<cache, lock, pipe, at, pc, seen, outcome, reply, effects>>

\* What a cached status tells whoever reads it.
Reads(absent) ==
  CASE cache = "completed" -> "ok"
    [] cache = "failed"    -> "failed"
    [] cache = "pending"   -> "pending"
    [] cache = "nil"       -> absent

\* The catch path of the caller: Completed, Failed, TRANSACTION_PENDING, or
\* the bare error when the entry is absent or unreadable.
CheckCache ==
  /\ caller = "check"
  /\ \/ caller' = Reads("unknown")
     \/ "redis" \in Faults /\ caller' = "unknown"
  /\ UNCHANGED <<cache, lock, pipe, at, pc, seen, outcome, reply, effects, awaiting>>

\* GET /result/:token while the answer is 102.
PollResult ==
  /\ caller = "pending" /\ cache # "pending"
  /\ caller' = Reads("gone")
  /\ UNCHANGED <<cache, lock, pipe, at, pc, seen, outcome, reply, effects, awaiting>>

-----------------------------------------------------------------------------
(* A delivery's Redis commands, executed in the order of its connection.   *)

Continue(d, cmd) ==
  /\ pc' = [pc EXCEPT ![d] = cmd]
  /\ pipe' = [pipe EXCEPT ![at[d]] = Append(Tail(@), d)]

Leave(d, step) ==
  /\ pc' = [pc EXCEPT ![d] = step]
  /\ pipe' = [pipe EXCEPT ![at[d]] = Tail(@)]

Enter(d, cmd) ==
  /\ pc' = [pc EXCEPT ![d] = cmd]
  /\ pipe' = [pipe EXCEPT ![at[d]] = Append(@, d)]

Executes(d, cmd) ==
  /\ pc[d] = cmd
  /\ pipe[at[d]] # <<>>
  /\ Head(pipe[at[d]]) = d

Receive(d) ==
  /\ pc[d] = "queued"
  /\ Enter(d, "get")
  /\ UNCHANGED <<cache, lock, at, seen, outcome, reply, effects, caller, awaiting>>

\* const cached = redis.get(transaction:<uuid>); an error reads as absent.
ReadCache(d) ==
  /\ Executes(d, "get")
  /\ \E s \in {cache} \cup (IF "redis" \in Faults THEN {"nil"} ELSE {}) :
       seen' = [seen EXCEPT ![d] = s]
  /\ Continue(d, "setnx")
  /\ UNCHANGED <<cache, lock, at, outcome, reply, effects, caller, awaiting>>

\* Mutant of AcquireLock: SET without NX.
AcquireLockAnyway(d) ==
  /\ Executes(d, "setnx")
  /\ lock' = d
  /\ \/ seen[d] = "nil" /\ Continue(d, "set_pending")
     \/ seen[d] = "pending" /\ Leave(d, "execute")
     \/ seen[d] \in {"completed", "failed"} /\ Continue(d, "release_cached")
  /\ UNCHANGED <<cache, at, seen, outcome, reply, effects, caller, awaiting>>

\* Mutant of AcquireLock: a cached final status is not honoured.
AcquireLockAndRun(d) ==
  /\ Executes(d, "setnx") /\ lock = NoOne
  /\ lock' = d
  /\ \/ seen[d] = "nil" /\ Continue(d, "set_pending")
     \/ seen[d] # "nil" /\ Leave(d, "execute")
  /\ UNCHANGED <<cache, at, seen, outcome, reply, effects, caller, awaiting>>

\* SET lock:<uuid> NX succeeded: the status read BEFORE decides what follows.
AcquireLock(d) ==
  /\ Executes(d, "setnx") /\ lock = NoOne
  /\ lock' = d
  /\ \/ seen[d] = "nil" /\ Continue(d, "set_pending")
     \/ seen[d] = "pending" /\ Leave(d, "execute")
     \/ seen[d] \in {"completed", "failed"} /\ Continue(d, "release_cached")
  /\ UNCHANGED <<cache, at, seen, outcome, reply, effects, caller, awaiting>>

\* Not locked, or the command failed: waitForTransaction.
MissLock(d) ==
  /\ Executes(d, "setnx")
  /\ lock # NoOne \/ "redis" \in Faults
  /\ Leave(d, "waiting")
  /\ UNCHANGED <<cache, lock, at, seen, outcome, reply, effects, caller, awaiting>>

\* The absent entry is written as Pending and the delivery executes.
MarkPending(d) ==
  /\ Executes(d, "set_pending")
  /\ \/ cache' = "pending"
     \/ "redis" \in Faults /\ UNCHANGED cache
  /\ Leave(d, "execute")
  /\ UNCHANGED <<lock, at, seen, outcome, reply, effects, caller, awaiting>>

\* releaseLock compares the key with the uuid, which every delivery shares:
\* it deletes the key whoever set it.
DeleteLock ==
  \/ lock' = NoOne
  \/ "redis" \in Faults /\ UNCHANGED lock

\* A final status was cached: release and answer it.
AnswerCached(d) ==
  /\ Executes(d, "release_cached")
  /\ DeleteLock
  /\ reply' = [reply EXCEPT ![d] = seen[d]]
  /\ Leave(d, "answered")
  /\ UNCHANGED <<cache, at, seen, outcome, effects, caller, awaiting>>

-----------------------------------------------------------------------------
(* The operation and what it leaves behind.                                *)

\* The withdrawal is of an amount that is not positive, as one execution of the
\* token has found.  Until the first execution the amount is left open.
OfNothing == \E d \in Deliveries : pc[d] = "returned"

\* The database transaction of the handler committed.  A list (restore_stock,
\* add_to_account_balance) commits item by item: for a list cut off between
\* two of them see Checkout.
Commit(d) ==
  /\ pc[d] = "execute" /\ ~OfNothing
  /\ Handler \in OncePerToken => effects = {}
  /\ effects' = effects \cup {d}
  /\ outcome' = [outcome EXCEPT ![d] = "completed"]
  /\ Enter(d, "record")
  /\ UNCHANGED <<cache, lock, at, seen, reply, caller, awaiting>>

\* Mutant of Refuse: the catch path records Completed.
RefuseAsCompleted(d) ==
  /\ pc[d] = "execute"
  /\ outcome' = [outcome EXCEPT ![d] = "completed"]
  /\ Enter(d, "record")
  /\ UNCHANGED <<cache, lock, at, seen, reply, effects, caller, awaiting>>

\* It was refused or threw.  restoreStock and addToBalance only log their
\* failures and complete all the same.
Refuse(d) ==
  /\ pc[d] = "execute" /\ ~OfNothing
  /\ outcome' = [outcome EXCEPT ![d] =
                   IF Handler \in Answering THEN "failed" ELSE "completed"]
  /\ Enter(d, "record")
  /\ UNCHANGED <<cache, lock, at, seen, reply, effects, caller, awaiting>>

\* withdraw returns before its try block, as every execution of this token does:
\* the token stays locked and Pending.
RefuseEarly(d) ==
  /\ pc[d] = "execute" /\ Handler = "withdraw"
  /\ effects = {} /\ \A e \in Deliveries : outcome[e] # "failed"
  /\ pc' = [pc EXCEPT ![d] = "returned"]
  /\ reply' = [reply EXCEPT ![d] = "failed"]
  /\ UNCHANGED <<cache, lock, pipe, at, seen, outcome, effects, caller, awaiting>>

\* SET transaction:<uuid> with the final status, overwriting what is there.
Record(d) ==
  /\ Executes(d, "record")
  /\ \/ cache' = outcome[d]
     \/ "redis" \in Faults /\ UNCHANGED cache
  /\ Continue(d, "release")
  /\ UNCHANGED <<lock, at, seen, outcome, reply, effects, caller, awaiting>>

Release(d) ==
  /\ Executes(d, "release")
  /\ DeleteLock
  /\ Continue(d, "publish")
  /\ UNCHANGED <<cache, at, seen, outcome, reply, effects, caller, awaiting>>

\* PUBLISH transaction:done:<uuid>.  The subscriber is another connection, so
\* a waiter may have its listener too late, and a publication is not kept.
Publish(d) ==
  /\ Executes(d, "publish")
  /\ \E heard \in SUBSET {w \in Deliveries : pc[w] = "waiting"} :
       /\ pc' = [w \in Deliveries |-> IF w \in heard \cup {d} THEN "answered" ELSE pc[w]]
       /\ reply' = [w \in Deliveries |-> IF w \in heard \cup {d} THEN outcome[d] ELSE reply[w]]
  /\ pipe' = [pipe EXCEPT ![at[d]] = Tail(@)]
  /\ UNCHANGED <<cache, lock, at, seen, outcome, effects, caller, awaiting>>

\* Mutant of WaitTimeout: the waiter's timer is shorter than the attempt's.
WaitTimeoutEarly(d) ==
  /\ pc[d] = "waiting"
  /\ pc' = [pc EXCEPT ![d] = "answered"]
  /\ reply' = [reply EXCEPT ![d] = "failed"]
  /\ UNCHANGED <<cache, lock, pipe, at, seen, outcome, effects, caller, awaiting>>

\* Mutant of WaitTimeout: the waiter has no timer.
WaitTimeoutNever(d) == pc[d] = "waiting" /\ FALSE /\ UNCHANGED vars

\* The waiter's timer answers 'failed'.  It outlasts the caller's attempt
\* (3100 ms to 3000 ms, MESSAGE_TIMEOUT + 1000 to MESSAGE_TIMEOUT).
WaitTimeout(d) ==
  /\ pc[d] = "waiting" /\ awaiting # d
  /\ pc' = [pc EXCEPT ![d] = "answered"]
  /\ reply' = [reply EXCEPT ![d] = "failed"]
  /\ UNCHANGED <<cache, lock, pipe, at, seen, outcome, effects, caller, awaiting>>

-----------------------------------------------------------------------------
(* Faults.                                                                 *)

\* Mutant of LockExpires: a lock that goes before a retry arrives, or under
\* its holder.
LockExpiresEarly ==
  /\ lock # NoOne
  /\ lock' = NoOne
  /\ UNCHANGED <<cache, pipe, at, pc, seen, outcome, reply, effects, caller, awaiting>>

\* EX 100.  Once its holder stopped, or left it, the lock is gone before an
\* internal token's next attempt, and after a user's last one.
LockExpires ==
  /\ lock # NoOne
  /\ \/ "lock_ttl" \in Faults
     \/ pc[lock] \notin Holding /\ (Internal \/ caller # "calling")
  /\ lock' = NoOne
  /\ UNCHANGED <<cache, pipe, at, pc, seen, outcome, reply, effects, caller, awaiting>>

\* Mutant of CacheExpires: the entry is written without EX.
CacheExpiresNever == cache # "nil" /\ FALSE /\ UNCHANGED vars

CacheExpires ==
  /\ "cache_ttl" \in Faults /\ cache # "nil"
  /\ cache' = "nil"
  /\ UNCHANGED <<lock, pipe, at, pc, seen, outcome, reply, effects, caller, awaiting>>

MessageLost(d) ==
  /\ "message_ttl" \in Faults /\ pc[d] = "queued"
  /\ pc' = [pc EXCEPT ![d] = "dead"]
  /\ UNCHANGED <<cache, lock, pipe, at, seen, outcome, reply, effects, caller, awaiting>>

\* A replica stops: "cut" if the outcome was decided and not yet recorded.
Crash(r) ==
  /\ "crash" \in Faults
  /\ pc' = [d \in Deliveries |->
              IF at[d] # r \/ pc[d] \notin Redis \cup {"execute", "waiting"} THEN pc[d]
              ELSE IF pc[d] = "record" THEN "cut" ELSE "dead"]
  /\ pipe' = [pipe EXCEPT ![r] = <<>>]
  /\ UNCHANGED <<cache, lock, at, seen, outcome, reply, effects, caller, awaiting>>

-----------------------------------------------------------------------------
CallerNext ==
  \/ \E d \in Deliveries : Send(d) \/ Answer(d)
  \/ AttemptTimeout \/ CheckCache \/ PollResult

DeliveryNext(d) ==
  \/ Receive(d) \/ ReadCache(d) \/ AcquireLock(d) \/ MissLock(d)
  \/ MarkPending(d) \/ AnswerCached(d)
  \/ Commit(d) \/ Refuse(d) \/ RefuseEarly(d) \/ Record(d) \/ Release(d) \/ Publish(d)
  \/ WaitTimeout(d)

Fault ==
  \/ LockExpires \/ CacheExpires
  \/ \E d \in Deliveries : MessageLost(d)
  \/ \E r \in Replicas : Crash(r)

Next == CallerNext \/ (\E d \in Deliveries : DeliveryNext(d)) \/ Fault

Spec == Init /\ [][Next]_vars

\* Timers fire, the lock and a Pending entry expire (a final status, written
\* with KEEPTTL over an expired entry, may stay), connections drain and a
\* running handler ends; messages are lost and replicas crash, or not.
Fairness ==
  /\ WF_vars(CallerNext)
  /\ \A d \in Deliveries : WF_vars(DeliveryNext(d))
  /\ WF_vars(cache = "pending" /\ CacheExpires) /\ WF_vars(LockExpires)

FairSpec == Spec /\ Fairness
-----------------------------------------------------------------------------
(* What the token promises.                                                *)

\* A caller told that the operation succeeded can rely on it: the database
\* transaction of some delivery committed, whatever answered the caller (the
\* handler, the cached status, a publication, the poll).  Under every fault.
OkIsCommitted == caller = "ok" => (Handler \in Answering => effects # {})

\* As long as the lock does not expire under its holder, at most one delivery
\* is between taking lock:<uuid> and releasing it, although releaseLock would
\* delete another delivery's lock: no delivery without the lock reaches it.
ExecutionExclusive ==
  "lock_ttl" \notin Faults =>
    \A d, e \in Deliveries : pc[d] \in Holding /\ pc[e] \in Holding => d = e

\* Once a final status is cached, no further delivery starts to execute: it
\* is answered from the cache, or waits for the publication.
FinalNotReExecuted ==
  [][\A d \in Deliveries :
       pc[d] # "execute" /\ pc'[d] = "execute"
         => cache \notin {"completed", "failed"}]_vars

\* The executions that committed and whose process lived to record it.
Unbroken == {d \in effects : pc[d] # "cut"}

\* The operation behind a token takes effect at most once by the token alone
\* (restore_stock and cancel_draft_order have no guard in the database), but
\* for the executions cut off between the commit and the SET of the status:
\* their locks expire, the entry still reads Pending, and a retry executes.
EffectOnce == \A d, e \in Unbroken : d = e

\* A caller told that the operation failed can rely on it, but for such an
\* execution: no other committed, and none commits later.
FailureIsFinal == caller = "failed" => Unbroken = {}

\* The call ends, whatever is lost: each attempt has a timeout, and there are
\* finitely many.
CallerReturns == caller = "calling" ~> caller # "calling"

\* A caller told TRANSACTION_PENDING can poll GET /result/:token until it
\* answers something else, be it that the entry is gone: never 102 for good.
PendingResolved == caller = "pending" ~> caller \in {"ok", "failed", "gone"}

\* No delivery is left waiting for a publication it missed.
WaitersAnswered ==
  \A d \in Deliveries : pc[d] = "waiting" ~> pc[d] \in Ended
=============================================================================
