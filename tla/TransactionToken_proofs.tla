------------------------ MODULE TransactionToken_proofs ------------------------
(***************************************************************************)
(* Proofs about TransactionToken for any number of deliveries and          *)
(* replicas, any handler and any set of faults; the last part, on what the *)
(* token guarantees by itself, for one replica and no fault of Redis.      *)
(***************************************************************************)
EXTENDS TransactionToken, TLAPS

\* What queues and pipes look like after one more command or one less.
LEMMA PipeType ==
  ASSUME TypeOK, NEW d \in Deliveries
  PROVE  /\ [pipe EXCEPT ![at[d]] = Append(@, d)] \in [Replicas -> Seq(Deliveries)]
         /\ pipe[at[d]] # <<>> =>
              /\ [pipe EXCEPT ![at[d]] = Tail(@)] \in [Replicas -> Seq(Deliveries)]
              /\ [pipe EXCEPT ![at[d]] = Append(Tail(@), d)] \in [Replicas -> Seq(Deliveries)]
<1>1. at[d] \in Replicas /\ pipe[at[d]] \in Seq(Deliveries)
  BY DEF TypeOK
<1>2. Append(pipe[at[d]], d) \in Seq(Deliveries)
  BY <1>1
<1>3. pipe[at[d]] # <<>> => Tail(pipe[at[d]]) \in Seq(Deliveries)
  BY <1>1
<1>4. pipe[at[d]] # <<>> => Append(Tail(pipe[at[d]]), d) \in Seq(Deliveries)
  BY <1>3
<1>5. pipe \in [Replicas -> Seq(Deliveries)]
  BY DEF TypeOK
<1> QED
  BY <1>1, <1>2, <1>3, <1>4, <1>5

\* The sets of steps nest as their names say.
LEMMA StepSets ==
  /\ Redis \subseteq Steps /\ Ended \subseteq Steps
  /\ {"unsent", "queued", "execute", "waiting"} \subseteq Steps
  /\ Status \subseteq Cached
BY DEF Redis, Ended, Steps, Status, Cached

\* The keys, queues and callers at the start have the types declared.
LEMMA TypeInit == Init => TypeOK
BY TokenAssumption DEF Init, TypeOK, Cached, Status, Steps, Told

\* The caller's steps keep the types.
LEMMA TypeCaller == TypeOK /\ CallerNext => TypeOK'
<1> SUFFICES ASSUME TypeOK, CallerNext PROVE TypeOK'
  OBVIOUS
<1>1. ASSUME NEW d \in Deliveries, Send(d) PROVE TypeOK'
  BY <1>1 DEF TypeOK, Send, Steps
<1>2. ASSUME NEW d \in Deliveries, Answer(d) PROVE TypeOK'
  BY <1>2 DEF TypeOK, Answer, Told
<1>3. CASE AttemptTimeout
  BY <1>3 DEF TypeOK, AttemptTimeout, Told
<1>4. CASE CheckCache
  BY <1>4 DEF TypeOK, CheckCache, Reads, Told, Cached, Status
<1>5. CASE PollResult
  BY <1>5 DEF TypeOK, PollResult, Reads, Told, Cached, Status
<1> QED
  BY <1>1, <1>2, <1>3, <1>4, <1>5 DEF CallerNext

\* So do the steps of a delivery, Redis command by Redis command.
LEMMA TypeDelivery ==
  ASSUME TypeOK, NEW d \in Deliveries, DeliveryNext(d)
  PROVE  TypeOK'
<1> USE DEF TypeOK
<1>1. CASE Receive(d)
  BY <1>1, PipeType, StepSets DEF Receive, Enter, Redis
<1>2. CASE ReadCache(d)
  BY <1>2, PipeType, StepSets DEF ReadCache, Executes, Continue, Redis, Cached
<1>3. CASE AcquireLock(d)
  <2>1. /\ Executes(d, "setnx") /\ lock' = d
        /\ UNCHANGED <<cache, at, seen, outcome, reply, effects, caller, awaiting>>
    BY <1>3 DEF AcquireLock
  <2>2. \/ Continue(d, "set_pending") \/ Continue(d, "release_cached")
        \/ Leave(d, "execute")
    BY <1>3 DEF AcquireLock
  <2>3. pipe[at[d]] # <<>>
    BY <2>1 DEF Executes
  <2>4. pipe' \in [Replicas -> Seq(Deliveries)]
    BY <2>2, <2>3, PipeType DEF Continue, Leave
  <2>5. pc' \in [Deliveries -> Steps]
    BY <2>2, StepSets DEF Continue, Leave, Redis
  <2> QED
    BY <2>1, <2>4, <2>5
<1>4. CASE MissLock(d)
  BY <1>4, PipeType, StepSets DEF MissLock, Executes, Leave
<1>5. CASE MarkPending(d)
  BY <1>5, PipeType, StepSets DEF MarkPending, Executes, Leave, Cached, Status
<1>6. CASE AnswerCached(d)
  <2>1. /\ Executes(d, "release_cached") /\ Leave(d, "answered") /\ lock' \in {lock, NoOne}
        /\ reply' = [reply EXCEPT ![d] = seen[d]]
        /\ UNCHANGED <<cache, at, seen, outcome, effects, caller, awaiting>>
    BY <1>6 DEF AnswerCached, DeleteLock
  <2>2. pipe' \in [Replicas -> Seq(Deliveries)] /\ pc' \in [Deliveries -> Steps]
    BY <2>1, PipeType, StepSets DEF Executes, Leave, Ended
  <2> QED
    BY <2>1, <2>2
<1>7. CASE Commit(d)
  BY <1>7, PipeType, StepSets DEF Commit, Enter, Redis, Status
<1>8. CASE Refuse(d)
  BY <1>8, PipeType, StepSets DEF Refuse, Enter, Redis, Status
<1>9. CASE Record(d)
  BY <1>9, PipeType, StepSets DEF Record, Executes, Continue, Redis
<1>13. CASE RefuseEarly(d)
  BY <1>13, StepSets DEF RefuseEarly, Ended, Status
<1>10. CASE Release(d)
  BY <1>10, PipeType, StepSets DEF Release, DeleteLock, Executes, Continue, Redis
<1>11. CASE Publish(d)
  BY <1>11, PipeType, StepSets DEF Publish, Executes, Ended
<1>12. CASE WaitTimeout(d)
  BY <1>12, StepSets DEF WaitTimeout, Ended, Status
<1> QED
  BY <1>1, <1>2, <1>3, <1>4, <1>5, <1>6, <1>7, <1>8, <1>9, <1>10, <1>11, <1>12,
     <1>13 DEF DeliveryNext

\* So do expiry, loss and crashes.
LEMMA TypeFault == TypeOK /\ Fault => TypeOK'
<1> SUFFICES ASSUME TypeOK, Fault PROVE TypeOK'
  OBVIOUS
<1> USE DEF TypeOK
<1>1. CASE LockExpires
  BY <1>1 DEF LockExpires
<1>2. CASE CacheExpires
  BY <1>2 DEF CacheExpires, Cached
<1>3. ASSUME NEW d \in Deliveries, MessageLost(d) PROVE TypeOK'
  BY <1>3, StepSets DEF MessageLost, Ended
<1>4. ASSUME NEW r \in Replicas, Crash(r) PROVE TypeOK'
  <2>1. pipe' \in [Replicas -> Seq(Deliveries)]
    BY <1>4 DEF Crash
  <2>2. pc' \in [Deliveries -> Steps]
    BY <1>4, StepSets DEF Crash, Ended
  <2> QED
    BY <1>4, <2>1, <2>2 DEF Crash
<1> QED
  BY <1>1, <1>2, <1>3, <1>4 DEF Fault

\* So does every step.
LEMMA TypeNext == TypeOK /\ [Next]_vars => TypeOK'
<1>1. TypeOK /\ UNCHANGED vars => TypeOK'
  BY DEF TypeOK, vars
<1> QED
  BY <1>1, TypeCaller, TypeDelivery, TypeFault DEF Next

\* Every variable keeps its type.
THEOREM TypeCorrect == Spec => []TypeOK
  BY TypeInit, TypeNext, PTL DEF Spec

-----------------------------------------------------------------------------
(* The lock.  A delivery between SET NX and releaseLock is the one that set *)
(* the key, unless the key expired under it.                                *)

LockOwned ==
  "lock_ttl" \notin Faults =>
    \A d \in Deliveries : pc[d] \in Holding => lock = d

\* Nobody holds the lock at the start.
LEMMA LockInit == Init => LockOwned
BY DEF Init, LockOwned, Holding

\* A step that leaves the lock alone and lets no delivery start to hold it.
LEMMA LockFrame ==
  ASSUME LockOwned, lock' = lock,
         \A d \in Deliveries : pc'[d] \in Holding => pc[d] \in Holding
  PROVE  LockOwned'
BY DEF LockOwned

\* A holder's step that deletes the key or fails to, and holds it no longer.
LEMMA LockDeleted ==
  ASSUME TypeOK, LockOwned, NEW d \in Deliveries, pc[d] \in Holding,
         NEW step, step \notin Holding, DeleteLock,
         pc' = [pc EXCEPT ![d] = step]
  PROVE  LockOwned'
<1>1. ASSUME "lock_ttl" \notin Faults, NEW e \in Deliveries, pc'[e] \in Holding
      PROVE  FALSE
  <2>1. e # d /\ pc[e] \in Holding
    BY <1>1 DEF TypeOK
  <2>2. lock = d /\ lock = e
    BY <1>1, <2>1 DEF LockOwned
  <2> QED
    BY <2>1, <2>2
<1> QED
  BY <1>1 DEF LockOwned

\* A delivery that holds the lock set it, whatever another delivery does.
LEMMA LockDelivery ==
  ASSUME TypeOK, LockOwned, NEW d \in Deliveries, DeliveryNext(d)
  PROVE  LockOwned'
<1>1. CASE Receive(d)
  BY <1>1, LockFrame DEF Receive, Enter, TypeOK, Holding
<1>2. CASE ReadCache(d)
  BY <1>2, LockFrame DEF ReadCache, Continue, TypeOK, Holding
<1>3. CASE AcquireLock(d)
  <2>1. lock = NoOne /\ lock' = d
    BY <1>3 DEF AcquireLock
  <2>2. \A e \in Deliveries : e # d => pc'[e] = pc[e]
    BY <1>3 DEF AcquireLock, Continue, Leave, TypeOK
  <2> QED
    BY <2>1, <2>2, TokenAssumption DEF LockOwned
<1>4. CASE MissLock(d)
  BY <1>4, LockFrame DEF MissLock, Leave, TypeOK, Holding
<1>5. CASE MarkPending(d)
  BY <1>5, LockFrame DEF MarkPending, Executes, Leave, TypeOK, Holding
<1>6. CASE AnswerCached(d)
  BY <1>6, LockDeleted DEF AnswerCached, Executes, Leave, Holding
<1>7. CASE Commit(d)
  BY <1>7, LockFrame DEF Commit, Enter, TypeOK, Holding
<1>8. CASE Refuse(d)
  BY <1>8, LockFrame DEF Refuse, Enter, TypeOK, Holding
<1>9. CASE Record(d)
  BY <1>9, LockFrame DEF Record, Executes, Continue, TypeOK, Holding
<1>13. CASE RefuseEarly(d)
  BY <1>13, LockFrame DEF RefuseEarly, TypeOK, Holding
<1>10. CASE Release(d)
  BY <1>10, LockDeleted DEF Release, Executes, Continue, Holding
<1>11. CASE Publish(d)
  BY <1>11, LockFrame DEF Publish, TypeOK, Holding
<1>12. CASE WaitTimeout(d)
  BY <1>12, LockFrame DEF WaitTimeout, TypeOK, Holding
<1> QED
  BY <1>1, <1>2, <1>3, <1>4, <1>5, <1>6, <1>7, <1>8, <1>9, <1>10, <1>11, <1>12,
     <1>13 DEF DeliveryNext

\* Every step keeps the lock owned by the delivery that holds it: one that
\* expires had no holder at work.
LEMMA LockNext == TypeOK /\ LockOwned /\ [Next]_vars => LockOwned'
<1> SUFFICES ASSUME TypeOK, LockOwned, [Next]_vars PROVE LockOwned'
  OBVIOUS
<1>1. ASSUME NEW d \in Deliveries, Send(d) PROVE LockOwned'
  BY <1>1, LockFrame DEF Send, TypeOK, Holding
<1>2. ASSUME NEW d \in Deliveries, Answer(d) PROVE LockOwned'
  BY <1>2, LockFrame DEF Answer
<1>3. CASE AttemptTimeout
  BY <1>3, LockFrame DEF AttemptTimeout
<1>4. CASE CheckCache \/ PollResult
  BY <1>4, LockFrame DEF CheckCache, PollResult
<1>5. ASSUME NEW d \in Deliveries, DeliveryNext(d) PROVE LockOwned'
  BY <1>5, LockDelivery
<1>6. CASE LockExpires
  BY <1>6 DEF LockExpires, LockOwned, TypeOK
<1>7. CASE CacheExpires
  BY <1>7, LockFrame DEF CacheExpires
<1>8. ASSUME NEW d \in Deliveries, MessageLost(d) PROVE LockOwned'
  BY <1>8, LockFrame DEF MessageLost, TypeOK, Holding
<1>9. ASSUME NEW r \in Replicas, Crash(r) PROVE LockOwned'
  BY <1>9, LockFrame DEF Crash, TypeOK, Holding
<1>10. CASE UNCHANGED vars
  BY <1>10, LockFrame DEF vars
<1> QED
  BY <1>1, <1>2, <1>3, <1>4, <1>5, <1>6, <1>7, <1>8, <1>9, <1>10
  DEF Next, CallerNext, Fault

\* If holders own the lock there is only one of them.
LEMMA LockOwnedExclusive == LockOwned => ExecutionExclusive
BY DEF LockOwned, ExecutionExclusive

\* Between taking the token's lock and releasing it there is at most one
\* delivery, for any number of replicas, unless the key expires: releaseLock,
\* which cannot tell whose lock it deletes, is only reached by the owner.
THEOREM ExclusiveCorrect == Spec => []ExecutionExclusive
<1>1. Spec => []LockOwned
  BY TypeCorrect, LockInit, LockNext, PTL DEF Spec
<1> QED
  BY <1>1, LockOwnedExclusive, PTL

-----------------------------------------------------------------------------
(* Success is only reported of a commit.  The status 'completed' travels    *)
(* from the handler to the cache, to those who read it there, to the        *)
(* waiters and to the caller; at its source there is a commit.              *)

CompletedIsCommitted ==
  Handler \in Answering /\ effects = {} =>
    /\ cache # "completed"
    /\ caller # "ok"
    /\ \A d \in Deliveries :
         seen[d] # "completed" /\ outcome[d] # "completed" /\ reply[d] # "completed"

\* Nothing is completed at the start.
LEMMA CompletedInit == Init => CompletedIsCommitted
BY DEF Init, CompletedIsCommitted

\* A delivery writes, publishes or answers completed only after a commit.
LEMMA CompletedDelivery ==
  ASSUME TypeOK, CompletedIsCommitted, NEW d \in Deliveries, DeliveryNext(d)
  PROVE  CompletedIsCommitted'
<1> USE DEF TypeOK, CompletedIsCommitted
<1>1. CASE Receive(d)
  BY <1>1 DEF Receive
<1>2. CASE ReadCache(d)
  BY <1>2 DEF ReadCache
<1>3. CASE AcquireLock(d) \/ MissLock(d)
  BY <1>3 DEF AcquireLock, MissLock
<1>4. CASE MarkPending(d)
  BY <1>4 DEF MarkPending
<1>5. CASE AnswerCached(d)
  BY <1>5 DEF AnswerCached
<1>6. CASE Commit(d)
  BY <1>6 DEF Commit
<1>7. CASE Refuse(d) \/ RefuseEarly(d)
  BY <1>7 DEF Refuse, RefuseEarly
<1>8. CASE Record(d)
  BY <1>8 DEF Record
<1>9. CASE Release(d)
  BY <1>9 DEF Release
<1>10. CASE Publish(d)
  <2>1. \A w \in Deliveries : reply'[w] \in {reply[w], outcome[d]}
    BY <1>10 DEF Publish
  <2> QED
    BY <1>10, <2>1 DEF Publish
<1>11. CASE WaitTimeout(d)
  BY <1>11 DEF WaitTimeout
<1> QED
  BY <1>1, <1>2, <1>3, <1>4, <1>5, <1>6, <1>7, <1>8, <1>9, <1>10, <1>11
  DEF DeliveryNext

\* Every step keeps completed a consequence of a commit.
LEMMA CompletedNext ==
  TypeOK /\ CompletedIsCommitted /\ [Next]_vars => CompletedIsCommitted'
<1> SUFFICES ASSUME TypeOK, CompletedIsCommitted, [Next]_vars
             PROVE  CompletedIsCommitted'
  OBVIOUS
<1>1. ASSUME NEW d \in Deliveries, DeliveryNext(d) PROVE CompletedIsCommitted'
  BY <1>1, CompletedDelivery
<1> USE DEF CompletedIsCommitted
<1>2. ASSUME NEW d \in Deliveries, Send(d) PROVE CompletedIsCommitted'
  BY <1>2 DEF Send
<1>3. ASSUME NEW d \in Deliveries, Answer(d) PROVE CompletedIsCommitted'
  BY <1>3 DEF Answer
<1>4. CASE AttemptTimeout
  BY <1>4 DEF AttemptTimeout
<1>5. CASE CheckCache
  BY <1>5 DEF CheckCache, Reads, TypeOK, Cached, Status
<1>6. CASE PollResult
  BY <1>6 DEF PollResult, Reads, TypeOK, Cached, Status
<1>7. CASE LockExpires \/ CacheExpires
  BY <1>7 DEF LockExpires, CacheExpires
<1>8. ASSUME NEW d \in Deliveries, MessageLost(d) PROVE CompletedIsCommitted'
  BY <1>8 DEF MessageLost
<1>9. ASSUME NEW r \in Replicas, Crash(r) PROVE CompletedIsCommitted'
  BY <1>9 DEF Crash
<1>10. CASE UNCHANGED vars
  BY <1>10 DEF vars
<1> QED
  BY <1>1, <1>2, <1>3, <1>4, <1>5, <1>6, <1>7, <1>8, <1>9, <1>10
  DEF Next, CallerNext, Fault

\* A caller is told ok by an answer or an entry that says completed.
LEMMA CompletedOk == TypeOK /\ CompletedIsCommitted => OkIsCommitted
BY DEF TypeOK, CompletedIsCommitted, OkIsCommitted

\* A caller told of success was told of a committed transaction, whatever the
\* faults, the number of replicas and the way the news reached it.
THEOREM OkCorrect == Spec => []OkIsCommitted
<1>1. Spec => []CompletedIsCommitted
  BY TypeCorrect, CompletedInit, CompletedNext, PTL DEF Spec
<1> QED
  BY <1>1, TypeCorrect, CompletedOk, PTL

-----------------------------------------------------------------------------
(* The connections.  A replica's connection carries at most one command of *)
(* each delivery handed to it, and of nobody else.                         *)

Under(d) == \E i \in DOMAIN pipe[at[d]] : pipe[at[d]][i] = d

Distinct(q) == \A i, j \in DOMAIN q : q[i] = q[j] => i = j

PipeOK ==
  /\ \A r \in Replicas :
       /\ Distinct(pipe[r])
       /\ \A i \in DOMAIN pipe[r] : at[pipe[r][i]] = r /\ pc[pipe[r][i]] \in Redis
  /\ \A d \in Deliveries : pc[d] \in Redis => Under(d)

\* d's command is to be executed before h's.
Behind(q, d, h) == \E i, j \in DOMAIN q : i < j /\ q[i] = d /\ q[j] = h

\* The places of a queue whose first element is removed, one by one.
LEMMA TailPlaces ==
  ASSUME NEW S, NEW q \in Seq(S), q # <<>>
  PROVE  /\ Tail(q) \in Seq(S) /\ Head(q) = q[1] /\ 1 \in DOMAIN q
         /\ \A i \in DOMAIN Tail(q) : i + 1 \in DOMAIN q /\ Tail(q)[i] = q[i + 1]
         /\ \A i \in DOMAIN q : i # 1 => i - 1 \in DOMAIN Tail(q) /\ Tail(q)[i - 1] = q[i]
         /\ DOMAIN q \subseteq Nat \ {0} /\ DOMAIN Tail(q) \subseteq Nat \ {0}
OBVIOUS

\* The places of a queue with one element more at its end.
LEMMA AppendPlaces ==
  ASSUME NEW S, NEW q \in Seq(S), NEW x \in S
  PROVE  /\ Append(q, x) \in Seq(S)
         /\ DOMAIN Append(q, x) = DOMAIN q \cup {Len(q) + 1}
         /\ \A i \in DOMAIN q : Append(q, x)[i] = q[i] /\ i < Len(q) + 1 /\ i \in Nat \ {0}
         /\ Append(q, x)[Len(q) + 1] = x /\ Len(q) + 1 \in Nat \ {0}
OBVIOUS

\* The first command is executed: the others remain, in their order.
LEMMA TailDistinct ==
  ASSUME NEW S, NEW q \in Seq(S), q # <<>>, Distinct(q)
  PROVE  /\ Distinct(Tail(q))
         /\ \A i \in DOMAIN Tail(q) : Tail(q)[i] # Head(q)
         /\ \A d : (\E i \in DOMAIN q : q[i] = d) /\ d # Head(q)
                     => \E i \in DOMAIN Tail(q) : Tail(q)[i] = d
         /\ \A d, h : Behind(q, d, h) => h # Head(q)
         /\ \A d, h : Behind(q, d, h) /\ d # Head(q) => Behind(Tail(q), d, h)
<1> USE TailPlaces
<1>1. Distinct(Tail(q))
  <2> SUFFICES ASSUME NEW i \in DOMAIN Tail(q), NEW j \in DOMAIN Tail(q),
                      Tail(q)[i] = Tail(q)[j]
               PROVE  i = j
    BY DEF Distinct
  <2>1. i + 1 = j + 1
    BY DEF Distinct
  <2> QED
    BY <2>1
<1>2. ASSUME NEW i \in DOMAIN Tail(q) PROVE Tail(q)[i] # Head(q)
  <2>1. i + 1 # 1
    OBVIOUS
  <2> QED
    BY <2>1 DEF Distinct
<1>3. ASSUME NEW d, \E i \in DOMAIN q : q[i] = d, d # Head(q)
      PROVE  \E i \in DOMAIN Tail(q) : Tail(q)[i] = d
  <2>1. PICK i \in DOMAIN q : q[i] = d
    BY <1>3
  <2>2. i - 1 \in DOMAIN Tail(q) /\ Tail(q)[i - 1] = d
    BY <1>3, <2>1
  <2> QED
    BY <2>2
<1>4. ASSUME NEW d, NEW h, Behind(q, d, h)
      PROVE  h # Head(q) /\ (d # Head(q) => Behind(Tail(q), d, h))
  <2>1. PICK i \in DOMAIN q, j \in DOMAIN q : i < j /\ q[i] = d /\ q[j] = h
    BY <1>4 DEF Behind
  <2>2. j # 1
    BY <2>1
  <2>3. h # Head(q)
    BY <2>1, <2>2 DEF Distinct
  <2>4. ASSUME d # Head(q) PROVE Behind(Tail(q), d, h)
    <3>1. i # 1
      BY <2>1, <2>4
    <3>2. i - 1 \in DOMAIN Tail(q) /\ j - 1 \in DOMAIN Tail(q) /\ i - 1 < j - 1
      BY <2>1, <2>2, <3>1
    <3> QED
      BY <2>1, <2>2, <3>1, <3>2 DEF Behind
  <2> QED
    BY <2>3, <2>4
<1> QED
  BY <1>1, <1>2, <1>3, <1>4

\* What remains of a queue is the other commands.
LEMMA TailRest ==
  ASSUME NEW S, NEW q \in Seq(S), q # <<>>, Distinct(q)
  PROVE  /\ Tail(q) \in Seq(S) /\ Distinct(Tail(q))
         /\ \A i \in DOMAIN Tail(q) :
              Tail(q)[i] # Head(q) /\ \E j \in DOMAIN q : Tail(q)[i] = q[j]
         /\ \A j \in DOMAIN q :
              q[j] # Head(q) => \E i \in DOMAIN Tail(q) : Tail(q)[i] = q[j]
<1>1. \A i \in DOMAIN Tail(q) : \E j \in DOMAIN q : Tail(q)[i] = q[j]
  BY TailPlaces
<1>2. \A j \in DOMAIN q : q[j] # Head(q) => \E i \in DOMAIN Tail(q) : Tail(q)[i] = q[j]
  BY TailDistinct
<1> QED
  BY <1>1, <1>2, TailPlaces, TailDistinct

\* One more command is issued: it is executed after those under way.
LEMMA AppendDistinct ==
  ASSUME NEW S, NEW q \in Seq(S), NEW x \in S
  PROVE  /\ Distinct(q) /\ (\A i \in DOMAIN q : q[i] # x) => Distinct(Append(q, x))
         /\ \A i \in DOMAIN Append(q, x) :
              Append(q, x)[i] = x \/ (i \in DOMAIN q /\ Append(q, x)[i] = q[i])
         /\ \E i \in DOMAIN Append(q, x) : Append(q, x)[i] = x
         /\ \A d : (\E i \in DOMAIN q : q[i] = d)
                     => /\ \E i \in DOMAIN Append(q, x) : Append(q, x)[i] = d
                        /\ Behind(Append(q, x), d, x)
         /\ \A d, h : Behind(q, d, h) => Behind(Append(q, x), d, h)
BY AppendPlaces DEF Distinct, Behind

\* A connection's queue after a step of one delivery, whose own command
\* alone appears or disappears.
LEMMA PipeFrame ==
  ASSUME TypeOK, PipeOK, NEW d \in Deliveries, NEW q \in Seq(Deliveries),
         pipe' = [pipe EXCEPT ![at[d]] = q], at' = at,
         \A e \in Deliveries : e # d => (pc'[e] \in Redis <=> pc[e] \in Redis),
         Distinct(q),
         \A i \in DOMAIN q : \/ q[i] = d /\ pc'[d] \in Redis
                             \/ q[i] # d /\ \E j \in DOMAIN pipe[at[d]] : q[i] = pipe[at[d]][j],
         \A j \in DOMAIN pipe[at[d]] :
            pipe[at[d]][j] # d => \E i \in DOMAIN q : q[i] = pipe[at[d]][j],
         pc'[d] \in Redis => \E i \in DOMAIN q : q[i] = d
  PROVE  PipeOK'
<1> USE DEF TypeOK
<1>1. ASSUME NEW r \in Replicas
      PROVE  /\ Distinct(pipe[r])'
             /\ \A i \in DOMAIN pipe'[r] : at'[pipe'[r][i]] = r /\ pc'[pipe'[r][i]] \in Redis
  <2>1. CASE r = at[d]
    <3>1. pipe'[r] = q
      BY <2>1
    <3>2. Distinct(pipe[r])'
      BY <3>1 DEF Distinct
    <3>3. ASSUME NEW i \in DOMAIN q PROVE at[q[i]] = r /\ pc'[q[i]] \in Redis
      <4>1. CASE q[i] = d
        BY <2>1, <4>1
      <4>2. CASE q[i] # d
        <5>1. PICK j \in DOMAIN pipe[r] : q[i] = pipe[r][j]
          BY <2>1, <4>2
        <5>2. at[q[i]] = r /\ pc[q[i]] \in Redis
          BY <5>1 DEF PipeOK
        <5>3. q[i] \in Deliveries
          OBVIOUS
        <5> QED
          BY <4>2, <5>2, <5>3
      <4> QED
        BY <4>1, <4>2
    <3> QED
      BY <3>1, <3>2, <3>3
  <2>2. CASE r # at[d]
    <3>1. pipe'[r] = pipe[r]
      BY <2>2
    <3>2. Distinct(pipe[r])'
      BY <3>1 DEF Distinct, PipeOK
    <3>3. ASSUME NEW i \in DOMAIN pipe[r]
          PROVE  at[pipe[r][i]] = r /\ pc'[pipe[r][i]] \in Redis
      <4>1. at[pipe[r][i]] = r /\ pc[pipe[r][i]] \in Redis
        BY DEF PipeOK
      <4>2. pipe[r][i] \in Deliveries /\ pipe[r][i] # d
        BY <2>2, <4>1
      <4> QED
        BY <4>1, <4>2
    <3> QED
      BY <3>1, <3>2, <3>3
  <2> QED
    BY <2>1, <2>2
<1>2. ASSUME NEW e \in Deliveries, pc'[e] \in Redis PROVE Under(e)'
  <2>1. CASE e = d
    BY <1>2, <2>1 DEF Under
  <2>2. CASE e # d
    <3>1. pc[e] \in Redis
      BY <1>2, <2>2
    <3>2. PICK j \in DOMAIN pipe[at[e]] : pipe[at[e]][j] = e
      BY <3>1 DEF PipeOK, Under
    <3>3. \E i \in DOMAIN pipe'[at[e]] : pipe'[at[e]][i] = e
      BY <2>2, <3>2
    <3> QED
      BY <3>3 DEF Under
  <2> QED
    BY <2>1, <2>2
<1> QED
  BY <1>1, <1>2 DEF PipeOK

\* A command ends and its delivery issues no other.
LEMMA PipeLeave ==
  ASSUME TypeOK, PipeOK, NEW d \in Deliveries, NEW cmd, Executes(d, cmd),
         pc'[d] \notin Redis, at' = at, pipe' = [pipe EXCEPT ![at[d]] = Tail(@)],
         \A e \in Deliveries : e # d => (pc'[e] \in Redis <=> pc[e] \in Redis)
  PROVE  PipeOK'
<1> DEFINE q == Tail(pipe[at[d]])
<1>1. /\ at[d] \in Replicas /\ pipe[at[d]] \in Seq(Deliveries)
      /\ pipe[at[d]] # <<>> /\ Head(pipe[at[d]]) = d /\ Distinct(pipe[at[d]])
  BY DEF TypeOK, PipeOK, Executes
<1> DEFINE w == pipe[at[d]]
<1>w. w \in Seq(Deliveries) /\ w # <<>> /\ Distinct(w)
  BY <1>1
<1> HIDE DEF w
<1>r. /\ Tail(w) \in Seq(Deliveries) /\ Distinct(Tail(w))
      /\ \A i \in DOMAIN Tail(w) : Tail(w)[i] # Head(w) /\ \E j \in DOMAIN w : Tail(w)[i] = w[j]
      /\ \A j \in DOMAIN w :
            w[j] # Head(w) => \E i \in DOMAIN Tail(w) : Tail(w)[i] = w[j]
  BY <1>w, TailRest
<1>2. /\ q \in Seq(Deliveries) /\ Distinct(q)
      /\ \A i \in DOMAIN q : q[i] # d /\ \E j \in DOMAIN pipe[at[d]] : q[i] = pipe[at[d]][j]
      /\ \A j \in DOMAIN pipe[at[d]] :
            pipe[at[d]][j] # d => \E i \in DOMAIN q : q[i] = pipe[at[d]][j]
  BY <1>1, <1>r DEF w
<1>3. pipe' = [pipe EXCEPT ![at[d]] = q]
  OBVIOUS
<1> HIDE DEF q
<1>5. \A i \in DOMAIN q : \/ q[i] = d /\ pc'[d] \in Redis
                          \/ q[i] # d /\ \E j \in DOMAIN pipe[at[d]] : q[i] = pipe[at[d]][j]
  BY <1>2
<1>6. q \in Seq(Deliveries) /\ Distinct(q)
  BY <1>2
<1>7. \A j \in DOMAIN pipe[at[d]] :
         pipe[at[d]][j] # d => \E i \in DOMAIN q : q[i] = pipe[at[d]][j]
  BY <1>2
<1>8. pc'[d] \in Redis => \E i \in DOMAIN q : q[i] = d
  OBVIOUS
<1>9. \A e \in Deliveries : e # d => (pc'[e] \in Redis <=> pc[e] \in Redis)
  OBVIOUS
<1> QED
  BY <1>3, <1>5, <1>6, <1>7, <1>8, <1>9, PipeFrame

\* A command ends and its delivery issues another.
LEMMA PipeContinue ==
  ASSUME TypeOK, PipeOK, NEW d \in Deliveries, NEW cmd, Executes(d, cmd),
         NEW step \in Redis, Continue(d, step), at' = at
  PROVE  PipeOK'
<1> DEFINE t == Tail(pipe[at[d]])
           q == Append(t, d)
<1>1. /\ at[d] \in Replicas /\ pipe[at[d]] \in Seq(Deliveries)
      /\ pipe[at[d]] # <<>> /\ Head(pipe[at[d]]) = d /\ Distinct(pipe[at[d]])
  BY DEF TypeOK, PipeOK, Executes
<1> DEFINE w == pipe[at[d]]
<1>w. w \in Seq(Deliveries) /\ w # <<>> /\ Distinct(w)
  BY <1>1
<1> HIDE DEF w
<1>r. /\ Tail(w) \in Seq(Deliveries) /\ Distinct(Tail(w))
      /\ \A i \in DOMAIN Tail(w) : Tail(w)[i] # Head(w) /\ \E j \in DOMAIN w : Tail(w)[i] = w[j]
      /\ \A j \in DOMAIN w :
            w[j] # Head(w) => \E i \in DOMAIN Tail(w) : Tail(w)[i] = w[j]
  BY <1>w, TailRest
<1>2. /\ t \in Seq(Deliveries) /\ Distinct(t)
      /\ \A i \in DOMAIN t : t[i] # d /\ \E j \in DOMAIN pipe[at[d]] : t[i] = pipe[at[d]][j]
      /\ \A j \in DOMAIN pipe[at[d]] :
            pipe[at[d]][j] # d => \E i \in DOMAIN t : t[i] = pipe[at[d]][j]
  BY <1>1, <1>r DEF w
<1>3. /\ pipe' = [pipe EXCEPT ![at[d]] = q] /\ pc'[d] = step
      /\ \A e \in Deliveries : e # d => pc'[e] = pc[e]
  BY DEF Continue, TypeOK
<1> HIDE DEF t
<1>4. /\ q \in Seq(Deliveries) /\ Distinct(q)
      /\ \A i \in DOMAIN q : q[i] = d \/ (i \in DOMAIN t /\ q[i] = t[i])
      /\ \E i \in DOMAIN q : q[i] = d
      /\ \A e : (\E i \in DOMAIN t : t[i] = e) => \E i \in DOMAIN q : q[i] = e
  BY <1>2, AppendPlaces, AppendDistinct
<1> HIDE DEF q
<1>5. \A i \in DOMAIN q : \/ q[i] = d
                          \/ q[i] # d /\ \E j \in DOMAIN pipe[at[d]] : q[i] = pipe[at[d]][j]
  BY <1>2, <1>4
<1>6. \A j \in DOMAIN pipe[at[d]] :
         pipe[at[d]][j] # d => \E i \in DOMAIN q : q[i] = pipe[at[d]][j]
  BY <1>2, <1>4
<1> QED
  BY <1>3, <1>4, <1>5, <1>6, PipeFrame

\* A delivery with no command under way issues one.
LEMMA PipeEnter ==
  ASSUME TypeOK, PipeOK, NEW d \in Deliveries, pc[d] \notin Redis,
         NEW step \in Redis, Enter(d, step), at' = at
  PROVE  PipeOK'
<1> DEFINE t == pipe[at[d]]
           q == Append(t, d)
<1>1. at[d] \in Replicas /\ t \in Seq(Deliveries) /\ Distinct(t)
  BY DEF TypeOK, PipeOK
<1>2. \A i \in DOMAIN t : t[i] # d
  BY <1>1 DEF PipeOK
<1>3. /\ pipe' = [pipe EXCEPT ![at[d]] = q] /\ pc'[d] = step
      /\ \A e \in Deliveries : e # d => pc'[e] = pc[e]
  BY DEF Enter, TypeOK
<1>4. /\ q \in Seq(Deliveries) /\ Distinct(q)
      /\ \A i \in DOMAIN q : q[i] = d \/ (i \in DOMAIN t /\ q[i] = t[i])
      /\ \E i \in DOMAIN q : q[i] = d
      /\ \A e : (\E i \in DOMAIN t : t[i] = e) => \E i \in DOMAIN q : q[i] = e
  BY <1>1, <1>2, AppendPlaces, AppendDistinct
<1> HIDE DEF q
<1>5. \A i \in DOMAIN q : \/ q[i] = d
                          \/ q[i] # d /\ \E j \in DOMAIN pipe[at[d]] : q[i] = pipe[at[d]][j]
  BY <1>4
<1>6. \A j \in DOMAIN pipe[at[d]] :
         pipe[at[d]][j] # d => \E i \in DOMAIN q : q[i] = pipe[at[d]][j]
  BY <1>4
<1> QED
  BY <1>3, <1>4, <1>5, <1>6, PipeFrame

\* Deliveries without a command under way take a step without one.
LEMMA PipeIdle ==
  ASSUME TypeOK, PipeOK, pipe' = pipe, at' = at,
         \A d \in Deliveries : pc'[d] \in Redis <=> pc[d] \in Redis
  PROVE  PipeOK'
<1>1. \A r \in Replicas : \A i \in DOMAIN pipe[r] : pipe[r][i] \in Deliveries
  BY DEF TypeOK
<1>2. \A r \in Replicas : Distinct(pipe[r])'
  BY DEF PipeOK, Distinct
<1>3. \A d \in Deliveries : Under(d)' <=> Under(d)
  BY DEF Under
<1> QED
  BY <1>1, <1>2, <1>3 DEF PipeOK

\* The last command of a delivery ends, and it answers or executes.
LEMMA PipeLast ==
  ASSUME TypeOK, PipeOK, NEW d \in Deliveries, NEW cmd, Executes(d, cmd),
         NEW step, step \notin Redis, Leave(d, step), at' = at
  PROVE  PipeOK'
<1>1. pc'[d] = step /\ \A e \in Deliveries : e # d => pc'[e] = pc[e]
  BY DEF Leave, TypeOK
<1>2. pipe' = [pipe EXCEPT ![at[d]] = Tail(@)]
  BY DEF Leave
<1> QED
  BY <1>1, <1>2, PipeLeave

\* A step of a delivery on its own connection.
LEMMA PipeDelivery ==
  ASSUME TypeOK, PipeOK, NEW d \in Deliveries, DeliveryNext(d)
  PROVE  PipeOK'
<1> USE DEF Redis
<1>1. CASE Receive(d)
  BY <1>1, PipeEnter DEF Receive
<1>2. CASE ReadCache(d)
  BY <1>2, PipeContinue DEF ReadCache
<1>3. CASE AcquireLock(d)
  <2>1. Executes(d, "setnx") /\ at' = at
    BY <1>3 DEF AcquireLock
  <2>2. \/ Continue(d, "set_pending") \/ Continue(d, "release_cached")
        \/ Leave(d, "execute")
    BY <1>3 DEF AcquireLock
  <2> QED
    BY <2>1, <2>2, PipeContinue, PipeLast
<1>4. CASE MissLock(d)
  BY <1>4, PipeLast DEF MissLock
<1>5. CASE MarkPending(d)
  BY <1>5, PipeLast DEF MarkPending
<1>6. CASE AnswerCached(d)
  BY <1>6, PipeLast DEF AnswerCached
<1>7. CASE Commit(d)
  BY <1>7, PipeEnter DEF Commit
<1>8. CASE Refuse(d)
  BY <1>8, PipeEnter DEF Refuse
<1>9. CASE Record(d)
  BY <1>9, PipeContinue DEF Record
<1>13. CASE RefuseEarly(d)
  <2> HIDE DEF Redis
  <2>1. pc[d] \notin Redis /\ "returned" \notin Redis
    BY <1>13 DEF RefuseEarly, Redis
  <2> QED
    BY <1>13, <2>1, PipeIdle DEF RefuseEarly, TypeOK
<1>10. CASE Release(d)
  BY <1>10, PipeContinue DEF Release
<1>11. CASE Publish(d)
  <2> HIDE DEF Redis
  <2>1. "answered" \notin Redis /\ "waiting" \notin Redis
    BY DEF Redis
  <2>2. /\ Executes(d, "publish") /\ at' = at
        /\ pipe' = [pipe EXCEPT ![at[d]] = Tail(@)] /\ pc'[d] = "answered"
    BY <1>11 DEF Publish
  <2>3. ASSUME NEW e \in Deliveries, e # d
        PROVE  pc'[e] = pc[e] \/ (pc[e] = "waiting" /\ pc'[e] = "answered")
    BY <1>11, <2>3 DEF Publish
  <2> QED
    BY <2>1, <2>2, <2>3, PipeLeave
<1>12. CASE WaitTimeout(d)
  <2> HIDE DEF Redis
  <2>1. pc[d] \notin Redis /\ "answered" \notin Redis
    BY <1>12 DEF WaitTimeout, Redis
  <2> QED
    BY <1>12, <2>1, PipeIdle DEF WaitTimeout, TypeOK
<1> QED
  BY <1>1, <1>2, <1>3, <1>4, <1>5, <1>6, <1>7, <1>8, <1>9, <1>10, <1>11, <1>12,
     <1>13 DEF DeliveryNext

\* The pipes are empty at the start.
LEMMA PipeInit == Init => PipeOK
BY DEF Init, PipeOK, Distinct, Redis

\* Every step keeps a delivery's command in its place: a crash empties the
\* queue of a replica and stops those whose commands were in it.
LEMMA PipeNext == TypeOK /\ PipeOK /\ [Next]_vars => PipeOK'
<1> SUFFICES ASSUME TypeOK, PipeOK, [Next]_vars PROVE PipeOK'
  OBVIOUS
<1>1. {"unsent", "queued", "dead", "cut"} \cap Redis = {}
  BY DEF Redis
<1>2. ASSUME NEW d \in Deliveries, Send(d) PROVE PipeOK'
  BY <1>1, <1>2, PipeIdle DEF Send, TypeOK
<1>3. ASSUME NEW d \in Deliveries, Answer(d) PROVE PipeOK'
  BY <1>3, PipeIdle DEF Answer
<1>4. CASE AttemptTimeout \/ CheckCache \/ PollResult
  BY <1>4, PipeIdle DEF AttemptTimeout, CheckCache, PollResult
<1>5. ASSUME NEW d \in Deliveries, DeliveryNext(d) PROVE PipeOK'
  BY <1>5, PipeDelivery
<1>6. CASE LockExpires \/ CacheExpires
  BY <1>6, PipeIdle DEF LockExpires, CacheExpires
<1>7. ASSUME NEW d \in Deliveries, MessageLost(d) PROVE PipeOK'
  BY <1>1, <1>7, PipeIdle DEF MessageLost, TypeOK
<1>8. ASSUME NEW r \in Replicas, Crash(r) PROVE PipeOK'
  <2>1. /\ pipe'[r] = <<>> /\ at' = at
        /\ \A s \in Replicas : s # r => pipe'[s] = pipe[s]
        /\ \A d \in Deliveries : at[d] = r => pc'[d] \notin Redis
        /\ \A d \in Deliveries : at[d] # r => pc'[d] = pc[d]
    BY <1>1, <1>8 DEF Crash, TypeOK
  <2>2. \A s \in Replicas : \A i \in DOMAIN pipe[s] : pipe[s][i] \in Deliveries
    BY DEF TypeOK
  <2>3. \A s \in Replicas : Distinct(pipe[s])'
    BY <2>1 DEF PipeOK, Distinct
  <2>4. ASSUME NEW s \in Replicas, NEW i \in DOMAIN pipe'[s]
        PROVE  at'[pipe'[s][i]] = s /\ pc'[pipe'[s][i]] \in Redis
    <3>1. s # r /\ pipe'[s] = pipe[s]
      BY <2>1
    <3>2. at[pipe[s][i]] = s /\ pc[pipe[s][i]] \in Redis /\ pipe[s][i] \in Deliveries
      BY <2>2, <3>1 DEF PipeOK
    <3> QED
      BY <2>1, <3>1, <3>2
  <2>5. ASSUME NEW d \in Deliveries, pc'[d] \in Redis PROVE Under(d)'
    <3>1. at[d] # r /\ pc[d] \in Redis /\ at[d] \in Replicas
      BY <2>1, <2>5 DEF TypeOK
    <3>2. PICK i \in DOMAIN pipe[at[d]] : pipe[at[d]][i] = d
      BY <3>1 DEF PipeOK, Under
    <3> QED
      BY <2>1, <3>1, <3>2 DEF Under
  <2> QED
    BY <2>3, <2>4, <2>5 DEF PipeOK
<1>9. CASE UNCHANGED vars
  BY <1>9, PipeIdle DEF vars
<1> QED
  BY <1>2, <1>3, <1>4, <1>5, <1>6, <1>7, <1>8, <1>9 DEF Next, CallerNext, Fault

\* At most one command of a delivery is under way, on its replica's connection.
LEMMA PipeCorrect == Spec => []PipeOK
  BY TypeCorrect, PipeInit, PipeNext, PTL DEF Spec

\* A step of one delivery on its connection leaves the order of the others'.
LEMMA OrderKept ==
  ASSUME TypeOK, PipeOK, NEW d \in Deliveries,
         \/ pipe' = [pipe EXCEPT ![at[d]] = Append(@, d)]
         \/ /\ \E cmd \in Redis : Executes(d, cmd)
            /\ \/ pipe' = [pipe EXCEPT ![at[d]] = Tail(@)]
               \/ pipe' = [pipe EXCEPT ![at[d]] = Append(Tail(@), d)],
         NEW e \in Deliveries, NEW h \in Deliveries, e # d,
         Behind(pipe[at[e]], e, h)
  PROVE  Behind(pipe'[at[e]], e, h)
<1> DEFINE w == pipe[at[d]]
<1>1. at[d] \in Replicas /\ at[e] \in Replicas /\ w \in Seq(Deliveries) /\ Distinct(w)
  BY DEF TypeOK, PipeOK
<1>2. CASE at[e] # at[d]
  BY <1>1, <1>2 DEF TypeOK
<1>3. ASSUME at[e] = at[d]
      PROVE  Behind(w, e, h)
  BY <1>3
<1>4. CASE at[e] = at[d] /\ pipe' = [pipe EXCEPT ![at[d]] = Append(@, d)]
  <2>1. pipe'[at[e]] = Append(w, d)
    BY <1>1, <1>4 DEF TypeOK
  <2> HIDE DEF w
  <2>2. Behind(Append(w, d), e, h)
    BY <1>1, <1>3, <1>4, AppendDistinct
  <2> QED
    BY <2>1, <2>2
<1>5. CASE at[e] = at[d] /\ (\E cmd \in Redis : Executes(d, cmd))
  <2>1. w # <<>> /\ Head(w) = d
    BY <1>5 DEF Executes
  <2>2. pipe'[at[e]] = Append(w, d) \/ pipe'[at[e]] = Tail(w)
          \/ pipe'[at[e]] = Append(Tail(w), d)
    BY <1>1, <1>5 DEF TypeOK
  <2> HIDE DEF w
  <2>3. Tail(w) \in Seq(Deliveries) /\ Behind(Tail(w), e, h)
    BY <1>1, <1>3, <1>5, <2>1, TailDistinct, TailPlaces
  <2>4. Behind(Append(Tail(w), d), e, h)
    BY <2>3, AppendDistinct
  <2>5. Behind(Append(w, d), e, h)
    BY <1>1, <1>3, <1>5, AppendDistinct
  <2> QED
    BY <2>2, <2>3, <2>4, <2>5
<1> QED
  BY <1>2, <1>4, <1>5

\* No command is to be executed before the one that is.
LEMMA OrderHead ==
  ASSUME TypeOK, PipeOK, NEW d \in Deliveries, NEW cmd, Executes(d, cmd), NEW e
  PROVE  ~ Behind(pipe[at[d]], e, d)
<1> DEFINE w == pipe[at[d]]
<1>1. w \in Seq(Deliveries) /\ Distinct(w) /\ w # <<>> /\ Head(w) = d
  BY DEF TypeOK, PipeOK, Executes
<1> HIDE DEF w
<1>2. ~ Behind(w, e, d)
  BY <1>1, TailDistinct
<1> QED
  BY <1>2 DEF w

\* With one connection, a command issued now is executed after all others.
LEMMA OrderLast ==
  ASSUME TypeOK, PipeOK, \A r, s \in Replicas : r = s,
         NEW d \in Deliveries, NEW cmd, Executes(d, cmd), NEW step, Continue(d, step),
         NEW e \in Deliveries, e # d, pc[e] \in Redis
  PROVE  Behind(pipe'[at[e]], e, d)
<1> DEFINE w == pipe[at[d]]
<1>1. /\ at[d] \in Replicas /\ at[e] = at[d] /\ w \in Seq(Deliveries) /\ Distinct(w)
      /\ w # <<>> /\ Head(w) = d
  BY DEF TypeOK, PipeOK, Executes
<1>2. pipe'[at[e]] = Append(Tail(w), d)
  BY <1>1 DEF Continue, TypeOK
<1>3. \E i \in DOMAIN w : w[i] = e
  <2>1. Under(e)
    BY DEF PipeOK
  <2> QED
    BY <1>1, <2>1 DEF Under
<1> HIDE DEF w
<1>4. Tail(w) \in Seq(Deliveries) /\ \E i \in DOMAIN Tail(w) : Tail(w)[i] = e
  <2>1. Tail(w) \in Seq(Deliveries)
    BY <1>1, TailPlaces
  <2>2. \A x : (\E i \in DOMAIN w : w[i] = x) /\ x # Head(w)
                 => \E i \in DOMAIN Tail(w) : Tail(w)[i] = x
    BY <1>1, TailDistinct
  <2> QED
    BY <1>1, <1>3, <2>1, <2>2
<1>5. Behind(Append(Tail(w), d), e, d)
  BY <1>4, AppendDistinct
<1> QED
  BY <1>2, <1>5

-----------------------------------------------------------------------------
(* One replica.  Its only connection orders what releaseLock deletes behind *)
(* what SET transaction:<uuid> wrote: a delivery whose SET NX is executed   *)
(* after the release issued it after the final status was there to be read, *)
(* or read nothing final and finds the lock still taken.  So the token is   *)
(* enough by itself as long as Redis answers, the entry lives and the lock   *)
(* outlives its holder.  A lock left by a replica that stopped does expire,  *)
(* and its request is executed again: harmless unless it was cut off between *)
(* the commit and the SET of its status.                                     *)

OneReplica == \A r, s \in Replicas : r = s

NoRedisFault == Faults \subseteq {"crash", "message_ttl"}

\* Nothing is committed of a withdrawal of nothing.
NothingInv == OfNothing => effects = {}

\* It is one for good.
LEMMA OfNothingNext ==
  ASSUME TypeOK, NothingInv, [Next]_vars
  PROVE  (OfNothing => OfNothing') /\ NothingInv'
<1> USE DEF TypeOK, NothingInv, OfNothing
<1>1. ASSUME NEW d \in Deliveries, DeliveryNext(d)
      PROVE  (OfNothing => OfNothing') /\ NothingInv'
  <2>1. CASE Receive(d) \/ ReadCache(d) \/ MissLock(d) \/ MarkPending(d)
    BY <2>1 DEF Receive, ReadCache, MissLock, MarkPending, Enter, Continue, Leave, Executes
  <2>2. CASE AcquireLock(d)
    BY <2>2 DEF AcquireLock, Continue, Leave, Executes
  <2>3. CASE AnswerCached(d) \/ Record(d) \/ Release(d)
    BY <2>3 DEF AnswerCached, Record, Release, Continue, Leave, Executes
  <2>4. CASE Commit(d) \/ Refuse(d)
    BY <2>4 DEF Commit, Refuse, Enter
  <2>5. CASE RefuseEarly(d) \/ WaitTimeout(d)
    BY <2>5 DEF RefuseEarly, WaitTimeout
  <2>6. CASE Publish(d)
    BY <2>6 DEF Publish, Executes
  <2> QED
    BY <1>1, <2>1, <2>2, <2>3, <2>4, <2>5, <2>6 DEF DeliveryNext
<1>2. CASE CallerNext
  BY <1>2 DEF CallerNext, Send, Answer, AttemptTimeout, CheckCache, PollResult
<1>3. CASE Fault
  BY <1>3 DEF Fault, LockExpires, CacheExpires, MessageLost, Crash, Redis
<1>4. CASE UNCHANGED vars
  BY <1>4 DEF vars
<1> QED
  BY <1>1, <1>2, <1>3, <1>4 DEF Next

\* Nothing has been found out at the start.
LEMMA NothingCorrect == Spec => []NothingInv
<1>1. Init => NothingInv
  BY DEF Init, NothingInv
<1> QED
  BY <1>1, OfNothingNext, TypeCorrect, PTL DEF Spec

Final(s) == s \in {"completed", "failed"}

\* A delivery that read no final status and is about to try the lock: it is
\* held, and will be when the try is executed, or nothing is final.
LateTry(d) ==
  pc[d] = "setnx" /\ ~Final(seen[d]) =>
    /\ Final(cache) => \E h \in Deliveries : pc[h] \in Holding
    /\ \A h \in Deliveries :
         pc[h] \in {"release", "release_cached"} => Behind(pipe[at[d]], d, h)

\* What a delivery's step says of the cache and of the database.
Stage(d) ==
  /\ pc[d] \in {"set_pending", "execute"} => Unbroken = {} /\ ~Final(cache)
  /\ pc[d] = "record" =>
       /\ ~Final(cache) /\ Final(outcome[d])
       /\ outcome[d] = "failed" => Unbroken = {}
  /\ pc[d] \in {"release", "publish"} =>
       /\ Final(cache) /\ Final(outcome[d])
       /\ outcome[d] = "failed" => cache = "failed"
  /\ pc[d] = "release_cached" => Final(seen[d])
  /\ Final(seen[d]) => cache = seen[d]
  /\ pc[d] = "answered" /\ awaiting = d /\ reply[d] # "completed"
       => cache = "failed" \/ OfNothing

\* What is known of the operation: it took effect once at most, with the
\* status cached or about to be, and what is told of it is true.
Known ==
  /\ EffectOnce
  /\ ~Final(cache) => \A e \in Unbroken : pc[e] = "record"
  /\ cache = "failed" => Unbroken = {}
  /\ caller = "failed" => cache = "failed" \/ OfNothing

OnceInv == Known /\ \A d \in Deliveries : Stage(d) /\ LateTry(d)

\* Nothing has happened at the start.
LEMMA OnceInit == Init => OnceInv
BY DEF Init, OnceInv, Known, Stage, LateTry, Final, EffectOnce, Unbroken

\* A step after which no delivery newly tries the lock or is about to release
\* it, nothing becomes final and, once it is, nobody lets go of the lock.
LEMMA LateFrame ==
  ASSUME TypeOK, \A e \in Deliveries : LateTry(e), at' = at,
         Final(cache') =>
           Final(cache) /\ \A h \in Deliveries : pc[h] \in Holding => pc'[h] \in Holding,
         \A e \in Deliveries : pc'[e] = "setnx" => pc[e] = "setnx" /\ seen'[e] = seen[e],
         \A h \in Deliveries : pc'[h] \in {"release", "release_cached"} => pc'[h] = pc[h],
         \A e, h \in Deliveries :
           pc'[e] = "setnx" /\ Behind(pipe[at[e]], e, h) => Behind(pipe'[at[e]], e, h)
  PROVE  \A e \in Deliveries : LateTry(e)'
<1> SUFFICES ASSUME NEW e \in Deliveries, pc'[e] = "setnx", ~Final(seen'[e])
             PROVE  /\ Final(cache') => \E h \in Deliveries : pc'[h] \in Holding
                    /\ \A h \in Deliveries :
                         pc'[h] \in {"release", "release_cached"}
                           => Behind(pipe'[at'[e]], e, h)
  BY DEF LateTry, Final
<1>1. pc[e] = "setnx" /\ ~Final(seen[e])
  BY DEF Final
<1>2. Final(cache') => \E h \in Deliveries : pc'[h] \in Holding
  BY <1>1 DEF LateTry
<1>3. ASSUME NEW h \in Deliveries, pc'[h] \in {"release", "release_cached"}
      PROVE  Behind(pipe'[at'[e]], e, h)
  BY <1>1, <1>3 DEF LateTry
<1> QED
  BY <1>2, <1>3

\* A step that commits nothing adds nothing to what was committed, and keeps
\* it all if it cuts nobody off.
LEMMA UnbrokenFrame ==
  ASSUME TypeOK, effects' = effects,
         \A e \in Deliveries : pc[e] = "cut" => pc'[e] = "cut"
  PROVE  /\ Unbroken' \subseteq Unbroken
         /\ (\A e \in Deliveries : pc'[e] = "cut" => pc[e] = "cut") => Unbroken' = Unbroken
BY DEF Unbroken, TypeOK

\* What is known stays known when nothing is recorded: an execution about to
\* be recorded is so still, or cut off.
LEMMA KnownFrame ==
  ASSUME TypeOK, Known, effects' = effects, cache' = cache, OfNothing => OfNothing',
         caller' = "failed" => cache = "failed" \/ OfNothing',
         \A e \in Deliveries : pc[e] \in {"record", "cut"} => pc'[e] \in {pc[e], "cut"}
  PROVE  Known'
<1>1. Unbroken' \subseteq Unbroken
  BY UnbrokenFrame DEF TypeOK
<1>2. \A e \in Unbroken' : e \in Deliveries /\ pc'[e] # "cut"
  BY DEF Unbroken, TypeOK
<1>3. EffectOnce'
  BY <1>1 DEF Known, EffectOnce
<1>4. ~Final(cache') => \A e \in Unbroken' : pc'[e] = "record"
  BY <1>1, <1>2 DEF Known, Final
<1> QED
  BY <1>1, <1>3, <1>4 DEF Known

\* The deliveries whose step is not the one taken.
LEMMA StageFrame ==
  ASSUME NEW e, Stage(e), pc'[e] = pc[e], seen'[e] = seen[e], outcome'[e] = outcome[e],
         reply'[e] = reply[e], awaiting' \in {awaiting, NoOne}, e # NoOne,
         cache' = cache, Unbroken' \subseteq Unbroken, OfNothing => OfNothing'
  PROVE  Stage(e)'
BY DEF Stage, Final

\* A step of d that changes neither the cache nor the database, keeps its hold
\* of the lock once a status is final, starts no try of it and no release.
LEMMA OnceQuiet ==
  ASSUME TypeOK, OfNothing => OfNothing', PipeOK, OnceInv, NEW d \in Deliveries,
         UNCHANGED <<cache, at, seen, effects, caller, awaiting>>,
         pc[d] \notin {"record", "cut"},
         pc[d] \in Holding /\ Final(cache) => pc'[d] \in Holding,
         \A e \in Deliveries :
           e # d => pc'[e] = pc[e] /\ outcome'[e] = outcome[e] /\ reply'[e] = reply[e],
         pc'[d] \notin {"setnx", "release", "release_cached"},
         \/ pipe' = pipe
         \/ pipe' = [pipe EXCEPT ![at[d]] = Append(@, d)]
         \/ /\ \E cmd \in Redis : Executes(d, cmd)
            /\ \/ pipe' = [pipe EXCEPT ![at[d]] = Tail(@)]
               \/ pipe' = [pipe EXCEPT ![at[d]] = Append(Tail(@), d)],
         Stage(d)'
  PROVE  OnceInv'
<1>1. ASSUME NEW e \in Deliveries PROVE Stage(e)'
  <2>1. e # NoOne
    BY TokenAssumption
  <2>2. Unbroken' \subseteq Unbroken
    BY UnbrokenFrame
  <2> QED
    BY <2>1, <2>2, StageFrame DEF OnceInv
<1>2. \A e \in Deliveries : LateTry(e)'
  <2>1. ASSUME NEW e \in Deliveries, NEW h \in Deliveries, pc'[e] = "setnx",
               Behind(pipe[at[e]], e, h)
        PROVE  Behind(pipe'[at[e]], e, h)
    BY <2>1, OrderKept
  <2> QED
    BY <2>1, LateFrame DEF OnceInv
<1>3. Known'
  BY KnownFrame DEF OnceInv, Known
<1> QED
  BY <1>1, <1>2, <1>3 DEF OnceInv

\* The caller's steps: failed is told by an answer, or by the entry.
LEMMA OnceCaller ==
  ASSUME TypeOK, OfNothing => OfNothing', PipeOK, OnceInv, CallerNext PROVE OnceInv'
<1>1. ASSUME UNCHANGED <<cache, lock, pipe, at, seen, outcome, reply, effects>>,
             \A e \in Deliveries : Stage(e)',
             \A e \in Deliveries : pc'[e] = pc[e] \/ (pc[e] = "unsent" /\ pc'[e] = "queued"),
             caller' = "failed" => cache = "failed" \/ OfNothing'
      PROVE  OnceInv'
  <2>1. \A e \in Deliveries : LateTry(e)'
    BY <1>1, LateFrame DEF OnceInv, Holding
  <2>2. Known'
    BY <1>1, KnownFrame DEF OnceInv
  <2> QED
    BY <1>1, <2>1, <2>2 DEF OnceInv
<1>2. ASSUME NEW d \in Deliveries, Send(d) PROVE OnceInv'
  <2>1. ASSUME NEW e \in Deliveries PROVE Stage(e)'
    <3>1. Unbroken' \subseteq Unbroken /\ Unbroken = Unbroken'
      BY <1>2, UnbrokenFrame DEF Send, TypeOK
    <3> QED
      BY <1>2, <3>1, TokenAssumption DEF Send, TypeOK, OnceInv, Stage, Final
  <2> QED
    BY <1>1, <1>2, <2>1 DEF Send, OnceInv, Known, TypeOK
<1>3. ASSUME NEW d \in Deliveries, Answer(d) PROVE OnceInv'
  <2>1. ASSUME NEW e \in Deliveries PROVE Stage(e)'
    BY <1>3, StageFrame, TokenAssumption DEF Answer, OnceInv, Unbroken
  <2>2. caller' = "failed" => cache = "failed" \/ OfNothing'
    <3>1. pc[d] = "returned" => OfNothing
      BY DEF OfNothing
    <3> QED
      BY <1>3, <3>1 DEF Answer, OnceInv, Stage
  <2> QED
    BY <1>1, <1>3, <2>1, <2>2 DEF Answer
<1>4. CASE AttemptTimeout
  <2>1. ASSUME NEW e \in Deliveries PROVE Stage(e)'
    BY <1>4, StageFrame, TokenAssumption DEF AttemptTimeout, OnceInv, Unbroken
  <2> QED
    BY <1>1, <1>4, <2>1 DEF AttemptTimeout
<1>5. CASE CheckCache \/ PollResult
  <2>1. ASSUME NEW e \in Deliveries PROVE Stage(e)'
    BY <1>5, StageFrame, TokenAssumption DEF CheckCache, PollResult, OnceInv, Unbroken
  <2>2. caller' = "failed" => cache = "failed" \/ OfNothing'
    BY <1>5 DEF CheckCache, PollResult, Reads, TypeOK, Cached, Status
  <2> QED
    BY <1>1, <1>5, <2>1, <2>2 DEF CheckCache, PollResult
<1> QED
  BY <1>2, <1>3, <1>4, <1>5 DEF CallerNext

\* A delivery that reads the cache and issues its try: if nothing is final
\* yet, no release is under way either.
LEMMA OnceReadCache ==
  ASSUME TypeOK, OfNothing => OfNothing', PipeOK, OnceInv, NoRedisFault,
         NEW d \in Deliveries, ReadCache(d)
  PROVE  OnceInv'
<1>1. /\ Executes(d, "get") /\ seen' = [seen EXCEPT ![d] = cache] /\ Continue(d, "setnx")
      /\ UNCHANGED <<cache, lock, at, outcome, reply, effects, caller, awaiting>>
  BY DEF ReadCache, NoRedisFault
<1>2. /\ pc'[d] = "setnx" /\ seen'[d] = cache
      /\ \A e \in Deliveries : e # d => pc'[e] = pc[e] /\ seen'[e] = seen[e]
  BY <1>1 DEF Continue, TypeOK
<1>u. Unbroken' = Unbroken /\ Unbroken' \subseteq Unbroken /\ pc[d] = "get"
  BY <1>1, <1>2, UnbrokenFrame DEF Executes
<1>3. ASSUME NEW e \in Deliveries PROVE Stage(e)'
  <2>1. CASE e = d
    BY <1>1, <1>2, <1>u, <2>1 DEF Stage
  <2>2. CASE e # d
    BY <1>1, <1>2, <1>u, <2>2, StageFrame, TokenAssumption DEF OnceInv
  <2> QED
    BY <2>1, <2>2
<1>4. ASSUME NEW e \in Deliveries PROVE LateTry(e)'
  <2>1. CASE e = d
    <3>1. ASSUME ~Final(cache), NEW h \in Deliveries, pc'[h] \in {"release", "release_cached"}
          PROVE  FALSE
      <4>1. pc[h] \in {"release", "release_cached"} /\ Stage(h)
        BY <1>2, <3>1 DEF OnceInv
      <4> QED
        BY <3>1, <4>1 DEF Stage
    <3> QED
      BY <1>1, <1>2, <2>1, <3>1 DEF LateTry, Final
  <2>2. CASE e # d
    <3>1. ASSUME NEW h \in Deliveries, Behind(pipe[at[e]], e, h)
          PROVE  Behind(pipe'[at[e]], e, h)
      BY <1>1, <2>2, <3>1, OrderKept DEF Continue, Redis
    <3>2. LateTry(e)
      BY DEF OnceInv
    <3>3. \A h \in Deliveries : pc[h] \in Holding => pc'[h] \in Holding
      BY <1>2, <1>u DEF Holding
    <3> QED
      BY <1>1, <1>2, <2>2, <3>1, <3>2, <3>3 DEF LateTry, Final
  <2> QED
    BY <2>1, <2>2
<1>5. Known'
  BY <1>1, <1>2, <1>u, KnownFrame DEF OnceInv, Known
<1> QED
  BY <1>3, <1>4, <1>5 DEF OnceInv

\* A delivery received, refused by the lock or tired of waiting, and an operation
\* refused, early or not: nothing changes but the delivery's own state.
LEMMA OnceDelivery ==
  ASSUME TypeOK, OfNothing => OfNothing', PipeOK, OnceInv, NoRedisFault, NEW d \in Deliveries,
         Receive(d) \/ MissLock(d) \/ Refuse(d) \/ RefuseEarly(d) \/ WaitTimeout(d)
  PROVE  OnceInv'
<1>1. Stage(d)
  BY DEF OnceInv
<1>u. ASSUME effects' = effects, pc[d] # "cut",
             \A e \in Deliveries : e # d => pc'[e] = pc[e]
      PROVE  Unbroken' \subseteq Unbroken
  BY <1>u, UnbrokenFrame
<1>2. CASE Receive(d)
  <2>1. Stage(d)'
    BY <1>1, <1>2 DEF Receive, Enter, Stage, TypeOK, Final
  <2> QED
    BY <1>2, <2>1, OnceQuiet DEF Receive, Enter, TypeOK, Holding
<1>3. CASE MissLock(d)
  <2>1. Stage(d)'
    BY <1>1, <1>3 DEF MissLock, Leave, Stage, TypeOK, Final
  <2> QED
    BY <1>3, <2>1, OnceQuiet DEF MissLock, Executes, Leave, TypeOK, Redis, Holding
<1>4. CASE Refuse(d)
  <2>1. Stage(d)'
    BY <1>1, <1>4, <1>u DEF Refuse, Enter, Stage, TypeOK, Final
  <2> QED
    BY <1>4, <2>1, OnceQuiet DEF Refuse, Enter, TypeOK, Holding
<1>5. CASE WaitTimeout(d)
  <2>1. Stage(d)'
    BY <1>1, <1>5 DEF WaitTimeout, Stage, TypeOK, Final
  <2> QED
    BY <1>5, <2>1, OnceQuiet DEF WaitTimeout, TypeOK, Holding
<1>6. CASE RefuseEarly(d)
  <2>1. Stage(d)'
    BY <1>1, <1>6 DEF RefuseEarly, Stage, TypeOK, Final
  <2> QED
    BY <1>1, <1>6, <2>1, OnceQuiet DEF RefuseEarly, Stage, TypeOK
<1> QED
  BY <1>2, <1>3, <1>4, <1>5, <1>6

\* The lock is taken by a delivery that read the final status, or before
\* there is one: its try was late otherwise.
LEMMA OnceAcquireLock ==
  ASSUME TypeOK, OfNothing => OfNothing', PipeOK, LockOwned, OnceInv, OneReplica,
         NoRedisFault, NEW d \in Deliveries, AcquireLock(d)
  PROVE  OnceInv'
<1>1. /\ Executes(d, "setnx") /\ pc[d] = "setnx" /\ lock = NoOne /\ lock' = d /\ d # NoOne
      /\ UNCHANGED <<cache, at, seen, outcome, reply, effects, caller, awaiting>>
  BY TokenAssumption DEF AcquireLock, Executes
<1>2. /\ \A e \in Deliveries : e # d => pc'[e] = pc[e]
      /\ \/ ~Final(seen[d]) /\ pc'[d] \in {"set_pending", "execute"}
         \/ Final(seen[d]) /\ Continue(d, "release_cached") /\ pc'[d] = "release_cached"
  BY DEF AcquireLock, Continue, Leave, TypeOK, Final
<1>3. \/ pipe' = [pipe EXCEPT ![at[d]] = Tail(@)]
      \/ pipe' = [pipe EXCEPT ![at[d]] = Append(Tail(@), d)]
  BY DEF AcquireLock, Continue, Leave
<1>4. Stage(d) /\ LateTry(d) /\ Known
  BY DEF OnceInv
<1>u. /\ Unbroken' = Unbroken
      /\ \A e \in Deliveries : pc[e] \notin Holding
      /\ \A e \in Unbroken : e \in Deliveries
  <2>1. \A e \in Deliveries : pc[e] \notin Holding
    BY <1>1, TokenAssumption DEF LockOwned, NoRedisFault
  <2> QED
    BY <1>1, <1>2, <2>1, UnbrokenFrame DEF Unbroken, TypeOK
<1>5. ~Final(seen[d]) => ~Final(cache) /\ Unbroken = {}
  BY <1>1, <1>4, <1>u DEF LateTry, Known, Holding
<1>6. ASSUME NEW e \in Deliveries PROVE Stage(e)'
  <2>1. CASE e = d
    BY <1>1, <1>2, <1>4, <1>5, <1>u, <2>1 DEF Stage, Final
  <2>2. CASE e # d
    BY <1>1, <1>2, <1>u, <2>2, StageFrame, TokenAssumption DEF OnceInv
  <2> QED
    BY <2>1, <2>2
<1>7. ASSUME NEW e \in Deliveries, pc'[e] = "setnx", ~Final(seen'[e]) PROVE LateTry(e)'
  <2>1. e # d /\ pc[e] = "setnx" /\ ~Final(seen[e])
    BY <1>1, <1>2, <1>7 DEF Final
  <2>2. ASSUME NEW h \in Deliveries, pc'[h] \in {"release", "release_cached"}
        PROVE  Behind(pipe'[at'[e]], e, h)
    <3>1. CASE h = d
      <4>1. Continue(d, "release_cached")
        BY <1>2, <2>2, <3>1
      <4> QED
        BY <1>1, <2>1, <3>1, <4>1, OrderLast DEF Redis, OneReplica
    <3>2. CASE h # d
      <4>1. Behind(pipe[at[e]], e, h)
        BY <1>2, <2>1, <2>2, <3>2 DEF OnceInv, LateTry
      <4> QED
        BY <1>1, <1>3, <2>1, <4>1, OrderKept DEF Redis
    <3> QED
      BY <3>1, <3>2
  <2> QED
    <3>1. pc'[d] \in Holding
      BY <1>2 DEF Holding
    <3> QED
      BY <1>1, <2>2, <3>1 DEF LateTry
<1>8. \A e \in Deliveries : LateTry(e)'
  BY <1>7 DEF LateTry, Final
<1>9. Known'
  <2>1. \A e \in Deliveries : pc[e] \notin {"record", "cut"} \/ pc'[e] = pc[e]
    BY <1>1, <1>2
  <2> QED
    BY <1>1, <1>4, <2>1, KnownFrame DEF Known
<1> QED
  BY <1>6, <1>8, <1>9 DEF OnceInv

\* The entry is written as Pending before anything is final.
LEMMA OnceMarkPending ==
  ASSUME TypeOK, OfNothing => OfNothing', PipeOK, OnceInv, NoRedisFault,
         NEW d \in Deliveries, MarkPending(d)
  PROVE  OnceInv'
<1>1. /\ Executes(d, "set_pending") /\ pc[d] = "set_pending" /\ cache' = "pending"
      /\ Leave(d, "execute")
      /\ UNCHANGED <<lock, at, seen, outcome, reply, effects, caller, awaiting>>
  BY DEF MarkPending, Executes, NoRedisFault
<1>2. /\ pc'[d] = "execute" /\ \A e \in Deliveries : e # d => pc'[e] = pc[e]
      /\ pipe' = [pipe EXCEPT ![at[d]] = Tail(@)]
  BY <1>1 DEF Leave, TypeOK
<1>3. Stage(d) /\ Known
  BY DEF OnceInv
<1>4. /\ Unbroken = {} /\ Unbroken' \subseteq Unbroken
      /\ ~Final(cache) /\ ~Final(cache')
  BY <1>1, <1>2, <1>3, UnbrokenFrame DEF Stage, Final
<1>5. ASSUME NEW e \in Deliveries PROVE Stage(e)'
  <2>1. Stage(e)
    BY DEF OnceInv
  <2>2. CASE e = d
    BY <1>1, <1>2, <1>3, <1>4, <2>1, <2>2 DEF Stage, Final
  <2>3. CASE e # d
    BY <1>1, <1>2, <1>4, <2>1, <2>3 DEF Stage, Final
  <2> QED
    BY <2>2, <2>3
<1>6. ASSUME NEW e \in Deliveries, NEW h \in Deliveries, pc'[e] = "setnx",
             Behind(pipe[at[e]], e, h)
      PROVE  Behind(pipe'[at[e]], e, h)
  BY <1>1, <1>2, <1>6, OrderKept DEF Redis
<1>7. \A e \in Deliveries : LateTry(e)'
  BY <1>1, <1>2, <1>4, <1>6, LateFrame DEF OnceInv
<1>8. Known'
  BY <1>1, <1>3, <1>4 DEF Known, Final, EffectOnce
<1> QED
  BY <1>5, <1>7, <1>8 DEF OnceInv

\* The operation takes effect: its delivery owns the lock, so no other is
\* about to execute.
LEMMA OnceCommit ==
  ASSUME TypeOK, OfNothing => OfNothing', PipeOK, LockOwned, OnceInv, NoRedisFault,
         NEW d \in Deliveries, Commit(d)
  PROVE  OnceInv'
<1>1. /\ pc[d] = "execute" /\ effects' = effects \cup {d} /\ outcome'[d] = "completed"
      /\ pc'[d] = "record" /\ pipe' = [pipe EXCEPT ![at[d]] = Append(@, d)]
      /\ \A e \in Deliveries : e # d => pc'[e] = pc[e] /\ outcome'[e] = outcome[e]
      /\ UNCHANGED <<cache, lock, at, seen, reply, caller, awaiting>>
  BY DEF Commit, Enter, TypeOK
<1>2. Stage(d) /\ Known /\ Unbroken = {} /\ ~Final(cache)
  BY <1>1 DEF OnceInv, Stage
<1>u. Unbroken' = {d}
  BY <1>1, <1>2 DEF Unbroken, TypeOK
<1>3. \A e \in Deliveries : pc[e] \in Holding => lock = e
  BY DEF LockOwned, NoRedisFault
<1>4. lock = d /\ d # NoOne
  BY <1>1, <1>3, TokenAssumption DEF Holding
<1>5. ASSUME NEW e \in Deliveries PROVE Stage(e)'
  <2>1. Stage(e)
    BY DEF OnceInv
  <2>2. CASE e = d
    BY <1>1, <1>2, <2>2 DEF Stage, Final
  <2>3. CASE e # d
    <3>1. pc[e] \notin {"set_pending", "execute", "record"}
      BY <1>3, <1>4, <2>3 DEF Holding
    <3> QED
      BY <1>1, <1>2, <2>1, <2>3, <3>1 DEF Stage, Final
  <2> QED
    BY <2>2, <2>3
<1>6. ASSUME NEW e \in Deliveries, NEW h \in Deliveries, pc'[e] = "setnx",
             Behind(pipe[at[e]], e, h)
      PROVE  Behind(pipe'[at[e]], e, h)
  BY <1>1, <1>6, OrderKept
<1>7. \A e \in Deliveries : LateTry(e)'
  BY <1>1, <1>6, LateFrame DEF OnceInv, Holding
<1>8. Known'
  BY <1>1, <1>2, <1>u DEF Known, Final, EffectOnce
<1> QED
  BY <1>5, <1>7, <1>8 DEF OnceInv

\* The status becomes final, and every try already issued is executed before
\* the release that is issued now.
LEMMA OnceRecord ==
  ASSUME TypeOK, OfNothing => OfNothing', PipeOK, LockOwned, OnceInv, OneReplica, NoRedisFault,
         NEW d \in Deliveries, Record(d)
  PROVE  OnceInv'
<1>1. /\ Executes(d, "record") /\ pc[d] = "record" /\ cache' = outcome[d]
      /\ Continue(d, "release")
      /\ UNCHANGED <<lock, at, seen, outcome, reply, effects, caller, awaiting>>
  BY DEF Record, Executes, NoRedisFault
<1>2. /\ pc'[d] = "release" /\ \A e \in Deliveries : e # d => pc'[e] = pc[e]
      /\ pipe' = [pipe EXCEPT ![at[d]] = Append(Tail(@), d)]
  BY <1>1 DEF Continue, TypeOK
<1>3. /\ Stage(d) /\ Known /\ ~Final(cache) /\ Final(cache')
      /\ outcome[d] = "failed" => Unbroken = {}
  BY <1>1 DEF OnceInv, Stage
<1>u. Unbroken' = Unbroken
  BY <1>1, <1>2, UnbrokenFrame
<1>4. \A e \in Deliveries : pc[e] \in Holding => lock = e
  BY DEF LockOwned, NoRedisFault
<1>5. lock = d /\ d # NoOne
  BY <1>1, <1>4, TokenAssumption DEF Holding
<1>6. ASSUME NEW e \in Deliveries PROVE Stage(e)'
  <2>1. Stage(e)
    BY DEF OnceInv
  <2>2. CASE e = d
    BY <1>1, <1>2, <1>3, <1>u, <2>1, <2>2 DEF Stage, Final
  <2>3. CASE e # d
    <3>1. pc[e] \notin {"set_pending", "execute", "record"}
      BY <1>4, <1>5, <2>3 DEF Holding
    <3>2. ~Final(seen[e]) /\ pc[e] \notin {"release", "publish", "release_cached"}
      BY <1>3, <2>1 DEF Stage
    <3>3. pc[e] = "answered" /\ awaiting = e /\ reply[e] # "completed" => OfNothing
      BY <1>3, <2>1 DEF Stage, Final
    <3> QED
      BY <1>1, <1>2, <1>u, <2>3, <3>1, <3>2, <3>3 DEF Stage
  <2> QED
    BY <2>2, <2>3
<1>7. ASSUME NEW e \in Deliveries, pc'[e] = "setnx" PROVE LateTry(e)'
  <2>1. e # d /\ pc[e] = "setnx"
    BY <1>2, <1>7
  <2>2. ASSUME NEW h \in Deliveries, pc'[h] \in {"release", "release_cached"}
        PROVE  Behind(pipe'[at'[e]], e, h)
    <3>1. h = d
      BY <1>2, <1>3, <2>2 DEF OnceInv, Stage
    <3> QED
      BY <1>1, <2>1, <3>1, OrderLast DEF Redis, OneReplica
  <2> QED
    BY <1>2, <2>2 DEF LateTry, Holding
<1>8. \A e \in Deliveries : LateTry(e)'
  BY <1>7 DEF LateTry
<1>9. Known'
  BY <1>1, <1>3, <1>u DEF Known, Final, EffectOnce
<1> QED
  BY <1>6, <1>8, <1>9 DEF OnceInv

\* The lock is released: nobody is late, for the release was executed last.
LEMMA OnceRelease ==
  ASSUME TypeOK, OfNothing => OfNothing', PipeOK, OnceInv, OneReplica, NoRedisFault,
         NEW d \in Deliveries, Release(d) \/ AnswerCached(d)
  PROVE  OnceInv'
<1>1. /\ pc[d] \in {"release", "release_cached"} /\ Executes(d, pc[d]) /\ lock' = NoOne
      /\ pc'[d] \in {"publish", "answered"} /\ pc[d] \in Redis
      /\ \A e \in Deliveries : e # d => pc'[e] = pc[e] /\ reply'[e] = reply[e]
      /\ \/ pipe' = [pipe EXCEPT ![at[d]] = Tail(@)]
         \/ pipe' = [pipe EXCEPT ![at[d]] = Append(Tail(@), d)]
      /\ UNCHANGED <<cache, at, seen, outcome, effects, caller, awaiting>>
  BY DEF Release, AnswerCached, Executes, Continue, Leave, DeleteLock, TypeOK,
         NoRedisFault, Redis
<1>2. Stage(d) /\ Known /\ Final(cache)
  BY <1>1 DEF OnceInv, Stage
<1>u. Unbroken' = Unbroken
  BY <1>1, UnbrokenFrame
<1>3. Stage(d)'
  <2>1. CASE Release(d)
    BY <1>2, <1>u, <2>1 DEF Release, Executes, Continue, TypeOK, Stage, Final
  <2>2. CASE AnswerCached(d)
    BY <1>2, <1>u, <2>2 DEF AnswerCached, Executes, Leave, TypeOK, Stage, Final
  <2> QED
    BY <2>1, <2>2
<1>4. ASSUME NEW e \in Deliveries PROVE Stage(e)'
  BY <1>1, <1>3, <1>u, StageFrame, TokenAssumption DEF OnceInv
<1>5. ASSUME NEW e \in Deliveries, pc'[e] = "setnx", ~Final(seen'[e]) PROVE FALSE
  <2>1. pc[e] = "setnx" /\ ~Final(seen[e])
    BY <1>1, <1>5 DEF Final
  <2>2. Behind(pipe[at[e]], e, d) /\ at[e] = at[d]
    BY <1>1, <2>1 DEF OnceInv, LateTry, TypeOK, OneReplica
  <2>3. ~ Behind(pipe[at[d]], e, d)
    BY <1>1, OrderHead
  <2> QED
    BY <2>2, <2>3
<1>6. \A e \in Deliveries : LateTry(e)'
  BY <1>5 DEF LateTry, Final
<1>7. Known'
  <2>1. \A e \in Deliveries : pc[e] \notin {"record", "cut"} \/ pc'[e] = pc[e]
    BY <1>1
  <2> QED
    BY <1>1, <1>2, <2>1, KnownFrame DEF Known
<1> QED
  BY <1>4, <1>6, <1>7 DEF OnceInv

\* Who hears the publication hears the final status.
LEMMA OncePublish ==
  ASSUME TypeOK, OfNothing => OfNothing', PipeOK, OnceInv, NEW d \in Deliveries, Publish(d)
  PROVE  OnceInv'
<1>1. /\ Executes(d, "publish") /\ pc[d] = "publish"
      /\ pipe' = [pipe EXCEPT ![at[d]] = Tail(@)]
      /\ UNCHANGED <<cache, lock, at, seen, outcome, effects, caller, awaiting>>
  BY DEF Publish, Executes
<1>2. \A e \in Deliveries : \/ pc'[e] = pc[e] /\ reply'[e] = reply[e] /\ e # d
                            \/ pc'[e] = "answered" /\ reply'[e] = outcome[d]
  BY DEF Publish
<1>w. \A e \in Deliveries : pc'[e] = pc[e] \/ pc[e] \in {"waiting", "publish"}
  BY <1>1 DEF Publish
<1>u. Unbroken' \subseteq Unbroken
  BY <1>1, <1>w, UnbrokenFrame
<1>3. Final(outcome[d]) /\ (outcome[d] = "failed" => cache = "failed")
  BY <1>1 DEF OnceInv, Stage
<1>4. ASSUME NEW e \in Deliveries PROVE Stage(e)'
  <2>1. Stage(e)
    BY DEF OnceInv
  <2>2. CASE pc'[e] = pc[e] /\ reply'[e] = reply[e]
    BY <1>1, <1>u, <2>1, <2>2, StageFrame, TokenAssumption
  <2>3. CASE pc'[e] = "answered" /\ reply'[e] = outcome[d]
    BY <1>1, <1>3, <2>1, <2>3 DEF Stage, Final
  <2> QED
    BY <1>2, <2>2, <2>3
<1>5. ASSUME NEW e \in Deliveries, NEW h \in Deliveries, pc'[e] = "setnx",
             Behind(pipe[at[e]], e, h)
      PROVE  Behind(pipe'[at[e]], e, h)
  BY <1>1, <1>2, <1>5, OrderKept DEF Redis
<1>6. \A e \in Deliveries : LateTry(e)'
  BY <1>1, <1>2, <1>w, <1>5, LateFrame DEF OnceInv, Holding
<1>7. Known'
  BY <1>1, <1>w, KnownFrame DEF OnceInv, Known
<1> QED
  BY <1>4, <1>6, <1>7 DEF OnceInv

\* A message is lost, or the replica stops with everything it had begun, and
\* the lock it held expires: whoever tried it has stopped too.
LEMMA OnceFault ==
  ASSUME TypeOK, OfNothing => OfNothing', PipeOK, LockOwned, OnceInv, OneReplica,
         NoRedisFault, Fault
  PROVE  OnceInv'
<1>1. ASSUME UNCHANGED <<cache, at, seen, outcome, reply, effects, caller, awaiting>>,
             \A e \in Deliveries :
               pc'[e] = pc[e] \/ (pc'[e] = IF pc[e] = "record" THEN "cut" ELSE "dead"),
             \/ pipe' = pipe /\ \A e \in Deliveries : pc[e] \in Holding => pc'[e] = pc[e]
             \/ \A e \in Deliveries : pc'[e] # "setnx",
             \A e \in Deliveries : pc[e] = "cut" => pc'[e] = "cut"
      PROVE  OnceInv'
  <2>u. Unbroken' \subseteq Unbroken
    BY <1>1, UnbrokenFrame
  <2>1. ASSUME NEW e \in Deliveries PROVE Stage(e)'
    BY <1>1, <2>u DEF OnceInv, Stage, Final
  <2>2. \A e \in Deliveries : LateTry(e)'
    <3>1. CASE \A e \in Deliveries : pc'[e] # "setnx"
      BY <3>1 DEF LateTry
    <3>2. CASE pipe' = pipe /\ \A e \in Deliveries : pc[e] \in Holding => pc'[e] = pc[e]
      BY <1>1, <3>2, LateFrame DEF OnceInv
    <3> QED
      BY <1>1, <3>1, <3>2
  <2>3. Known'
    BY <1>1, KnownFrame DEF OnceInv, Known
  <2> QED
    BY <2>1, <2>2, <2>3 DEF OnceInv
<1>2. ASSUME NEW d \in Deliveries, MessageLost(d) PROVE OnceInv'
  BY <1>1, <1>2 DEF MessageLost, TypeOK, Holding
<1>3. ASSUME NEW r \in Replicas, Crash(r) PROVE OnceInv'
  <2>1. /\ UNCHANGED <<cache, at, seen, outcome, reply, effects, caller, awaiting>>
        /\ \A e \in Deliveries : at[e] = r
        /\ \A e \in Deliveries :
             pc'[e] = IF at[e] # r \/ pc[e] \notin Redis \cup {"execute", "waiting"}
                      THEN pc[e] ELSE IF pc[e] = "record" THEN "cut" ELSE "dead"
    BY <1>3 DEF Crash, OneReplica, TypeOK
  <2>2. \A e \in Deliveries : pc'[e] # "setnx"
    BY <2>1 DEF Redis
  <2>3. \A e \in Deliveries : pc[e] = "cut" => pc'[e] = "cut"
    BY <2>1 DEF Redis
  <2> QED
    BY <1>1, <2>1, <2>2, <2>3
<1>4. CASE LockExpires
  BY <1>1, <1>4 DEF LockExpires
<1>5. ~CacheExpires
  BY DEF CacheExpires, NoRedisFault
<1> QED
  BY <1>2, <1>3, <1>4, <1>5 DEF Fault

\* Every step keeps it.
LEMMA OnceNext ==
  ASSUME TypeOK, NothingInv, PipeOK, LockOwned, OnceInv, OneReplica, NoRedisFault,
         [Next]_vars
  PROVE  OnceInv'
<1> OfNothing => OfNothing'
  BY OfNothingNext
<1>1. ASSUME NEW d \in Deliveries, DeliveryNext(d) PROVE OnceInv'
  BY <1>1, OnceDelivery, OnceReadCache, OnceAcquireLock, OnceMarkPending, OnceCommit,
     OnceRecord, OnceRelease, OncePublish DEF DeliveryNext
<1>2. CASE UNCHANGED vars
  <2>1. \A d \in Deliveries : Stage(d)'
    BY <1>2 DEF vars, OnceInv, Stage, Final, Unbroken
  <2>2. \A d \in Deliveries : LateTry(d)'
    BY <1>2, LateFrame DEF vars, OnceInv
  <2>3. Known'
    BY <1>2, KnownFrame DEF vars, OnceInv, Known
  <2> QED
    BY <2>1, <2>2, <2>3 DEF OnceInv
<1> QED
  BY <1>1, <1>2, OnceCaller, OnceFault DEF Next

\* On one replica, whatever is lost and however often the replica stops and
\* its lock expires, the invariant holds.
LEMMA OnceCorrect == OneReplica /\ NoRedisFault => (Spec => []OnceInv)
<1> SUFFICES ASSUME OneReplica, NoRedisFault PROVE Spec => []OnceInv
  OBVIOUS
<1>1. Spec => []LockOwned
  BY TypeCorrect, LockInit, LockNext, PTL DEF Spec
<1>2. TypeOK /\ NothingInv /\ PipeOK /\ LockOwned /\ OnceInv /\ [Next]_vars => OnceInv'
  BY OnceNext
<1> QED
  BY <1>1, <1>2, TypeCorrect, NothingCorrect, PipeCorrect, OnceInit, PTL DEF Spec

\* A request handled by one replica takes effect at most once, however often it
\* is delivered, for any number of deliveries, lost messages, crashes and locks
\* that expire after them, as long as Redis answers, the entry lives and the
\* lock outlives its holder; but for the executions that a crash cut off
\* between the commit and the SET of the status, which alone are repeated.
THEOREM EffectCorrect == OneReplica /\ NoRedisFault => (Spec => []EffectOnce)
<1>1. OnceInv => EffectOnce
  BY DEF OnceInv, Known
<1> QED
  BY <1>1, OnceCorrect, PTL

\* Then a caller told that the operation failed was told the truth, and for
\* good: nothing was committed and nothing will be, except by an execution so
\* cut off.
THEOREM FailureCorrect == OneReplica /\ NoRedisFault => (Spec => []FailureIsFinal)
<1>1. OnceInv /\ NothingInv => FailureIsFinal
  BY DEF OnceInv, Known, NothingInv, FailureIsFinal, Unbroken
<1> QED
  BY <1>1, OnceCorrect, NothingCorrect, PTL

\* A step by which a delivery starts to execute finds nothing final.
LEMMA StartsBeforeFinal ==
  ASSUME TypeOK, LockOwned, OnceInv, NoRedisFault, [Next]_vars, NEW d \in Deliveries,
         pc[d] # "execute", pc'[d] = "execute"
  PROVE  ~Final(cache)
<1>1. \E e \in Deliveries : DeliveryNext(e)
  <2>1. ~CallerNext
    BY DEF CallerNext, Send, Answer, AttemptTimeout, CheckCache, PollResult, TypeOK
  <2>2. ~Fault
    BY DEF Fault, LockExpires, CacheExpires, MessageLost, Crash, TypeOK
  <2> QED
    BY <2>1, <2>2 DEF Next, vars
<1>2. PICK e \in Deliveries : DeliveryNext(e)
  BY <1>1
<1>3. e = d /\ (AcquireLock(d) \/ MarkPending(d))
  BY <1>2 DEF DeliveryNext, Receive, ReadCache, AcquireLock, MissLock, MarkPending,
     AnswerCached, Commit, Refuse, RefuseEarly, Record, Release, Publish, WaitTimeout,
     Enter, Continue, Leave, TypeOK
<1>4. CASE AcquireLock(d)
  <2>1. lock = NoOne /\ pc[d] = "setnx" /\ ~Final(seen[d])
    BY <1>4 DEF AcquireLock, Executes, Continue, TypeOK, Final
  <2>2. \A h \in Deliveries : pc[h] \notin Holding
    BY <2>1, TokenAssumption DEF LockOwned, NoRedisFault
  <2> QED
    BY <2>1, <2>2 DEF OnceInv, LateTry
<1>5. CASE MarkPending(d)
  BY <1>5 DEF MarkPending, Executes, OnceInv, Stage
<1> QED
  BY <1>3, <1>4, <1>5

\* Then no delivery starts to execute once a final status is cached: a try of
\* the lock that could succeed was issued after the status could be read.
THEOREM NotReExecutedCorrect ==
  OneReplica /\ NoRedisFault => (Spec => FinalNotReExecuted)
<1> SUFFICES ASSUME OneReplica, NoRedisFault PROVE Spec => FinalNotReExecuted
  OBVIOUS
<1>1. TypeOK /\ LockOwned /\ OnceInv /\ [Next]_vars =>
        [\A d \in Deliveries :
           pc[d] # "execute" /\ pc'[d] = "execute"
             => cache \notin {"completed", "failed"}]_vars
  BY StartsBeforeFinal DEF Final
<1>2. Spec => []LockOwned
  BY TypeCorrect, LockInit, LockNext, PTL DEF Spec
<1> QED
  BY <1>1, <1>2, OnceCorrect, TypeCorrect, PTL DEF Spec, FinalNotReExecuted
=============================================================================
