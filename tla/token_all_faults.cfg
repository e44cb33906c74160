CONSTANTS
  Deliveries = {d1, d2}
  Replicas = {r1, r2}
  NoOne = NoOne
  Handler = "withdraw"
  Internal = FALSE
  Faults = {"redis", "lock_ttl", "cache_ttl", "message_ttl", "crash"}
SPECIFICATION FairSpec
CHECK_DEADLOCK FALSE
INVARIANT OkIsCommitted
PROPERTIES CallerReturns PendingResolved WaitersAnswered
