CONSTANTS
  Deliveries = {d1, d2, d3}
  Replicas = {r1}
  NoOne = NoOne
  Handler = "cancel_draft_order"
  Internal = TRUE
  Faults = {"crash", "message_ttl"}
SPECIFICATION Spec
CHECK_DEADLOCK FALSE
INVARIANTS ExecutionExclusive FailureIsFinal EffectOnce
PROPERTY FinalNotReExecuted
