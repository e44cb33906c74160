CONSTANTS
  Deliveries = {d1, d2}
  Replicas = {r1, r2}
  NoOne = NoOne
  Handler = "create_order"
  Internal = FALSE
  Faults = {}
SPECIFICATION Spec
CHECK_DEADLOCK FALSE
PROPERTY FinalNotReExecuted
