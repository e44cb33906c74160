CONSTANTS
  s1 = s1
  s2 = s2
  admin = admin
  w1 = w1
  w2 = w2
  w3 = w3
  w4 = w4
  i1 = i1
  i2 = i2
  e1 = e1
  e2 = e2
  e3 = e3
  e4 = e4
  e5 = e5
  e6 = e6
  e7 = e7
  e8 = e8
  NoOne = NoOne
  Holders = {s1, s2}
  Others = {admin}
  Withdrawals = {w1, w2, w3, w4}
  Incomes = {i1, i2}
  Executions = {e1, e2, e3, e4, e5, e6, e7, e8}
  Mixes <- MCMixes
  TokenOf <- MCTokenOf
  Account <- MCAccount
  Amount <- MCAmount
  Sums <- MCSums
  InitBalance <- MCBalanceOf
  Faults = {"crash", "redis"}
SPECIFICATION FairSpec
CHECK_DEADLOCK FALSE
INVARIANTS TypeOK Balanced OutcomeTrue
PROPERTIES Booked Finalized Resolved
