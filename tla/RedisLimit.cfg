SPECIFICATION FairSpec
CONSTANTS
  Requests = {r1, r2}
  Conns = {c1, c2}
  NoConn = NoConn
  PoolSize = 1
  Setup <- MCSetup
  FailOpen = TRUE
  Unit = 3
  Rate = 2
  Burst = 1
  NoBucket = NoBucket
INVARIANTS PoolSound AdmissionsCharged
PROPERTIES EveryRequestAnswered Recovers
