SPECIFICATION Spec
CONSTANTS
  lo = lo  proxy = proxy  alice = alice  eve = eve
  Configs <- MCConfigs
  Queries <- MCQueries
  Loopback = {lo}
  Bad = Bad
  None = None
INVARIANTS     LetIn
CHECK_DEADLOCK FALSE
