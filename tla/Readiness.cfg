SPECIFICATION ReadinessFairSpec
CONSTANTS
  t1 = t1  t2 = t2  t3 = t3
  Requests = {r1, r2}
  Groups <- MCGroups
  Timeout = 1
  TTL = 2
  None = None
INVARIANTS NobodyStuck
PROPERTIES AnswersJustified EveryRequestAnswered
