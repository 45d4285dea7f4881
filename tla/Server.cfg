SPECIFICATION FairSpec
CONSTANTS
  Requests = {r1, r2}
  Streams = {s1, s2}
  OldEntries = {o1, o2}
  MaxLogSize = 2
  
PROPERTIES LogKept SignalEnds
CHECK_DEADLOCK FALSE
