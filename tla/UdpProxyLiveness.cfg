SPECIFICATION FairSpec
CONSTANTS
  c1 = c1  c2 = c2  c3 = c3
  h1 = h1  h2 = h2
  Clients <- TwoClients
  Hosts <- MCHosts
  HostOf <- TwoHostOf
  DenyHosts = {}
  AllowHosts <- OnlyH1
  MaxPerIP = 0
  Sessions = {s1, s2}
  MaxSessions = 1
  IdleTimeout = 1
  MaxLag = 1
  NoSession = NoSession
  NoClient = NoClient
PROPERTIES DeadSessionsLeave ShutdownStops
CHECK_DEADLOCK FALSE
