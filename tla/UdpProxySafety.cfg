SPECIFICATION Spec
CONSTANTS
  c1 = c1  c2 = c2  c3 = c3
  h1 = h1  h2 = h2
  Clients <- MCClients
  Hosts <- MCHosts
  HostOf <- MCHostOf
  DenyHosts = {}
  AllowHosts = {}
  MaxPerIP = 1
  Sessions = {s1, s2, s3}
  MaxSessions = 2
  IdleTimeout = 1
  MaxLag = 0
  NoSession = NoSession
  NoClient = NoClient
INVARIANTS SlotsMatchSessions SocketsOwned AtMostOneStraggler
PROPERTIES SessionLossJustified ImplementsAdmission
SYMMETRY MCSymmetry
CHECK_DEADLOCK FALSE
