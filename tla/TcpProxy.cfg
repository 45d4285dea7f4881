SPECIFICATION FairSpec
CONSTANTS
  Hosts = {h1, h2, h3}
  DenyHosts = {h3}
  AllowHosts = {}
  MaxPerIP = 1
  Conns = {x1, x2}
  MaxConnections = 1
  IdleTimeout = 2
  NoConn = NoConn
  NoHost = NoHost
INVARIANTS SlotsMatchConnections SocketsOwned 
PROPERTIES ImplementsAdmission IdleConnectionsEnd ShutdownStops
CHECK_DEADLOCK FALSE
