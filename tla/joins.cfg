\* One session, a host that opens it and guards it, and two viewers that share an
\* address, its one connection and the approval cache; two joins at a time.
SPECIFICATION Spec
CONSTANTS
  h = h  v1 = v1  v2 = v2
  hostAddress = hostAddress  viewerAddress = viewerAddress
  secret = secret  NoPassword = NoPassword
  Addresses = {hostAddress, viewerAddress}
  RolesOf <- MCRolesOf
  Clients = {h, v1, v2}
  SessionIds = {lan}
  Calls = {j1, j2}
  MaxSessions = 1
  MaxPeersPerSession = 2
  MaxTotalPeers = 2
  PeerTtl = 1
  Passwords = {secret}
  HostConfigs <- GuardingHost
  MaxConnectionsPerAddress = 1
  MaxJoinAttempts = 1
  JoinWindow = 0
  MaxPasswordFailures = 1
  PasswordWindow = 0
  MaxApprovalRequests = 1
  ApprovalWindow = 0
  ApprovalTimeout = 1
  ApprovalCacheTtl = 1
  AddressOf <- MCAddressOf
SYMMETRY ViewerSymmetry
INVARIANTS
  TypeOK
  SlotsMatchSockets
  SeatedPeersReachable
  PeersAnnounced
PROPERTIES
  SeatsNotStolen
  ConsentRespected
  NoReprompt
  AdmissionSpec
