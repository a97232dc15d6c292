\* Two sessions and a host that switches the approval prompt on and off: sockets
\* moving between sessions, also with overlapping joins and pending prompts.
SPECIFICATION Spec
CONSTANTS
  h = h  v1 = v1  v2 = v2
  hostAddress = hostAddress  viewerAddress = viewerAddress
  secret = secret  NoPassword = NoPassword
  Addresses = {hostAddress, viewerAddress}
  RolesOf <- MCRolesOf
  Clients = {h, v1}
  SessionIds = {lan, lab}
  Calls = {j1, j2}
  MaxSessions = 2
  MaxPeersPerSession = 2
  MaxTotalPeers = 2
  PeerTtl = 1
  Passwords = {}
  HostConfigs <- SwitchingHost
  MaxConnectionsPerAddress = 2
  MaxJoinAttempts = 1
  JoinWindow = 0
  MaxPasswordFailures = 1
  PasswordWindow = 0
  MaxApprovalRequests = 1
  ApprovalWindow = 0
  ApprovalTimeout = 1
  ApprovalCacheTtl = 1
  AddressOf <- MCAddressOf
SYMMETRY SessionSymmetry
INVARIANTS
  OneSeatPerClient
