\* Two sessions of which one may exist, one prompt per tick, two wrong passwords:
\* the limits at their boundary, everybody behind one address.
SPECIFICATION LimitsSpec
CONSTANTS
    h = h
    v1 = v1
    v2 = v2
    hostAddress = hostAddress
    viewerAddress = viewerAddress
    secret = secret
    NoPassword = NoPassword
    Addresses = {viewerAddress}
    AddressOf <- SharedAddressOf
    RolesOf <- MCRolesOf
    Clients = {h, v1}
    SessionIds = {lan, lab}
    Calls = {j1, j2}
    MaxSessions = 1
    MaxPeersPerSession = 2
    MaxTotalPeers = 2
    PeerTtl = 1
    Passwords = {}
    HostConfigs <- AskingHost
    MaxConnectionsPerAddress = 2
    MaxJoinAttempts = 4
    JoinWindow = 1
    MaxPasswordFailures = 2
    PasswordWindow = 2
    MaxApprovalRequests = 1
    ApprovalWindow = 1
    ApprovalTimeout = 1
    ApprovalCacheTtl = 1
SYMMETRY SessionSymmetry
INVARIANTS RosterWithinLimits AskedAndGuessedWithinLimits
