\* The parts of the viewer's app: three servers that ask for passwords; two keys at a
\* time; three servers of which two are remembered; a scan of three addresses by two
\* workers, whose first bind may fail.
SPECIFICATION PartSpec
CONSTANTS
    office = office
    home = home
    kiosk = kiosk
    None = None
    Servers <- ThreeServers
    Protected <- TwoProtected
    MaxClients = 3
    MaxJoins = 3
    Keys = {"modifiers", "quit", "exit"}
    Buttons = {"left"}
    Modifiers = "modifiers"
    Quit = "quit"
    Exit = "exit"
    MaxInFlight = 1
    Calls = {c1, c2}
    CallsMade = 3
    Known <- ThreeServers
    Folders = {f1}
    RecentLimit = 2
    On = On
    Off = Off
    Unset = Unset
    Keep = Keep
    Initial <- AsFound
    Addresses = {"lan1", "lan2", "lan3"}
    Announced <- ThreeAnnounced
    AddressOf <- ScanAddress
    PortOf <- ScanPort
    UrlOf <- PublicUrl
    DefaultPort = 47315
    ProbeList <- ThreeProbes
    Concurrency = 2
    BindFails = {1}
    Urls = {"office", "home"}
    defaultServerUrl = "localhost"
    MaxScans = 3
INVARIANTS PasswordGoesToItsServer AttemptIsAnswered
    InputLetGo ChoiceKept HistoryKept ServersFound SubnetsProbed
SYMMETRY EitherCall
CHECK_DEADLOCK FALSE
