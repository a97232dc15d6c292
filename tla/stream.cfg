\* A session between two apps: two monitors, up to four commands in turn, three that
\* overlap, two that also fail; two peers; three layouts; four contents.
SPECIFICATION PartSpec
CONSTANTS
    left = left
    right = right
    p = p
    q = q
    None = None
    Sources <- TwoMonitors
    Settings <- MCSettings
    MaxCalls = 4
    Peers = {p, q}
    NoPeer = NoPeer
    MaxTasks = 2
    MaxJoins = 2
    Displays <- TwoDisplays
    Layouts <- ThreeLayouts
    VideoWidths = {3, 6}
    Reach = 2
    MaxChanges = 2
    Contents = {"empty", "note", "rich", "huge"}
    Empty = "empty"
    Refused = {"huge"}
    Copies <- OwnCopies
    MaxCopies = 5
SYMMETRY SameMonitorsAndPeers
INVARIANTS SentIsLive CaptureSettles ClientInOrder RecoveredHostStreams ClipboardsAgree
PROPERTY PointerNearMonitor
CHECK_DEADLOCK FALSE
