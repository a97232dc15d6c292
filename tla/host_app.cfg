\* The parts of the host's app: three viewers of two names; four ports, of which
\* others may hold some, take some and free some; three backups of the log; two
\* passwords; all frame rates.
SPECIFICATION PartSpec
CONSTANTS
    ann = ann
    ben = ben
    eve = eve
    None = None
    Viewers <- ThreeViewers
    Name <- TwoNames
    Address <- TwoAddresses
    MaxJoins = 3
    FirstPort = 1
    LastPort = 4
    SearchSpan = 2
    SearchLimit = 3
    MaxShocks = 2
    Backups = 3
    MaxLogs = 6
    Passwords = {"secret", "other"}
    Unset = "unset"
    Initial <- AsFound
    Written <- OnePassword
    Calls <- TwoCalls
    c1 = c1
    c2 = c2
    CallsMade = 3
    FrameRates = {15, 30, 60}
    InitialRate = 30
    MaxFaults = 2
INVARIANTS SeatedIsAllowed TrayTellsSeat NoticesPair
    ChildIsHeld DiskAddsUp EncoderFollowsSamples
PROPERTY NothingLostSilently
SYMMETRY EitherCall
CHECK_DEADLOCK FALSE
