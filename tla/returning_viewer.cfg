\* A client of either role; as host its viewer leaves and comes back.
CONSTANTS
    Peers = {p}
    NoPeer = NoPeer
    MaxTasks = 2
    MaxJoins = 1
SPECIFICATION Spec
CHECK_DEADLOCK FALSE
INVARIANTS HostStreams
