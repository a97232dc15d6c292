\* The parts of the server that must come to an end.
SPECIFICATION ProgressSpec
CONSTANTS
    None = None
    NoPeer = NoPeer
    Parts = {"gateway", "file"}
PROPERTIES GatewayComesThrough FileIsSettled
CHECK_DEADLOCK FALSE
