\* The parts of the apps that must come to an end.
SPECIFICATION ProgressSpec
CONSTANTS
    None = None
    NoPeer = NoPeer
    Parts = {"client", "backend", "scan", "clipboard", "encoder"}
PROPERTIES ViewerRecovers AppsComeToRest BitrateFollowsNetwork
CHECK_DEADLOCK FALSE
