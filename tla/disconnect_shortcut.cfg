\* A user who quits with the shortcut while its keys are down.
CONSTANTS
    modifiers = modifiers
    quit = quit
    exit = exit
    left = left
    Keys <- QuitKeys
    Buttons <- MCButtons
    Modifiers = modifiers
    Quit = quit
    Exit = exit
    MaxInFlight = 1
SPECIFICATION QuitSpec
INVARIANT KeysLetGoAfterDisconnect
CHECK_DEADLOCK FALSE
