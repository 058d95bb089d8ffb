CONSTANTS
    Starts = 2
    Signals = 2
    Clients = 1
    Early = FALSE
    Writes = TRUE
SPECIFICATION Spec
INVARIANTS HousekeepAlone NoFreedTeam
PROPERTY QuitDuringStopHeeded
CHECK_DEADLOCK FALSE
