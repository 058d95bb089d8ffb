CONSTANTS
    Starts = 1
    Signals = 1
    Clients = 1
    Early = FALSE
    Writes = TRUE
SPECIFICATION Spec
PROPERTY QuitKills
CHECK_DEADLOCK FALSE
