SPECIFICATION Spec
CONSTANTS
    N = 3
    Kinds = {"write", "replace"}
    Faults = {"refused", "localfile", "verify"}
INVARIANTS
    WroteEverywhere
PROPERTIES
    
    SessionReleased
    WaiterWoken
\* The model is of one command: it ends when the command has.
CHECK_DEADLOCK FALSE
