SPECIFICATION Spec
CONSTANTS
    N = 2
    Kinds = {"write", "replace"}
    Faults = {"refused", "nohost", "peerfile", "localfile", "verify", "uninit", "stale"}
INVARIANTS
    TypeOK
    CommitNeedsAll

    
\* The model is of one command: it ends when the command has.
CHECK_DEADLOCK FALSE
