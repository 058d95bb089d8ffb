CONSTANTS
    Numeric = {"THMAX"}
    Default <- Defaults
    Files <- ShortFiles
    Argvs <- CommandLines
    NoColon = NoColon
    NoValue = NoValue
    Unset = Unset
    Restarts = 1
SPECIFICATION Spec
INVARIANTS CommandLineWins RestartUsesFile PeersContacted
CHECK_DEADLOCK FALSE
