SPECIFICATION Spec
CONSTANTS
    N = 2
    Kinds = {"write", "replace"}
    Faults = {}
PROPERTIES
    PrecommitProceeds
\* The model is of one command: it ends when the command has.
CHECK_DEADLOCK FALSE
