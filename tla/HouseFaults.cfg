CONSTANTS
    m1 = m1  m2 = m2  m3 = m3
    Msgs = {m1, m2, m3}
    Garbage = Garbage
    Absent = Absent
    Peers = TRUE
    Threads = 2
    Again = {m1}
    Faults = {"crash", "cache", "rename"}
    Rounds = 2
    Initially <- Board
SPECIFICATION Spec
INVARIANTS LostOnlyExposed 
PROPERTY CopyComplete
CHECK_DEADLOCK FALSE
