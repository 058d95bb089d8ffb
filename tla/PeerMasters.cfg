CONSTANTS
    ma = ma  mb = mb  mc = mc
    Masters = {ma, mb, mc}
    Receivers = {r1, r2}
    Nobody = Nobody
    Number <- Numbers
SPECIFICATION Spec
INVARIANTS OneThreadEach DuplicatesRaced QuitStays AbortLeavesNothing
PROPERTY Served
CHECK_DEADLOCK FALSE
