SPECIFICATION Spec
CONSTANTS
    w = w
    v = v
    x = x
    r = r
    Threads = {w, v, x, r}
    NoThread = NoThread
    Ops <- WhoDoesWhat
    InitialFile <- OneMessage
    Requests = 1
    FileMayVanish = TRUE
INVARIANTS
    TypeOK
    NoSleepingWriter
    WrittenStays
    UniqueNumbers
    ReadFindsWritten
PROPERTIES
    AppendExcludesReaders
    RequestAnswered
\* The clients' requests are bounded: in the end there are none.
CHECK_DEADLOCK FALSE
