SPECIFICATION FairSpec
CONSTANTS
    c1 = c1
    c2 = c2
    c3 = c3
    Conn = {c1, c2, c3}
    NoConn = NoConn
    MaxTimers = 2
INVARIANTS
    FlagHasConnection
    SomeoneTries
PROPERTIES
    HearsAgain
