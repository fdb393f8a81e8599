SPECIFICATION Spec
CONSTANTS
    r1 = r1
    r2 = r2
    ann = ann
    bea = bea
    c1 = c1
    c2 = c2
    Room = {r1}
    NoRoom = NoRoom
    Peer = {bea}
    Me = ann
    Emoji = {"up"}
    None = None
    Conn = {c1, c2}
    Link = c1
    PageSize = 1
    Window = 1
    MaxEffort = 2
    MaxQueue = 0
    MaxCalls = 1
    MaxAsks = 1
INVARIANTS
    NoDuplicates
    
    
