SPECIFICATION Spec
CONSTANTS
    r1 = r1
    r2 = r2
    g1 = g1
    g2 = g2
    w1 = w1
    w2 = w2
    a1 = a1
    a2 = a2
    t1 = t1
    t2 = t2
    c1 = c1
    c2 = c2
    north = north
    MaxDrafts = 1
    MaxFiles = 1
    MaxSends = 2
    MaxOdd = 1
    TypingRoom = {r1, r2}
    Nowhere = Nowhere
    Socket = {c1, c2}
    NoSocket = NoSocket
    MaxInvoked = 2
    MaxTakes = 3
    MaxMessages = 2
    MaxScrolls = 1
    Word = {w1, w2}
    Blank = Blank
    Nothing = Nothing
    MaxSearches = 2
    Group = {g1, g2}
    NoGroup = NoGroup
    MaxRequests = 2
    Term = {w1, w2}
    NoTerm = NoTerm
    NoResult = NoResult
    MaxAsked = 2
    Staff = {a1, a2}
    MaxTasks = 2
    Clerk = {a1, a2}
    Ticket = {t1, t2}
    Place = {north}
    Unset = Unset
    PlaceOf <- MCPlaceOf
    MaxErrands = 2
    Filter = {w1, w2}
    Chat = {c1, c2}
    NoChat = NoChat
    MaxPages = 2
    MaxLoads = 2
    Phrase = {"a"}
    MaxWires = 1
    MaxWritten = 2
    MaxSaved = 3
INVARIANTS
    SentOnce
    MicShown
    IndicatorIsHeld
    SelectionShown
    FollowsNewest
    OwnerStays
    ResultsFit
    AdminPagesFit
    WidgetInSync
CHECK_DEADLOCK FALSE
