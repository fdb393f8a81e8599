SPECIFICATION Spec
CONSTANTS
    a1 = a1
    a2 = a2
    north = north
    south = south
    Agent = {a1, a2}
    Bot = Bot
    NoAgent = NoAgent
    Region = {north, south}
    NoRegion = NoRegion
    HomeRegion <- MCHome
    ExtraRegions <- MCExtra
    Requester = {a1}
    AskRegion = {north, south}
    Call = {c1, c2}
    Limit = {1}
    Choice = {"Available"}
    Kinds = {"start", "close", "transfer", "reassign", "delete"}
    Managed = {a1, a2}
    MaxTickets = 1
    MaxChats = 1
    MaxFaults = 0
SYMMETRY Slots
INVARIANTS
    TypeOK
    RegionIsolation
    BotNeverCounted
PROPERTIES
    OverfilledByStaleCopyOnly
    RevivedByStaleCopyOnly
    LifeWhenOverlapping
