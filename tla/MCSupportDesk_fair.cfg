SPECIFICATION FairSpec
CONSTANTS
    a1 = a1
    a2 = a2
    north = north
    south = south
    Agent = {a1, a2}
    Bot = Bot
    NoAgent = NoAgent
    Region = {north, south}
    NoRegion = NoRegion
    HomeRegion <- MCHome
    ExtraRegions <- MCExtra
    Requester = {r1, a2}
    AskRegion = {north, south}
    Call = {c1}
    Limit = {1}
    Choice = {"Available", "Offline"}
    Kinds = {"start", "close", "transfer", "reassign"}
    Managed = {}
    MaxTickets = 2
    MaxChats = 1
    MaxFaults = 0
INVARIANTS
    OwnerSitsInRoom
PROPERTIES
    BotQueueMoves
