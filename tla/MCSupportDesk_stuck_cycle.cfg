SPECIFICATION FairSpec
CONSTANTS
    a1 = a1
    a2 = a2
    north = north
    south = south
    Agent = {a1, a2}
    Bot = Bot
    NoAgent = NoAgent
    Region = {north, south}
    NoRegion = NoRegion
    HomeRegion <- MCHome
    ExtraRegions <- MCExtra
    Requester = {r1, r2}
    AskRegion = {north}
    Call = {c1}
    Limit = {1}
    Choice = {"Available", "Offline"}
    Kinds = {"start", "reassign", "deactivate"}
    Managed = {a1}
    MaxTickets = 2
    MaxChats = 1
    MaxFaults = 0
PROPERTIES
    BotQueueDrains
