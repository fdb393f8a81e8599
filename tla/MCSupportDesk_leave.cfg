SPECIFICATION Spec
CONSTANTS
    a1 = a1
    a2 = a2
    north = north
    south = south
    Agent = {a1, a2}
    Bot = Bot
    NoAgent = NoAgent
    Region = {north, south}
    NoRegion = NoRegion
    HomeRegion <- MCHome
    ExtraRegions <- MCExtra
    Requester = {a2}
    AskRegion = {north}
    Call = {c1}
    Limit = {2}
    Choice = {"Available"}
    Kinds = {"start", "close", "transfer", "reassign", "deactivate"}
    Managed = {a1, Bot}
    MaxTickets = 2
    MaxChats = 1
    MaxFaults = 1
INVARIANTS
    UnownedIsOpen

    
    
