SPECIFICATION FairSpec
CONSTANTS
    r1 = r1
    r2 = r2
    r3 = r3
    Room = {r1, r2, r3}
    Later = {r3}
    NoRoom = NoRoom
    MaxMoves = 2
INVARIANTS
    HearsRoom
PROPERTIES
    Settles
CHECK_DEADLOCK FALSE
