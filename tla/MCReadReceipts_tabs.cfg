SPECIFICATION FairSpec
CONSTANTS
    ann = ann
    bea = bea
    a1 = a1
    a2 = a2
    b1 = b1
    b2 = b2
    User = {bea}
    Guest = Guest
    Nobody = Nobody
    Author = {Guest}
    Conn = {b1, b2}
    Spare = {}
    UserOf <- MCUserOf
    OneByOne = FALSE
    Loader = {}
    Erasable = {}
    MaxMsg = 2
    MaxQueue = 1
    MaxLosses = 0
INVARIANTS
    CountedIsRead
PROPERTIES
    StatusNeverGoesBack
    SeenIsRead
