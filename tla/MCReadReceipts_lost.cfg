SPECIFICATION Spec
CONSTANTS
    ann = ann
    bea = bea
    a1 = a1
    a2 = a2
    b1 = b1
    b2 = b2
    User = {ann, bea}
    Guest = Guest
    Nobody = Nobody
    Author = {ann, bea}
    Conn = {b1, b2}
    Spare = {b2}
    UserOf <- MCUserOf
    OneByOne = TRUE
    Loader = {ann}
    Erasable = {1}
    MaxMsg = 1
    MaxQueue = 1
    MaxLosses = 2
INVARIANTS
    TypeOK
    ReceiptsAreTrue
