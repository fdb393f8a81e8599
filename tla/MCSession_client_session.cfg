SPECIFICATION FairSpec
CONSTANTS
    ann = ann
    bea = bea
    p1 = p1
    p2 = p2
    x1 = x1
    y1 = y1
    User = {ann, bea}
    Tab = {p1, p2}
    Req = {x1, y1}
    None = None
    TabOf <- MCTabOf
    MaxGrant <- MCMaxGrant
    MaxFaults = 1
VIEW MCView
INVARIANTS
    OwnAccounts
    SpeaksAsShown
PROPERTIES
    Settles
