SPECIFICATION FairSpec
CONSTANTS
    Tasks = {t1, t2}
    NumFields = 3
    Ids = {i1, i2}
    NoChannel = NoChannel
    Layouts <- AllLayouts
    MaxGen = 2
    Early = FALSE
INVARIANTS
    NoOrphan
PROPERTIES
    ConnSpec
    DisconnectEnds
    BegunIsReleased
