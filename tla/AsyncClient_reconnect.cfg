SPECIFICATION Spec
CONSTANTS
    Tasks = {t1, t2}
    NumFields = 2
    Ids = {i1, i2}
    NoChannel = NoChannel
    Layouts <- AllLayouts
    MaxGen = 2
    Early = TRUE
PROPERTIES
    ClearsOnlyReleased
