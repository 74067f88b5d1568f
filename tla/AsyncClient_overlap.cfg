SPECIFICATION Spec
CONSTANTS
    Tasks = {t1, t2, t3}
    NumFields = 3
    Ids = {i1, i2}
    NoChannel = NoChannel
    Layouts <- AllLayouts
    MaxGen = 2
    Early = TRUE
SYMMETRY Symmetry
INVARIANTS
    TypeOK
    SweptSoFar
    FirstErrorReRaised
PROPERTIES
    OwnDisconnectReleasesAll
    SharedClosedOnce
