SPECIFICATION FairSpec
CONSTANTS
    Threads = {main, w}
    Main = main
    NumFields = 2
    Ids = {i1, i2}
    NoChannel = NoChannel
    Layouts <- AllLayouts
    MaxGen = 2
    MaxInterrupts = 1
    Races = TRUE
INVARIANTS
    TypeOK
PROPERTIES
    OwnDisconnectReleasesAll
    SharedClosedOnce
    DisconnectEnds
    BegunIsLetGo
