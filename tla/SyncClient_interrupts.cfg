SPECIFICATION Spec
CONSTANTS
    Threads = {main, w}
    Main = main
    NumFields = 3
    Ids = {i1, i2}
    NoChannel = NoChannel
    Layouts <- FewLayouts
    MaxGen = 2
    MaxInterrupts = 2
    Races = FALSE
SYMMETRY Symmetry
INVARIANTS
    LostOnlyByInterrupt
PROPERTIES
    FirstInterruptReRaised
    ConnSpec
