SPECIFICATION Spec
CONSTANTS
    Threads = {main}
    Main = main
    NumFields = 2
    Ids = {i1, i2}
    NoChannel = NoChannel
    Layouts <- AllLayouts
    MaxGen = 1
    MaxInterrupts = 1
    Races = FALSE
PROPERTIES
    InterruptReRaised
