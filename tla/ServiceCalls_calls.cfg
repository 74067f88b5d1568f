SPECIFICATION SystemSpec
CONSTANTS
    Threads = {t1}
    Methods <- MCMethods
    Classes = {"Calls"}
    Alone = {"Calls"}
    Modules = {"sessions.py", "calls.py"}
    Mro <- MCMro
    Pb2 = {"session_pb2", "calls_pb2"}
    ServicesIn <- MCServicesIn
    StubOf <- MCStubOf
    Imports <- MCImports
    Tuples = {}
    CallerLists = {}
    CallerConfigs <- MCConfigs
    MaxChannels = 2
CHECK_DEADLOCK FALSE
INVARIANTS
    CallsTypeOK
    ActsAtMostOnce
PROPERTIES
    RetriedIfKnown
    CallEnds
