SPECIFICATION Spec
CONSTANTS
    Threads = {t1, t2}
    Methods <- MCMethods
    Classes = {"Sessions", "Calls"}
    Alone = {"Calls"}
    Modules = {"sessions.py", "calls.py"}
    Mro <- MCMro
    Pb2 = {"session_pb2", "calls_pb2"}
    ServicesIn <- MCServicesIn
    StubOf <- MCStubOf
    Imports <- MCImports
    MaxChannels = 2
    Tuples <- MCTuples
    CallerLists <- MCLists
    CallerConfigs <- MCConfigs
SYMMETRY Symmetry
CHECK_DEADLOCK FALSE
INVARIANTS
    TypeOK
    NeverRetriesAnAction
    AlwaysAccepted
    StaleLosesOnlyRetries
    LookupIsWhole
    OneClassOnePolicy
