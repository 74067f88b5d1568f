SPECIFICATION Spec
CONSTANTS
    Threads = {t1}
    Methods <- MCMethods
    Classes = {"Sessions", "Calls"}
    Alone = {"Sessions", "Calls"}
    Modules = {"sessions.py", "calls.py"}
    Mro <- MCMro
    Pb2 = {"session_pb2", "calls_pb2"}
    ServicesIn <- MCServicesIn
    StubOf <- MCStubOf
    Imports <- MCIndirect
    MaxChannels = 2
    Tuples <- MCTuples
    CallerLists = {}
    CallerConfigs = {}
CHECK_DEADLOCK FALSE
INVARIANTS
    SharedChangesNothing
