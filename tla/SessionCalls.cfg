SPECIFICATION MCSpec
CONSTANTS
    Hub = Hub
    Runtime = Runtime
    Call = {c1, c2}
    Requesters = {Hub}
    Emitters = {Runtime}
    Closers = {Hub}
    Probers = {}
    StreamKey = {k1, k2, k3}
    MaxStreamKeys = 2
    Configs <- ConfigsCalls
    DefaultFrame = 2
    PayloadSizes = {1, 2}
    ErrorSizes = {1}
    Faults = {"lost"}
    MaxSeq = 1
    MaxWire = 2
CHECK_DEADLOCK FALSE
ACTION_CONSTRAINT Scenario
SYMMETRY Symmetry
INVARIANTS RequestInOnePlace PendingMatchesCallers HandlersAccounted StreamsGapFree CeilingHonoured
PROPERTY KeepsCallPromise
