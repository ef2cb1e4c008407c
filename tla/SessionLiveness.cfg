SPECIFICATION FairSpec
CONSTANTS
    Hub = Hub
    Runtime = Runtime
    Call = {c1}
    Requesters = {Hub}
    Emitters = {}
    Closers = {Runtime}
    Probers = {Hub, Runtime}
    StreamKey = {}
    MaxStreamKeys = 1
    Configs <- ConfigsPlain
    DefaultFrame = 2
    PayloadSizes = {1}
    ErrorSizes = {1}
    Faults = {"lost", "silent"}
    MaxSeq = 0
    MaxWire = 1
CHECK_DEADLOCK FALSE
PROPERTIES CallsSettle ClosureSpreads
