SPECIFICATION Spec
CONSTANTS
    Hub = Hub
    Runtime = Runtime
    Call = {c1}
    Requesters = {Hub}
    Emitters = {}
    Closers = {Hub}
    Probers = {}
    StreamKey = {}
    MaxStreamKeys = 2
    Configs <- ConfigsInFlight
    DefaultFrame = 2
    PayloadSizes = {1}
    ErrorSizes = {3}
    Faults = {}
    MaxSeq = 0
    MaxWire = 2
CHECK_DEADLOCK FALSE
INVARIANTS RequestInOnePlace
