SPECIFICATION Spec
CONSTANTS
    Hub = Hub
    Runtime = Runtime
    Call = {c1}
    Requesters = {Hub, Runtime}
    Emitters = {}
    Closers = {Hub}
    Probers = {}
    StreamKey = {}
    MaxStreamKeys = 1
    Configs <- ConfigsVersions
    DefaultFrame = 2
    PayloadSizes = {1}
    ErrorSizes = {1, 2}
    Faults = {"lost"}
    MaxSeq = 0
    MaxWire = 2
CHECK_DEADLOCK FALSE
INVARIANTS HandshakeAgreement NoProtocolRefusal
PROPERTIES FirstOutcomeIsFinal HandlersRunOnce
