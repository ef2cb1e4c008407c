SPECIFICATION SocketSpec
CONSTANTS
    Attempt = {d1, d2}
    Environments <- AllDialIn
    MaxFailures = 2
    MaxTokens = 2
    None = None
CHECK_DEADLOCK FALSE
SYMMETRY Symmetry
INVARIANTS CredentialHonoured NoGhostSocket
