SPECIFICATION MCSpec
CONSTANTS
    Payload <- Word
    LedReady = TRUE
INVARIANTS
    CoapTypeOK
    GetReportsPin
    RoutesAgree
