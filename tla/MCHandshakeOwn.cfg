SPECIFICATION SystemSpec
CONSTANTS
    x1 = x1
    x2 = x2
    NoSession = NoSession
    GX = {x1}
    MaxDraws = 4
    MaxFaults = 1
    Kid <- MCKid
    ED_KID_I = 42
    ED_KID_R = 43
    Piv = {0, 1}
    REPLAY_WINDOW = 32
    Payload <- MCPayload
    LedReady = TRUE
    Script <- MCScript
INVARIANT OwnResponse
CHECK_DEADLOCK FALSE
