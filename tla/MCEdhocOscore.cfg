SPECIFICATION DeviceSpec
CONSTANTS
    x1 = x1
    x2 = x2
    NoSession = NoSession
    GX = {x1, x2}
    MaxDraws = 2
    Kid <- MCKid
    ED_KID_I = 42
    ED_KID_R = 43
    Piv = {0, 1, 2}
    REPLAY_WINDOW = 2
    Payload <- MCPayload
    LedReady = TRUE
INVARIANTS
    DeviceTypeOK
    KeysReleased
    AnswersReadable
    ConsistentContext
    HandshakeExcludesSession
    FreshKeys
    WindowCovers
    KeysInstalledOnce
    DispatchedAtMostOnce
PROPERTY NoSessionSwap
