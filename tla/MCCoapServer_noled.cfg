SPECIFICATION MCSpec
CONSTANTS
    Payload <- Word
    LedReady = FALSE
INVARIANT LedStateIsBoardLed
