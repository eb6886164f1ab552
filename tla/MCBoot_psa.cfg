SPECIFICATION BootSpec
CONSTANTS
    Board <- AllBoards
    MaxEvents = 0
INVARIANT PsaBeforeCrypto
CHECK_DEADLOCK FALSE
