SPECIFICATION BootSpec
CONSTANTS
    Board <- AllBoards
    MaxEvents = 0
INVARIANT LoggedUpIsUp
CHECK_DEADLOCK FALSE
