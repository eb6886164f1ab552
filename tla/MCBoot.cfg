SPECIFICATION BootSpec
CONSTANTS
    Board <- AllBoards
    MaxEvents = 6
INVARIANTS
    BootTypeOK
    CredentialsFirst
    UsbFollowsVbus
PROPERTIES
    BootServes
CHECK_DEADLOCK FALSE
