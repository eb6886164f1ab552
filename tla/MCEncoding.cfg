SPECIFICATION Spec
CONSTANTS
    Filler = {0, 24, 88, 245, 255}
    InputLen = {0, 1, 64}
    HashSize = {31, 32, 33}
    MaxSamples = 1000
INVARIANTS
    FramingExact
    KidVerified
    WireIntInverse
    AcceleratorFree
    PercentilesSound
    FiguresOrdered
CHECK_DEADLOCK FALSE
