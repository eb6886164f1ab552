SPECIFICATION CliSpec
CONSTANTS
    r1 = r1
    r2 = r2
    r3 = r3
    Run = {r1, r2, r3}
    Retries = 3
    MaxContexts = 3
INVARIANTS
    CliTypeOK
    RetryFindsRoom
PROPERTY PoolDrains
CHECK_DEADLOCK FALSE
