SPECIFICATION ProbeSpec
CONSTANTS
    Tools = {"measure", "bench_endpoint"}
    Cases <- TwoCalls
    Count = 2
    Warmup = 1
    IdSpace = 3
    MaxDups = 1
INVARIANT NonAnsweredByNon
CHECK_DEADLOCK FALSE
