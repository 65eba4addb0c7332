SPECIFICATION Spec
CONSTANTS
    None = None
    Programs <- AllPrograms
    Baits <- TwoBaits
    Static <- OneStatic
    Width = 2
    MemTools <- Tools3
    Flips <- Aim
    Tolerance = 2
    Offsets <- Plus
    MaxFaults = 2
    MaxDrift = 6
    MaxProbes <- Probes
    Ports = {7}
    Kinds <- NetKinds
    Cores = 2
    Threadings <- Asked
    Most = 3
    Memory = 6
    Leaks <- LeakSizes
INVARIANT TypeOK
INVARIANT HitsAreReportedOnce
INVARIANT RegVerdictSettles
INVARIANT StatsBalance
PROPERTY AlarmsFollowFaults
PROPERTY EverythingEnds
CHECK_DEADLOCK FALSE
