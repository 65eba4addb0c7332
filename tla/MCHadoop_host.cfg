CONSTANTS
    Master = "master"
    SlaveSeq <- MCSlaves
    Outsiders = {"gateway", "masterName"}
    BadNames = {"masterName"}
    Hosted <- MCHosted
    Sessions = {s1, s2}
    Commands <- HostCommands
    None = None
SPECIFICATION FairSpec
INVARIANT ResumeWakesAll
INVARIANT HostFaultsTakeEffect
PROPERTY EveryInvocationEnds
CHECK_DEADLOCK TRUE
