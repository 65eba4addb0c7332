CONSTANTS
    Master = "master"
    SlaveSeq <- MCSlaves
    Outsiders = {"gateway", "masterName"}
    BadNames = {"masterName"}
    Hosted <- NoHosted
    Sessions = {s1, s2}
    Commands <- NetCommands
    None = None
SPECIFICATION Spec
INVARIANT TypeOK
INVARIANT SlavesReachable
INVARIANT FaultsAreAimed
INVARIANT ClearSweeps
INVARIANT InjectionTakesEffect
INVARIANT RacesLeaveOneShaping
SYMMETRY Symmetry
CHECK_DEADLOCK TRUE
