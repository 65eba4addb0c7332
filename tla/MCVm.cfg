SPECIFICATION Spec
CONSTANTS
    v1 = v1
    v2 = v2
    Nothing = Nothing
    VMs = {v1}
    CPUs = {0, 1}
    Shells = {o1, o2}
    Menus = {f}
    Named <- OneNamed
    Commands <- AllCommands
    NetTypes = {0, 1, 3}
    MaxBusy = 2
    HasCgroup = TRUE
    HasCpulimit = TRUE
    MaxInt = 524287
INVARIANT TypeOK
INVARIANT LastNetworkFaultOnly
INVARIANT DelayTakesEffect
INVARIANT MenuClearRestores
INVARIANT KvmClearAfterPerfClear
SYMMETRY ShellSymmetry
