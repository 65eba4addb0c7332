SPECIFICATION Spec
CONSTANTS
    v1 = v1
    v2 = v2
    Nothing = Nothing
    VMs = {v1, v2}
    CPUs = {0, 1}
    Shells = {o1}
    Menus = {f}
    Named <- OneNamed
    Commands <- KvmCommands
    NetTypes = {0, 1, 3}
    MaxBusy = 2
    HasCgroup = TRUE
    HasCpulimit = TRUE
    MaxInt = 524287
INVARIANT KvmClearRestores
