SPECIFICATION ConsoleSpec
CONSTANTS
    Cards = {c1}
    RecoverAll = {r1}
    TestPages = {t1}
    Screens <- Browsers
    Menu <- ClusterMenu
    Tests <- TestMenu
    Workers <- OneWorker
    Sudo <- UnderSudo
    Fragile <- NameNode
    MaxStrays = 1
    MaxCrashes <- OneCrash
    Nodes <- TwoNodes
    Starters = {s1, s2}
    MaxExits = 1
INVARIANT ConsoleTypeOK
INVARIANT RestartIsComplete
INVARIANT RecoveryClears
PROPERTY ClicksComeBack
PROPERTY MachinesComeUp
