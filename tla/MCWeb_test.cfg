SPECIFICATION ConsoleSpec
CONSTANTS
    Cards = {}
    RecoverAll = {}
    TestPages = {t1}
    Screens <- TestScreen
    Menu <- NoTests
    Tests <- TestMenu
    Workers <- OneWorker
    Sudo <- UnderSudo
    Fragile <- NoTests
    MaxStrays = 1
    MaxCrashes <- OneCrash
    Nodes <- TwoNodes
    Starters = {s1, s2}
    MaxExits = 1
INVARIANT CleanupRestores
