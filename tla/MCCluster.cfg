CONSTANTS
    None = None
    Controller = ctl
    Runners = {ctl, shell}
    Slaves = {"slave1"}
    Addresses = {"slave1"}
    SystemVMs <- MCSystemVMs
    StorageServer = "slave1"
    MaxRuns = 3
    Menu <- MCMenu
    Commands <- MCCommands
SPECIFICATION Spec
INVARIANT TypeOK
INVARIANT CsInjectionTakesEffect
INVARIANT RecoverAllRestores
INVARIANT CascadeUndoesItself
PROPERTY WaitsOnlyForTheHung
CHECK_DEADLOCK FALSE
