SPECIFICATION FairSessionSpec
CONSTANTS
    Users = {u1, root}
    Admins = {root}
    Manages = {}
    Labs = {l1}
    Ids = {i1}
    Original = Original
    MaxHours = 1
    MaxTotalHours = 2
    ExtensionWindow = 1
    MaxSimultaneous = 1
    Grain = 1
    Horizon = 2
    MaxAbandoned = 1
    SandboxTurnedOff = TRUE
INVARIANTS
    FlagCoversEdits
PROPERTIES
    ReleaseLeavesOriginal
    EveryCallReturns
