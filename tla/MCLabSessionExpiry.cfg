SPECIFICATION FairSessionSpec
CONSTANTS
    Users = {u1}
    Admins = {}
    Manages = {}
    Labs = {l1}
    Ids = {i1}
    Original = Original
    MaxHours = 1
    MaxTotalHours = 1
    ExtensionWindow = 1
    MaxSimultaneous = 1
    Grain = 1
    Horizon = 2
    MaxAbandoned = 0
    SandboxTurnedOff = FALSE
PROPERTY ExpiryResets
