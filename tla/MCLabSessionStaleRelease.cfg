SPECIFICATION SessionSpec
CONSTANTS
    Users = {u1, u2, root}
    Admins = {root}
    Manages = {}
    Labs = {l1}
    Ids = {i1, i2}
    Original = Original
    MaxHours = 1
    MaxTotalHours = 2
    ExtensionWindow = 1
    MaxSimultaneous = 1
    Grain = 1
    Horizon = 2
    MaxAbandoned = 0
    SandboxTurnedOff = FALSE
SYMMETRY Symmetry
PROPERTY ReleaseRemovesOwn
