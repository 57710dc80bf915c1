SPECIFICATION FairGatewaySpec
CONSTANTS
    Users = {u1, u2}
    Labs = {l1}
    Ids = {i1}
    MaxHours = 1
    MaxTotalHours = 2
    ExtensionWindow = 1
    MaxSimultaneous = 1
    Grain = 1
    Horizon = 2
    VMs = {v1}
    v1 = v1
    VmOf <- OneVm
    MaxRestarts = 1
    NoSnapshot = NoSnapshot
    NoTable = NoTable
    Nobody = Nobody
INVARIANTS
    TableIsCurrent
PROPERTIES
    ExpiryIsEnforced
    HandlersReturn
    HostsFollowSnapshot
