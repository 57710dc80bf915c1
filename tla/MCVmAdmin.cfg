SPECIFICATION VmAdminSpec
CONSTANTS
    VmIds = {v1, v2, v3}
    Subnets <- AddressSpace
    Overlap <- Containment
    Ips = {"a", "b"}
    Foreign = {"other"}
    MaxFaults = 3
    Vms = {w1, w2}
    Machines = {m1}
    ProvisionJobs = {j1, j2, j3, j4}
    MaxProvisionJobs = 2
SYMMETRY Interchangeable
INVARIANTS
    NoOverlap
    RoutesFollowRegistry
    OneDeployPerVm
PROPERTY
    ProvisionStore
