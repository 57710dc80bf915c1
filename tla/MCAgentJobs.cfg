SPECIFICATION JobsSpec
CONSTANTS
    Jobs = {j1, j2}
    Nodes = {1, 2}
    MaxJobs = 1
PROPERTIES
    StoreSpec
    CancelStopsJob
    DefaultsRecoverable
    JobsFinish
