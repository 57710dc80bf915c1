SPECIFICATION FairSnapSpec
CONSTANTS
    VMs = {v1}
    Requests = {r1, r2}
    Loop = loop
    OfflineAfter = 3
    OnlineAfter = 2
    MaxFailures = 1
INVARIANTS
    OneRefreshAtATime
PROPERTIES
    TransitionsAreEarned
    EmptyAnswersAreExcused
    RequestsReturn
    SnapshotCatchesUp
