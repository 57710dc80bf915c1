SPECIFICATION FairAgentSpec
CONSTANTS
    Threads = {t1, t2}
    Edits = {e1, e2}
    AdminTopologies = {a1, a2}
    Initial = a1
    NoFile = NoFile
    Torn = Torn
    Down = Down
    Nobody = Nobody
    CrashesHappen = TRUE
INVARIANTS
    BaselineNeverEdit
    EditsHaveBaseline
PROPERTIES
    FailedEditWithdrawn
    ResetRemovesEdits
    LabIsAtomic
    LockIsFreed
