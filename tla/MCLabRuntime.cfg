SPECIFICATION RuntimeSpec
CONSTANTS
    Users = {u1}
    Handlers = {h1, h2}
    Jobs = {j1, j2}
    MaxJobs = 1
    AuditLimit = 2
    MaxEvents = 3
SYMMETRY Interchangeable
INVARIANTS
    OutcomesAreTrue
    
