SPECIFICATION AccountsSpec
CONSTANTS
    Names = {admin, u1, u2}
    Bootstrap = admin
    Groups = {g1, g2}
    MaxDrift = 2
    MaxLate = 1
CONSTRAINT Few
SYMMETRY Symmetry
INVARIANTS
    AdminRemains
    GroupsPartition
    DriftIsReported
