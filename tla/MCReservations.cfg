SPECIFICATION Spec
CONSTANTS
    Users = {u1, u2}
    Labs = {l1, l2, l3}
    Ids = {i1, i2, i3}
    MaxHours = 2
    MaxTotalHours = 4
    ExtensionWindow = 1
    MaxSimultaneous = 2
    Grain = 2
    Horizon = 3
SYMMETRY Symmetry
INVARIANTS
    OverlapOnlyByExtension
    SimultaneousLimitUnlessExtended
    SweepFindsPeak
PROPERTIES
    BegunReservationsKept
    BookingDisplacesOnlyOwn
