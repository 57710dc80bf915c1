SPECIFICATION FairPushSpec
CONSTANTS
    Pushers = {p1, p2}
    Base = {"b"}
    Extra = {"x", "n"}
    Nested = {"n"}
    SameUnit <- Unit
    MaxAttempts = 2
CONSTRAINT OneUnseen
PROPERTIES
    OkMeansApplied
    
    PushesEnd
CHECK_DEADLOCK FALSE
