SPECIFICATION FairSpec
CONSTANTS
    Users = {ann, bob}
    Messages = {m1}
    Endpoints = {e1, e2}
    Ids = {i1, i2}
    MaxAttempts = 2
    None = None
CHECK_DEADLOCK FALSE
INVARIANTS
    LateAtMostOnce
PROPERTIES
    OnlyDeadDropped
    Announced
