SPECIFICATION Spec
CONSTANTS
    Users = {alice, bob}
    Moderators = {mod}
    Calls = {c1, c2}
    Ids = {r1, r2, r3}
    MaxReportsPerDay = 1
    PageSize = 1
    MaxReopens = 1
CHECK_DEADLOCK FALSE
INVARIANTS
    OneLivePerPair
    FilingsBounded
PROPERTIES
    NothingWaitsForever
