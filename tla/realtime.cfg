SPECIFICATION FairSpec
CONSTANTS
    NoTicket = NoTicket
    Accounts = {ann}
    Sockets = {s1, s2}
    Tickets = {k1, k2}
    PerUser = 1
    Total = 2
    PageSize = 1
    MaxEvents = 2
    MaxCursor = 2
CHECK_DEADLOCK FALSE
INVARIANTS
    NoLostWake
    SlotsBounded
    TicketOnce
PROPERTIES
    CatchesUp
    EndedSocketsReturn
