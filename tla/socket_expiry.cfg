SPECIFICATION FairSpec
CONSTANTS
    NoTicket = NoTicket
    Accounts = {ann}
    Sockets = {s1}
    Tickets = {k1}
    PerUser = 1
    Total = 1
    PageSize = 1
    MaxEvents = 1
    MaxCursor = 2
CHECK_DEADLOCK FALSE
PROPERTY ExpiryClosesSocket
