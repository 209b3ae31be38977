SPECIFICATION ConversationsSpec
CONSTANTS
    alice = alice
    bob = bob
    Users <- MCUsers
    Nobody = Nobody
    Origins = {"request", "anonymous"}
    Compatible <- MCCompatible
    ClientIds = {k1, k2}
    Bodies = {hello}
    MaxMessages = 2
SYMMETRY Symmetry
CONSTRAINT OneAtATime
CHECK_DEADLOCK FALSE
PROPERTY EveryChangeAnnounced
