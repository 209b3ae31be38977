SPECIFICATION WaitingSpec
CONSTANTS
    alice = alice
    bob = bob
    carol = carol
    Users <- MCUsers
    Nobody = Nobody
    Origins = {"anonymous"}
    Compatible <- MCCompatible
    ClientIds = {k1}
    Bodies = {hello}
    MaxMessages = 0
SYMMETRY Symmetry
CONSTRAINT OneTrouble
CHECK_DEADLOCK FALSE
INVARIANTS
    OnePartner
    LeaverPairedOnce
PROPERTIES
    QueueImplementsVelora
