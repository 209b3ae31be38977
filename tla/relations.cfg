SPECIFICATION PairSpec
CONSTANTS
    alice = alice
    bob = bob
    Users <- MCUsers
    Nobody = Nobody
    Origins = {"match"}
    Compatible <- MCCompatible
    ClientIds = {k1}
    Bodies = {hello}
    MaxMessages = 1
SYMMETRY Symmetry
CHECK_DEADLOCK FALSE
INVARIANTS
    BlockSevers
    MatchThreadBacked
    NoMutualLikes
    ReachedOutIsVisible
PROPERTIES
    EndedStaysEnded
    EndedMatchStaysOut
    ImplementsVelora
