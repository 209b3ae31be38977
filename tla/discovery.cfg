SPECIFICATION MCSpec
CONSTANTS
    Users <- MCUsers
    Nobody = Nobody
    Origins = {}
    Compatible = {}
    ClientIds = {}
    Bodies = {}
    MaxMessages = 0
    Requests = {r1, r2}
    Submissions <- MCSubmissions
    near = near
    afar = afar
    Places = {near, afar}
    Nowhere = Nowhere
    PoolSize = 2
    Km <- MCKm
    Filters <- MCFilters
    PhotosOf <- MCPhotosOf
SYMMETRY Symmetry
CHECK_DEADLOCK FALSE
INVARIANTS
    ListsFromOneSave
    IntroducedAreFindable
    RankingSettled
    OpenersFit
