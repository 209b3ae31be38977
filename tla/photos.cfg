SPECIFICATION PhotosSpec
CONSTANTS
    Requests = {r1, r2}
    Images = {sea, hill}
    NoImage = NoImage
    MaxPhotos = 2
    Shift = 3
    MaxPosition = 6
    MaxIds = 3
    MaxNamed = 2
SYMMETRY Symmetry
CHECK_DEADLOCK FALSE
INVARIANTS
    BrokenOnlyIfShared
    OvershootBounded
