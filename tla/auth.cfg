SPECIFICATION AuthSpec
CONSTANTS
    Calls = {c1, c2, c3}
    NoCall = NoCall
    MaxTokens = 3
    Requests = {c1, c2, c3}
    Emails = {e1, e2}
    Subjects = {s1, s2}
    Users = {u1, u2, u3}
    None = None
SYMMETRY Symmetry
CHECK_DEADLOCK FALSE
INVARIANTS
    OneLive
    RevokedTogether
    GoogleOnePerAddress
    GoogleMeansNoPassword
PROPERTY LinksOnlyActive
