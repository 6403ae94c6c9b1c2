\* Two requests at a time for a fleet of two, with failures.
SPECIFICATION Spec
SYMMETRY Reordering
CONSTANTS
    h1 = h1
    h2 = h2
    p1 = p1
    p2 = p2
    suv = suv
    van = van
    All = All
    Keep = Keep
    None = None
    Handlers = {h1, h2}
    Plates = {p1, p2}
    Categories = {suv, van}
    LowerCase <- OneSpelling
    Limit = 1
    Failures = TRUE
    MaxVehicles = 2
    MaxUpset = 0
INVARIANTS
    TypeOK
    StoresAgree
    WalksAreComplete
