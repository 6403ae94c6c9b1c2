\* Two requests at a time for one vehicle, and no failure.
SPECIFICATION Spec
CONSTANTS
    h1 = h1
    h2 = h2
    p1 = p1
    p2 = p2
    suv = suv
    van = van
    All = All
    Keep = Keep
    None = None
    Handlers = {h1, h2}
    Plates = {p1}
    Categories = {suv, van}
    LowerCase <- OneSpelling
    Limit = 1
    Failures = FALSE
    MaxVehicles = 1
    MaxUpset = 1
INVARIANT
    DeletedNotCached
