SPECIFICATION Spec
CONSTANTS
    Locations = {l1, l2}
    Images = {i1}
    Configs = {c1, c2}
    Ports = {p1, p2}
    Tags <- MCTags
    Tasks = {t1, t2}
    NoImage = NoImage
    NoContainer = NoContainer
    NoRoute = NoRoute
    NoConfig = NoConfig
    NoLocation = NoLocation
    Default = Default
    Torn = Torn
    Overlap = "none"
    Faults = TRUE
    Disconnects = TRUE
    WriteErrors = TRUE
SYMMETRY Symmetry
INVARIANTS TypeOK RoutesCurrent ConfigsCurrent
