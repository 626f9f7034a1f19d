SPECIFICATION Spec
CONSTANTS
    Locations = {l1}
    Images = {i1, i2}
    Configs = {c1}
    Ports = {p1, p2}
    Tags <- MCTags
    Tasks = {t1, t2}
    NoImage = NoImage
    NoContainer = NoContainer
    NoRoute = NoRoute
    NoConfig = NoConfig
    NoLocation = NoLocation
    Default = Default
    Torn = Torn
    Overlap = "any"
    Faults = FALSE
    Disconnects = FALSE
    WriteErrors = FALSE
SYMMETRY Symmetry
INVARIANT LatestDeployed
