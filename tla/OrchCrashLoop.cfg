SPECIFICATION FairSpec
CONSTANTS
    Locations = {l1}
    Images = {i1}
    Configs = {c1}
    Ports = {p1, p2}
    Tags <- MCTags
    Tasks = {t1}
    NoImage = NoImage
    NoContainer = NoContainer
    NoRoute = NoRoute
    NoConfig = NoConfig
    NoLocation = NoLocation
    Default = Default
    Torn = Torn
    Overlap = "none"
    Faults = TRUE
    Disconnects = FALSE
    WriteErrors = TRUE
PROPERTY ComesBack
