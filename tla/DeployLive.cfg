SPECIFICATION FairDeploySpec
CONSTANTS
    i1 = i1
    i2 = i2
    b1 = b1
    b2 = b2
    Locations = {l1, l2}
    Images = {i1}
    Configs = {c1}
    Ports = {p1, p2}
    Tags <- MCTags
    Tasks = {t1}
    NoImage = NoImage
    NoContainer = NoContainer
    NoRoute = NoRoute
    NoConfig = NoConfig
    NoLocation = NoLocation
    Default = Default
    Torn = Torn
    Overlap = "none"
    Faults = TRUE
    Disconnects = TRUE
    WriteErrors = FALSE
    Layers = {b1}
    LayersOf <- OneLayer
    VolumesOf <- OneVolume
    Files <- SomeFiles
    Headers <- MCHeaders
    Remote = FALSE
INVARIANT OwnLoginAccepted
PROPERTIES PushAnswered Deploys
