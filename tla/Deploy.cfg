SPECIFICATION DeploySpec
CONSTANTS
    i1 = i1
    i2 = i2
    b1 = b1
    b2 = b2
    Locations = {l1, l2}
    Images = {i1, i2}
    Configs = {}
    Ports = {p1, p2}
    Tags <- ProdOnly
    Tasks = {t1, t2}
    NoImage = NoImage
    NoContainer = NoContainer
    NoRoute = NoRoute
    NoConfig = NoConfig
    NoLocation = NoLocation
    Default = Default
    Torn = Torn
    Overlap = "others"
    Faults = TRUE
    Disconnects = TRUE
    WriteErrors = FALSE
    Layers = {b1, b2}
    LayersOf <- MCLayersOf
    VolumesOf <- MCVolumesOf
    Files <- OneFile
    Headers <- MCHeaders
    Remote = FALSE
SYMMETRY Symmetry
INVARIANTS CompleteImages VolumesSeparate LatestDeployed
PROPERTIES ImplementsOrchestrator StartupKeepsContainers
