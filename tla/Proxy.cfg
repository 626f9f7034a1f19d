SPECIFICATION Spec
CONSTANTS
    Lower <- MCLower
    Locations <- TwoLocations
    Foreign <- MCForeign
    Ports = {p1, p2}
    Configs <- MCConfigs
    MasterKey <- MCMasterKey
    Headers <- MCHeaders
    Queries <- MCQueries
    Requests = {r1, r2}
    NoQuery = NoQuery
    Empty = Empty
    Torn = Torn
SYMMETRY Symmetry
INVARIANTS TypeOK Reachable SentToOwn AdmittedByStored PathPreserved
