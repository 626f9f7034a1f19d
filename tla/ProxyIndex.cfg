SPECIFICATION Spec
CONSTANTS
    Lower <- MCLower
    Locations <- Domain
    Foreign <- MCForeign
    Ports = {p1, p2}
    Configs <- MCConfigs
    MasterKey <- MCMasterKey
    Headers <- MCHeaders
    Queries <- MCQueries
    Requests = {r1, r2}
    NoQuery = NoQuery
    Empty = Empty
    Torn = Torn
SYMMETRY Symmetry
INVARIANT DomainOfIndex
