SPECIFICATION Spec
CONSTANTS
    Manifests = {m1, m2}
    Tags = {t1, t2}
    Uuids = {x1, x2}
    Requests = {r1, r2}
    NoManifest = NoManifest
    NoTag = NoTag
    NoUuid = NoUuid
    NoRequest = NoRequest
SYMMETRY Symmetry
INVARIANTS TypeOK TagResolves TaggedIsWhole PulledWasPushed
PROPERTY TagsReplaced
