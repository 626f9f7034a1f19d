SPECIFICATION Spec
CONSTANTS
    a = a
    b = b
    Uploads = {u1, u2}
    Frames = {a, b}
    Digests <- MCDigests
    Sha256 <- MCSha256
    Requests = {r1, r2}
    NoFile = NoFile
    NoDigest = NoDigest
    NoFrame = NoFrame
    MaxFrames = 2
    Overlap = TRUE
    Disconnects = TRUE
SYMMETRY Symmetry
INVARIANTS PublishedOnce CreatedIsStored
PROPERTY SealedBlobs
