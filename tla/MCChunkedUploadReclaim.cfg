SPECIFICATION FairSpec
CONSTANTS
    u1 = u1
    u2 = u2
    r1 = r1
    p1 = p1
    Uploads = {u1, u2}
    Paths = {p1}
    Target <- OneTarget
    Reqs = {r1}
    NumChunks = 2
    Expiry = 1
    MaxTime = 2
    MaxMishaps = 1
    Hole = Hole
    NoUpload = NoUpload
INVARIANTS
    AckedChunkKept
    RowGoneForCause
PROPERTY
    ExpiredReclaimed
