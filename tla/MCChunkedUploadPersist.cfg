SPECIFICATION Spec
CONSTANTS
    u1 = u1
    r1 = r1
    r2 = r2
    p1 = p1
    Uploads = {u1}
    Paths = {p1}
    Target <- OneTarget
    Reqs = {r1, r2}
    NumChunks = 2
    Expiry = 1
    MaxTime = 0
    MaxMishaps = 0
    Hole = Hole
    NoUpload = NoUpload
SYMMETRY Symmetry
INVARIANT
    CompletedFilePersists
