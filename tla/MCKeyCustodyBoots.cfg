SPECIFICATION Spec
CONSTANTS
    p1 = p1
    p2 = p2
    r1 = r1
    a = a
    v1 = v1
    v2 = v2
    s1 = s1
    s2 = s2
    s3 = s3
    k1 = k1
    k2 = k2
    k3 = k3
    Procs = {p1, p2}
    Reqs = {r1}
    Users = {a}
    Vaults = {v1, v2}
    Secrets = {s1, s2, s3}
    Masters = {k1, k2, k3}
    EnvSecret = None
    MaxMishaps = 1
    None = None
CHECK_DEADLOCK FALSE
SYMMETRY Symmetry
INVARIANTS
    TypeOK
    RowsUnwrappable
