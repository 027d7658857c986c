SPECIFICATION Spec
CONSTANTS
    p1 = p1
    p2 = p2
    r1 = r1
    a = a
    v1 = v1
    s1 = s1
    s2 = s2
    k1 = k1
    k2 = k2
    Procs = {p1, p2}
    Reqs = {r1}
    Users = {a}
    Vaults = {v1}
    Secrets = {s1, s2}
    Masters = {k1, k2}
    EnvSecret = None
    MaxMishaps = 0
    None = None
CHECK_DEADLOCK FALSE
INVARIANT
    RestartLoads
