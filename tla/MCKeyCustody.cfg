SPECIFICATION FairSpec
CONSTANTS
    p1 = p1
    r1 = r1
    r2 = r2
    a = a
    v1 = v1
    v2 = v2
    s1 = s1
    k1 = k1
    k2 = k2
    k3 = k3
    Procs = {p1}
    Reqs = {r1, r2}
    Users = {a}
    Vaults = {v1, v2}
    Secrets = {s1}
    Masters = {k1, k2, k3}
    EnvSecret = s1
    MaxMishaps = 2
    None = None
CHECK_DEADLOCK FALSE
INVARIANT
    VaultsServed
PROPERTY
    ServesAgain
