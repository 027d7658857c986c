SPECIFICATION Spec
CONSTANTS
    u1 = u1
    u2 = u2
    r1 = r1
    r2 = r2
    Users = {u1, u2}
    Groups = {g1}
    Names = {n1}
    Spaces = {s1}
    Reqs = {r1, r2}
    Grantable = {"read", "admin"}
    MaxRequests = 5
    None = None
SYMMETRY Interchangeable
INVARIANTS TypeOK OwnerAndCreator AuthorisedWrites QueriesAgree GrantsOfSpaces
PROPERTY RisesOnlyByGrant
CHECK_DEADLOCK FALSE
