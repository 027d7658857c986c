SPECIFICATION FairSpec
CONSTANTS
    RawNames <- TypedNames
    RawEmails <- TypedEmails
    USERNAME_MIN_LEN = 1
    USERNAME_MAX_LEN = 2
    EMAIL_MAX_LEN = 5
    MaxTokens = 2
    MaxAtOnce = 2
    Clients <- SomeClients
    Lifetime = 1
    LoginMax = 2
    RegisterMax = 1
    Window = 1
    MaxRequests = 4
    MaxMishaps = 1
    MaxClock = 2
    None = None
INVARIANTS TypeOK BarredRefused LogoutEnds SomeAdmin RateBound DeniedForCause
PROPERTIES AdminsRaced RowsEndLawfully ExpiredCollected
