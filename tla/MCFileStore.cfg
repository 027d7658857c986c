SPECIFICATION FairSpec
CONSTANTS
    Paths <- TwoNames
    Asked <- Targets
    Stored <- Inner
    StoredFormat = "stream"
    MaxAtOnce = 2
    MaxUploads = 3
    MaxRequests = 2
    MaxMishaps = 1
    None = None
INVARIANTS TypeOK QuietReads
PROPERTIES AloneIsAtomic AloneAsAsked ReplacedOnlyByRace ReportedForCause DamageReported
CHECK_DEADLOCK FALSE
