\* Three calls of one URL that share the cache with two different TTLs.
CONSTANTS
    Calls = {c1, c2, c3}
    NoCall = NoCall
    Urls = {u1}
    Ttls = {1, 2}
    MaxBytes = 1
    Sizes = {1, 2}
    RequestTimeout = 1
    MaxVersion = 1
    Horizon = 3
SPECIFICATION Spec
SYMMETRY Interchangeable
INVARIANTS
    SingleFlight
    BodyWithinLimit
PROPERTIES
    BoundedStaleness
    ReadsMonotone
    OneDownloadPerTtl
