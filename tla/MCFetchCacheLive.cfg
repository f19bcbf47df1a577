\* Cached and direct calls of one URL; the origin may never answer.
CONSTANTS
    Calls = {c1, c2, c3}
    NoCall = NoCall
    Urls = {u1}
    Ttls = {0, 1}
    MaxBytes = 1
    Sizes = {1}
    RequestTimeout = 1
    MaxVersion = 0
    Horizon = 1
SPECIFICATION FairSpec
PROPERTIES
    EveryCallEnds
