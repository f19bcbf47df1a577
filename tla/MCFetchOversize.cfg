CONSTANTS
    Calls = {c1, c2}
    NoCall = NoCall
    Urls = {u1}
    Ttls = {1, 3}
    MaxBytes = 1
    Sizes = {1, 2}
    RequestTimeout = 1
    MaxVersion = 1
    Horizon = 3
SPECIFICATION Spec
INVARIANT OversizeIsLimit
