\* The status of a conversion whose sources all fail.
CONSTANTS
    Configs <- MCConfigs
    Requests <- MCRequests
    Externals <- MCExternals
    MaxSources = 2
SPECIFICATION Spec
INVARIANT UpstreamFailureIs502
