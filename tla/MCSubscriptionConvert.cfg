\* Who may read what, wherever it is named, and who needs a base URL.
CONSTANTS
    Configs <- MCConfigs
    Requests <- MCRequests
    Externals <- MCExternals
    MaxSources = 2
SPECIFICATION Spec
INVARIANTS
    LocalReadsAuthorized
    RefusalIsDeserved
    FetchesLimited
    InsertsKeepTheirPlace
    SuccessIsComplete
    BaseUrlCheckedEarly
