\* Two requests and one or two permits.
CONSTANTS
    Requests = {r1, r2}
    DefaultHeavyTasks = 1
    MaxSources = 1
    Configs <- MCConfigs
SPECIFICATION FairSpec
INVARIANTS
    NoAnswerCutShort
PROPERTIES
    ShutdownCompletes
