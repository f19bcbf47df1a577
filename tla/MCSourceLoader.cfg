\* Up to four sources, two at a time, as convert and load_rulesets load them.
CONSTANTS
    Contents = {x, y}
    Failed = Failed
    Pending = Pending
    MinSources = 0
    MaxSources = 4
    FetchConcurrency = 2
    SkipFailed = {TRUE, FALSE}
    Sorts = TRUE
SPECIFICATION FairSpec
INVARIANTS
    ConcurrencyBounded
    NothingRunsAfterwards
PROPERTIES
    ImplementsOrderedLoad
    EveryLoadReturns
