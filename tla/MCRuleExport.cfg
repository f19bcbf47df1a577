\* Up to three rulesets for either target, every kind of provider, and bases
\* with providers and rule sets of their own.
CONSTANTS
    Targets = {"clash", "singbox"}
    Networks <- MCNetworks
    Networks6 <- MCNetworks6
    Lists <- MCLists
    Limits = {0, 4}
    Settings <- MCSettings
    Transforms <- MCTransforms
    Bases <- MCBases
    Stem <- MCStem
    OptimizeMin = 2
    Ports = {"80"}
    PortRanges = {}
    UserIds = {}
    NodeLists <- MCNodes
    GroupLists <- MCGroups
SPECIFICATION Spec
INVARIANTS
    ProvidersKeepTheirNames
    ResolutionKept
    HttpProvidersServe
    ReferencesResolve
PROPERTIES
    ImplementsRuleStream
