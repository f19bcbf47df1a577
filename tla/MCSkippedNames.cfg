\* Up to three proxies, of which the sing-box exporter skips some.
CONSTANTS
    Subjects = {"names"}
    Kinds = {"vmess", "snell"}
    Label <- MCLabel
    Dropped = {"snell"}
    Words <- MCWords
    Dash <- MCDash
    Names <- FewNames
    MaxNodes = 3
    Numerals <- MCNumerals
    Addresses = {"1.2.3.4"}
    Texts0 <- MCTexts
    Preferences <- MCPreferences
    MaxHops = 4
    GroupFiles <- MCGroupFiles
    NodeLists <- MCNodeLists
    Requests <- MCRequests
    GlobalLists <- MCGlobalLists
    TagSets <- MCTagSets
    Transforms = {"geosite"}
    Targets = {"clash", "singbox"}
    PrivateFiles <- MCPrivateFiles
    Environment <- MCEnvironment
    Contents = {"none", "one", "two", "binary"}
    Failed = "failed"
    Pending = "pending"
    MinSources = 1
    MaxSources = 3
    FetchConcurrency = 3
    SkipFailed = {FALSE}
    Sorts = FALSE
    MaxRules = 3
    RulesOf <- MCRulesOf
    NotText = {"binary"}
    DomainLists <- MCDomainLists
    NetworkLists <- MCNetworkLists
    Order <- MCOrder
    Lower <- MCLower
    WordBits = 3
    V4Bits = 2
    V6Bits = 4
    MappedPrefix = 1
SPECIFICATION AnySpec
CHECK_DEADLOCK FALSE
INVARIANT SkippedReserveNothing
