\* Every sequential algorithm; up to four proxies of one kind are named, as
\* the Clash exporter does it; three sources of GET /ruleset finish in any order,
\* with a limit of three rules; the words of a bitmap have three bits, addresses
\* four, of which IPv4 has the lower two.
CONSTANTS
    Subjects = {"names", "chain", "groups", "template", "private", "collect", "mrs"}
    Kinds = {"vmess"}
    Label <- MCLabel
    Dropped = {}
    Words <- MCWords
    Dash <- MCDash
    Names <- MCNames
    MaxNodes = 4
    Numerals <- MCNumerals
    Addresses = {"1.2.3.4"}
    Texts0 <- MCTexts
    Preferences <- MCPreferences
    MaxHops = 4
    GroupFiles <- MCGroupFiles
    NodeLists <- MCNodeLists
    Requests <- MCRequests
    GlobalLists <- MCGlobalLists
    TagSets <- MCTagSets
    Transforms = {"geosite"}
    Targets = {"clash", "singbox"}
    PrivateFiles <- MCPrivateFiles
    Environment <- MCEnvironment
    Contents = {"none", "one", "two", "binary"}
    Failed = "failed"
    Pending = "pending"
    MinSources = 1
    MaxSources = 3
    FetchConcurrency = 3
    SkipFailed = {FALSE}
    Sorts = FALSE
    MaxRules = 3
    RulesOf <- MCRulesOf
    NotText = {"binary"}
    DomainLists <- MCDomainLists
    NetworkLists <- MCNetworkLists
    Order <- MCOrder
    Lower <- MCLower
    WordBits = 3
    V4Bits = 2
    V6Bits = 4
    MappedPrefix = 1
SPECIFICATION AnySpec
CHECK_DEADLOCK FALSE
INVARIANTS
    NamesDistinct
    NumbersHaveNoGaps
    ExportsReadBack
    TlsIsNeverLost
    MembersFollowSelectors
    OrderDoesNotMatter
    RouteIsIntended
    LimitIsExact
    OrderIrrelevantBelowLimit
    TrieReadsBack
    RangesCoverNetworks
PROPERTIES
    NamingEnds
    ChainSettles
