SPECIFICATION Spec
CONSTANTS
    None = None
    Unused = Unused
    Names = {n1, n2}
    Ports = {p1, p2}
    Chains = {c1, c2}
    MaxWrites = 2
    Texts = {t1, t2, t3}
    Saves = {s1, s2}
    Fields = {f1, f2}
    MaxClicks = 2
    Values = {v1, v2, odd}
    Unusable = {odd}
    MaxSaves = 3
    Types = {"socks5", "socks4", "ss"}
    MaxHops = 2
    MaxEdits = 4
    Rules = {1, 2}
    Choices = {0, 1}
    PageSize = 1
    MaxConnections = 2
    MaxRestarts = 1
    RuleNames <- MCRuleNames
    Configs <- MCConfigs
    States = {"running", "stopped"}
    Searches = {0, 1}
    Sorts <- MCSorts
    MaxConfigs = 1
    MaxVisits = 2
    URLs <- MCURLs
    Stats <- MCStats
    Uses <- MCUses
    MaxEntries = 2
    Requests = {r1, r2}
    Questions = {q1, q2, q3, q4}
SYMMETRY Symmetry
INVARIANTS
    EditorIsTrue
    CleanFormIsTold
    FormMirrorsServer
    RowsKeepIdentity
    RulesAreWhole
    HostsConserve
    VerdictIsSound
    AnswerIsUsers
PROPERTIES
    YamlIsKept
    OverviewIsTrue
CHECK_DEADLOCK FALSE
