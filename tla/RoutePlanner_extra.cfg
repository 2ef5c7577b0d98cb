SPECIFICATION Spec
CONSTANTS
    a = a
    b = b
    s1 = s1
    s2 = s2
    Domains = {a, b}
    MaxHigh = 1
    MaxLow = 0
    Ports = {80}
    RuleFlows <- MCRuleFlows
    None = None
    Threads = {t1, t2}
    Tables <- MCTables
    Answers <- MCAnswers
    Servers = {s1, s2}
    Targets <- NamesAndAddresses
    Protos <- TcpAlone
    TTL = 2
    MaxClock = 0
    MaxRequests = 1
INVARIANTS
    ExtraMatchesOnlyAddresses
CHECK_DEADLOCK FALSE
