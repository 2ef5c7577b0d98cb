SPECIFICATION FairSpec
CONSTANTS
    a = a
    b = b
    s1 = s1
    s2 = s2
    Domains = {a, b}
    MaxHigh = 1
    MaxLow = 0
    Ports = {80}
    RuleFlows <- MCRuleFlows
    None = None
    Threads = {t1, t2}
    Tables <- MCTables
    Answers <- MCAnswers
    Servers = {s1, s2}
    Targets <- NamesAndAddresses
    Protos <- TcpAndUdp
    TTL = 2
    MaxClock = 2
    MaxRequests = 2
INVARIANTS
    TypeOK
    DirectRuleWins
    PlanningAsksInOrder
    AnswersAreFresh
    NoNeedlessQuery
PROPERTIES
    RemotePlansAreJustified
    PlanEnds
CHECK_DEADLOCK FALSE
