SPECIFICATION Spec
CONSTANTS
    Domains = {d1}
    MaxHigh = 2
    MaxLow = 1
    Ports = {80, 443}
    RuleFlows <- MCRuleFlows
    None = None
    MaxRules = 2
INVARIANTS
    IndexFindsFirst
    FirstDownloadedRuleWins
CHECK_DEADLOCK FALSE
