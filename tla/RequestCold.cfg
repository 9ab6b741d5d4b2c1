SPECIFICATION Spec
CONSTANTS
    r1 = r1 proxy = proxy visitor = visitor
    Requests = {r1}
    Hosts = {"wsgi"}
    Peer = proxy
    Visitors = {visitor}
    NoIp = NoIp
    Rulesets <- MCRulesets
    Configs <- MCConfigs
    ChallengeOn = TRUE
    MaxServes = 2
    MaxChanges = 1
    MaxBugs = 1
INVARIANTS EnforcedByConfig
CHECK_DEADLOCK FALSE
