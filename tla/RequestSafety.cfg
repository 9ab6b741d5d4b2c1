SPECIFICATION Spec
CONSTANTS
    r1 = r1 proxy = proxy visitor = visitor
    Requests = {r1}
    Hosts = {"wsgi", "asgi", "django"}
    Peer = proxy
    Visitors = {visitor}
    NoIp = NoIp
    Rulesets <- MCRulesets
    Configs <- MCHeaders
    ChallengeOn = TRUE
    MaxServes = 2
    MaxChanges = 2
    MaxBugs = 1
INVARIANTS ReportedOnce SignalIsTold JudgedByConfig RefusedOverCap SolutionIsTaken
CHECK_DEADLOCK FALSE
