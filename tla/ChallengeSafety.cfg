SPECIFICATION Spec
CONSTANTS
    home = home cafe = cafe a = a b = b
    Ips = {home, cafe}
    NoIp = NoIp
    Hosts = {a, b}
    Ahead <- MCAhead
    Day = 3
    Ttl = 2
    ChallengeOn = TRUE
    Nothing = Nothing
    MaxTime = 7
INVARIANTS ThroughMeansSolved SolveSurvivesMidnight NoncesExpire SolverIsLetIn
