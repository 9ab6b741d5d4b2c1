SPECIFICATION Spec
CONSTANTS
    home = home cafe = cafe a = a b = b
    Ips = {home, cafe}
    NoIp = NoIp
    Hosts = {a, b}
    Ahead <- MCAhead
    Day = 3
    Ttl = 2
    ChallengeOn = FALSE
    Nothing = Nothing
    MaxTime = 7
INVARIANTS SolverIsLetIn
