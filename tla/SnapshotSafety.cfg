SPECIFICATION Spec
CONSTANTS
    v5 = v5 v4 = v4 bare = bare e5 = e5 e4 = e4 keep = keep slow = slow l1 = l1 l2 = l2 r1 = r1
    NoBody = NoBody NoEtag = NoEtag NoConfig = NoConfig NoThread = NoThread Timer = Timer
    Bodies = {v5, v4, bare}
    VersionOf <- MCVersionOf
    EtagOf <- MCEtagOf
    Generations <- TwinAndNone
    Configs = {keep, slow}
    PollOf <- MCPollOf
    Retries = {0, 2}
    PollFloor = 1
    MinPoll = 1
    DefaultRefresh = 1
    Pinned = FALSE
    Mode = "lazy"
    Requests = {r1}
    Loaders = {l1, l2}
    AgeCap = 2
    MaxPublishes = 3
    MaxMishaps = 1
SYMMETRY Twins
INVARIANTS TypeOK RulesMatchGeneration PollsArePaced
PROPERTIES RulesNeverGoBack WarmsUpWhole FeedsRules
