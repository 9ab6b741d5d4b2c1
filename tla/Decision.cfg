SPECIFICATION Spec
CONSTANTS
    proxy = proxy edge = edge client = client other = other local = local junk = junk
    Proxies = Proxies Edges = Edges Absent = Absent
    Valid = {proxy, edge, client, other, local}
    Text = {junk}
    Loopback = {local}
    Ranges = {Proxies, Edges}
    In <- MCIn
    Names = {"", ".", "..", "a", "b"}
    MaxAddress = 8
    BlockSize = 2
    IndexSize = 4
    DenseAsns = 4
    MatchLimit = 2
    Budget = 4
    AddressCases <- MCAddressCases
    LookupCases <- MCLookupCases
    PathCases <- MCPathCases
    VerdictCases <- MCVerdictCases
    Refresh = 20
    Floor = 5
    ContainerCases <- MCContainerCases
    CadenceCases <- MCCadenceCases
    QueryCases <- MCQueryCases
INVARIANTS ResolvesLikeTheChain UpstreamIsIgnored LookupsFindWhatIsListed DetoursAreCaught ExemptionNotBorrowed FirstMatchDecides SlowRegexNeverOpens ContainersReadAsWritten CadenceKept EncodingHidesNothing
CHECK_DEADLOCK FALSE
