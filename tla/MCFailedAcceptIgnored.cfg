SPECIFICATION HubSpec
CONSTANTS
    c1 = c1  c2 = c2  c3 = c3
    n1 = n1  n2 = n2  n3 = n3
    h1 = h1  h2 = h2  h3 = h3
    p1 = p1  p2 = p2  p3 = p3
    Clients = {c1, c2, c3}
    NameOf <- MCNameOf
    HostOf <- MCHostOf
    PortOf <- MCPortOf
    Names = {n1, n2, n3}
    Hosts = {h1, h2, h3}
    Ports = {p0, p1, p2, p3}
    Payloads = {d0, d1}
    NoName = NoName
    NoHost = NoHost
    NoPort = NoPort
    NameCuts <- MCNameCuts
    PortCuts <- MCPortCuts
    ZeroPort = p0
    NoData = d0
    CodeWords = {}
    BarTexts = {}
    Free = Free
    Invalid = Invalid
    Slack = 0
    MaxUsers = 3
    Leavers = {c1, c2}
    MaxListen = 2
    MaxRequests = 1
    Ops = {"exit"}
INVARIANTS
    FailedAcceptIgnored
CHECK_DEADLOCK FALSE
