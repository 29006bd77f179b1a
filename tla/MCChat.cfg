SPECIFICATION ChatSpec
CONSTANTS
    c1 = c1  c2 = c2  c3 = c3
    n1 = n1  n2 = n2  n3 = n3
    h1 = h1  h2 = h2  h3 = h3
    p1 = p1  p2 = p2  p3 = p3
    d1 = d1  d2 = d2
    Clients = {c1, c2, c3}
    Scripts <- MCScripts
    Window = 0
    MaxBusy <- MCMaxBusy
    NameOf <- MCNameOf
    HostOf <- MCHostOf
    PortOf <- MCPortOf
    Names = {n1, n2, n3}
    Hosts = {h1, h2, h3}
    Ports = {p0, p1, p2, p3}
    Payloads = {d0, d1, d2}
    NoName = NoName
    NoHost = NoHost
    NoPort = NoPort
    NameCuts <- MCNameCuts
    PortCuts <- MCPortCuts
    ZeroPort = p0
    NoData = d0
    CodeWords = {d2}
    BarTexts = {d2}
    Free = Free
    Invalid = Invalid
    Slack = 0
    MaxUsers = 4
    Leavers = {}
    MaxListen = 3
    MaxRequests = 4
    Ops = {"login", "list", "invite", "data", "exit"}
INVARIANTS
    DataStaysBetweenInvited
    DataInOrder
    HubFallsOnlyToFatal
CHECK_DEADLOCK FALSE
