SPECIFICATION ListenerSpec
CONSTANTS
    n1 = n1  h1 = h1  p1 = p1
    Clients = {1, 2, 3}
    NameOf <- MCNameOf
    HostOf <- MCHostOf
    PortOf <- MCPortOf
    Names = {n1}
    Hosts = {h1}
    Ports = {p1}
    Payloads = {d0}
    NoName = NoName
    NoHost = NoHost
    NoPort = NoPort
    NameCuts <- MCNameCuts
    PortCuts <- MCPortCuts
    ZeroPort = p1
    NoData = d0
    CodeWords = {}
    BarTexts = {}
    Free = Free
    Invalid = Invalid
    Slack = 0
    MaxUsers = 0
    Leavers = {}
    MaxListen = 2
    MaxRequests = 0
    Ops = {}
    Backlog = 2
    Threads = {"listener", "sender"}
    MaxFailures = 1
INVARIANTS
    ListenerTypeOK
    NeverEnds
    ArrivedFirstShownFirst
    RefsHeld
PROPERTIES
    ImplementsMailbox
    AnswersShown
CHECK_DEADLOCK FALSE
