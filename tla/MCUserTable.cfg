SPECIFICATION Spec
CONSTANTS
    Names = {n1, n2, n3}
    Hosts = {h1, h2}
    Ports = {p1, p2}
    Payloads = {d1}
    NoName = NoName
    NoHost = NoHost
    NoPort = NoPort
    Slack = 1
    MaxUsers = 4
SYMMETRY Symmetry
INVARIANTS
    TypeOK
    PeerRegistered
    RouteSound
    RelayStaysInPair
    PairedExitSafe
PROPERTIES
    ListGrowsOnly
    ImplementsLedger
CHECK_DEADLOCK FALSE
