SPECIFICATION OnceSpec
CONSTANTS
    Names = {n1, n2, n3}
    Hosts = {h1, h2}
    Ports = {p1, p2}
    Payloads = {d1}
    NoName = NoName
    NoHost = NoHost
    NoPort = NoPort
    Slack = 1
    MaxUsers = 3
INVARIANTS
    OppositeInfoCurrent
CHECK_DEADLOCK FALSE
