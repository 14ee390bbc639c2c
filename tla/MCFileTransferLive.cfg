SPECIFICATION FairSpec
CONSTANTS
    a = a
    b = b
    NoConn = NoConn
    Clients = {a, b}
    MsgClients = {}
    MsgLen = 2
    KB = 3
    Word = 100
    IntRange = 20
    Blocks <- OneEach
    SendBuf <- Bufs
    BindAddr <- NoBind
    BindPort <- NoPort
    RecvBuf = 2
    SockBuf = 1
    Backlog = 0
    Faults <- LiveFaults
    MaxFaults = 2
    MaxStarts = 2
PROPERTIES
    ServerReleased
    ClientsEnd
    ReportArrives
