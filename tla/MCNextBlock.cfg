SPECIFICATION Spec
CONSTANTS
    a = a
    b = b
    NoConn = NoConn
    Clients = {a, b}
    MsgClients = {}
    MsgLen = 2
    KB = 3
    Word = 100
    IntRange = 20
    Blocks <- OneAndTwo
    SendBuf <- Bufs
    BindAddr <- OnlyB
    BindPort <- DistinctPorts
    RecvBuf = 2
    SockBuf = 2
    Backlog = 0
    Faults = {}
    MaxFaults = 0
    MaxStarts = 1
INVARIANT NextBlockBinds
