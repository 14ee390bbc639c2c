SPECIFICATION Spec
CONSTANTS
    a = a
    b = b
    NoConn = NoConn
    Clients = {a, b}
    MsgClients = {a}
    MsgLen = 2
    KB = 3
    Word = 100
    IntRange = 20
    Blocks <- MessagesAndBlocks
    SendBuf <- Bufs
    BindAddr <- OnlyB
    BindPort <- PortOfB
    RecvBuf = 2
    SockBuf = 2
    Backlog = 1
    Faults <- AllFaults
    MaxFaults = 2
    MaxStarts = 2
INVARIANTS
    TypeOK
    EofMeansAll
    ReportIsTruth
    ShortOnlyIfBroken
    EndToEnd
    OneConnectionServed
    InOrder
    ClientHoldsOne
    ExitZeroComplete
    NoDeadlock
PROPERTIES
    OnlyFaultsStopServer
    ImplementsDelivery
