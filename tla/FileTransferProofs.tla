-------------------------- MODULE FileTransferProofs --------------------------
(***************************************************************************)
(* Theorems about the file-transfer pair, for any number of clients,       *)
(* blocks, bytes, faults and server restarts.                              *)
(***************************************************************************)
EXTENDS TransferRefinement, ChunkPlanProofs

(***************************************************************************)
(* The inductive invariant, in named parts.                                *)
(***************************************************************************)

\* A client that has a socket works on a block of its command line.
OnBlock ==
    \A c \in Clients :
        pc[c] \in {"connect", "sending", "report", "vanished"} => MoreBlocks(c)

\* The client has not opened connection k yet.
Ahead(k) == \/ k[2] > blk[k[1]]
            \/ k[2] = blk[k[1]] /\ pc[k[1]] \in {"idle", "connect"}

\* Nothing has happened on such a connection.
Untouched ==
    \A k \in Conn : Ahead(k) =>
        /\ cli[k] = "none" /\ srv[k] = "none" /\ ~rst[k]
        /\ copied[k] = 0 /\ got[k] = 0
        /\ report[k] = NoReport /\ k \notin cutShort

\* Every transfer starts from zero.
Started ==
    \A c \in Clients :
        pc[c] = "connect" => call[c] = 0 /\ off[c] = 0 /\ sent[c] = 0

\* The bytes the first n calls of transfer k ask for.
PrefixOf(k, n) == IF IsMsg(k) THEN n * MsgLen
                  ELSE Prefix(Size(k), SendBuf[k[1]], n)

\* The account of a sending client: `sent` and the bytes of the call in
\* progress are what the kernel took, and `sent` is on plan until something is
\* cut.
AccountOf(c) ==
    LET k == Current(c) IN
    /\ cli[k] = "open" /\ report[k] = NoReport
    /\ copied[k] = sent[c] + off[c]
    /\ call[c] <= CallsOf(k)
    /\ IF InCall(c) THEN off[c] < NextLen(c) ELSE off[c] = 0
    /\ ~rst[k] /\ k \notin cutShort
          => sent[c] = PrefixOf(k, call[c])

Accounted == \A c \in Clients : pc[c] = "sending" => AccountOf(c)

\* Between close() and the report `sent` is what the kernel took.
Closed ==
    \A c \in Clients : pc[c] = "report" =>
        LET k == Current(c) IN
        cli[k] = "closed" /\ report[k] = NoReport /\ copied[k] = sent[c]

\* The client has made all send() calls of k and closed it.
Finished(k) == Reported(k) \/ (pc[k[1]] = "report" /\ k = Current(k[1]))

\* A finished transfer carried its whole plan, unless it was cut short or
\* reset before the server reached the end of file.
Whole ==
    \A k \in Conn :
        Finished(k) /\ k \notin cutShort /\ (~rst[k] \/ AtEof(k))
            => copied[k] = PlanOf(k)

\* The server is at end of file only behind the client's close and last byte.
EofBehindClose ==
    \A k \in Conn : AtEof(k) => cli[k] = "closed" /\ got[k] = copied[k]

\* client_sock is owned exactly while it is being served.
CurOwned == IF spc \in {"recv", "drop"} THEN cur \in Conn ELSE cur = NoConn

\* The accept queue holds distinct connections nobody has accepted.
QueueFresh ==
    /\ \A i \in 1..Len(queue) : srv[queue[i]] = "queued"
    /\ \A i, j \in 1..Len(queue) : queue[i] = queue[j] => i = j

\* Every block before the current one has been reported.
PastReported == \A k \in Conn : k[2] < blk[k[1]] => Reported(k)

\* The server serves one connection at a time.
OneAtATime == CurOwned /\ OneConnectionServed /\ QueueFresh

\* Every connection nobody has accepted waits in the accept queue, and those of
\* one client in the order of its blocks.
QueueOrder ==
    /\ \A k \in Conn : srv[k] = "queued" => \E i \in 1..Len(queue) : queue[i] = k
    /\ \A i, j \in 1..Len(queue) :
          i < j /\ queue[i][1] = queue[j][1] => queue[i][2] < queue[j][2]

\* A client ends with status 0 only past its last block.
OkDone == \A c \in Clients : pc[c] = "ok" => ~MoreBlocks(c)

IInv ==
    /\ TypeOK /\ OnBlock /\ Untouched /\ Started /\ Accounted /\ Closed
    /\ Whole /\ ReportIsTruth /\ EofBehindClose /\ OneAtATime
    /\ ClientHoldsOne /\ PastReported /\ OkDone /\ QueueOrder /\ InOrder
-----------------------------------------------------------------------------
(***************************************************************************)
(* Facts about connections and plans.                                      *)
(***************************************************************************)

\* A connection is a client and the number of one of its blocks.
LEMMA ConnFacts ==
    /\ \A k \in Conn : /\ k[1] \in Clients
                       /\ k[2] \in 1..Len(Blocks[k[1]])
                       /\ k = <<k[1], k[2]>>
    /\ \A c \in Clients : \A i \in 1..Len(Blocks[c]) : <<c, i>> \in Conn
  BY DEF Conn

\* The block a client works on names a connection of that client.
LEMMA CurrentFacts ==
    ASSUME TypeOK, NEW c \in Clients, MoreBlocks(c)
    PROVE  /\ Current(c) \in Conn
           /\ Current(c)[1] = c /\ Current(c)[2] = blk[c]
           /\ \A k \in Conn : k[1] = c /\ k[2] = blk[c] => k = Current(c)
<1>1. Blocks[c] \in Seq(Nat) /\ blk[c] \in Nat \ {0}
  BY TransferAssumption DEF TypeOK
<1>2. blk[c] \in 1..Len(Blocks[c])
  BY <1>1 DEF MoreBlocks
<1>3. QED
  BY <1>2, ConnFacts DEF Current

\* The plan of a connection is one of the chunk plans of ChunkPlanProofs, or
\* that of a message client; its running total starts at 0 and ends at the plan.
LEMMA PlanFacts ==
    ASSUME NEW k \in Conn
    PROVE  /\ Size(k) \in Nat
           /\ SendBuf[k[1]] \in Nat \ {0}
           /\ CallsOf(k) \in Nat
           /\ PrefixOf(k, 0) = 0
           /\ PrefixOf(k, CallsOf(k)) = PlanOf(k)
<1>1. k[1] \in Clients /\ k[2] \in 1..Len(Blocks[k[1]])
  BY ConnFacts
<1>2. Blocks[k[1]] \in Seq(Nat) /\ SendBuf[k[1]] \in Nat \ {0}
  BY <1>1, TransferAssumption
<1>3. Size(k) \in Nat
  BY <1>1, <1>2 DEF Size
<1>4. CASE IsMsg(k)
  <2>1. 0 * MsgLen = 0
    BY TransferAssumption
  <2>2. QED
    BY <1>2, <1>3, <1>4, <2>1 DEF CallsOf, PrefixOf, PlanOf
<1>5. CASE ~IsMsg(k)
  BY <1>2, <1>3, <1>5, PlanParts, PrefixEnds DEF CallsOf, PrefixOf, PlanOf
<1>6. QED
  BY <1>4, <1>5

\* Every call of a plan asks for at least one byte and takes the running total
\* to its next value.
LEMMA CallFacts ==
    ASSUME NEW k \in Conn, NEW n \in Nat, n < CallsOf(k)
    PROVE  /\ LenOf(k, n) \in Nat \ {0}
           /\ PrefixOf(k, n + 1) = PrefixOf(k, n) + LenOf(k, n)
<1>1. /\ Size(k) \in Nat
      /\ SendBuf[k[1]] \in Nat \ {0}
      /\ CallsOf(k) \in Nat
  BY PlanFacts
<1>2. CASE IsMsg(k)
  <2>1. MsgLen \in Nat \ {0}
    BY TransferAssumption
  <2>2. (n + 1) * MsgLen = n * MsgLen + MsgLen
    BY <2>1
  <2>3. QED
    BY <1>2, <2>1, <2>2 DEF LenOf, PrefixOf
<1>3. CASE ~IsMsg(k)
  <2>1. n \in 0..(Calls(Size(k), SendBuf[k[1]]) - 1)
    BY <1>1, <1>3 DEF CallsOf
  <2>2. CallLen(Size(k), SendBuf[k[1]], n) \in 1..SendBuf[k[1]]
    BY <1>1, <2>1, CallInBuffer
  <2>3. LenOf(k, n) \in Nat \ {0}
    BY <1>1, <1>3, <2>2 DEF LenOf
  <2>4. QED
    BY <1>1, <1>3, <2>1, <2>3, PrefixStep DEF LenOf, PrefixOf
<1>4. QED
  BY <1>2, <1>3

\* The send() call in progress asks for at least one byte.
LEMMA NextLenFacts ==
    ASSUME TypeOK, NEW c \in Clients, MoreBlocks(c),
           call[c] < CallsOf(Current(c))
    PROVE  NextLen(c) \in Nat \ {0}
<1>1. Current(c) \in Conn
  BY CurrentFacts
<1>2. call[c] \in Nat
  BY DEF TypeOK
<1>3. QED
  BY <1>1, <1>2, CallFacts DEF NextLen

\* What a transfer returns is a natural number.
LEMMA ResultType ==
    ASSUME TypeOK, NEW c \in Clients, MoreBlocks(c)
    PROVE  Result(c) \in Nat
<1>1. Current(c) \in Conn
  BY CurrentFacts
<1>2. Size(Current(c)) \in Nat
  BY <1>1, PlanFacts
<1>3. sent[c] \div KB \in Nat
  BY DivMod, WidthAssumption DEF TypeOK
<1>4. QED
  BY <1>2, <1>3 DEF Result
-----------------------------------------------------------------------------
(***************************************************************************)
(* Type correctness.                                                       *)
(***************************************************************************)

\* The steps of everything but the clients.
ServerSide == \/ ServerStart \/ ServerStep \/ ServerFault
              \/ \E k \in Conn : PeerReset(k) \/ NetReset(k)
              \/ Quiet

\* Server, kernel and network leave the clients, the client endpoints and the
\* bytes sent alone.
LEMMA ServerSideFrame ==
    ASSUME ServerSide
    PROVE  UNCHANGED <<clientVars, cli, copied>>
  BY DEF ServerSide, ServerStart, ServerStep, ServerFault, PeerReset, NetReset,
         Quiet, vars, ServerListen, ServerRegist, ServerAccept, ServerRecv,
         ServerEof, ServerDrop, ServerRecvFails, ServerCatch, ServerExit,
         ServerAcceptFails, SigintEarly, SigintCaught, SigintInHandler,
         SigintTerminates, ServerKilled, connVars, clientVars

\* An injected fault stays within the bound on faults.
LEMMA FaultType ==
    ASSUME TypeOK, NEW f, Fault(f)
    PROVE  faults' \in 0..MaxFaults
  BY TransferAssumption DEF TypeOK, Fault

\* A send() that returns a count leaves natural numbers in the locals.
LEMMA ReturnedType ==
    ASSUME TypeOK, NEW c \in Clients, NEW n \in Nat, Returned(c, n)
    PROVE  /\ call' \in [Clients -> Nat]
           /\ off' \in [Clients -> Nat]
           /\ sent' \in [Clients -> Nat]
  BY DEF TypeOK, Returned

\* Every step keeps the types.
LEMMA TypeStep ==
    ASSUME TypeOK, OnBlock, CurOwned, [Next]_vars
    PROVE  TypeOK'
<1> USE DEF serverVars, connVars, clientVars, CliRunning, CliEnded, SrvUp,
            SrvDown
<1>1. ASSUME NEW c \in Clients, OpenSocket(c) PROVE TypeOK'
  BY <1>1 DEF OpenSocket, TypeOK
<1>2. ASSUME NEW c \in Clients, BindFails(c) PROVE TypeOK'
  BY <1>2 DEF BindFails, TypeOK
<1>3. ASSUME NEW c \in Clients, SocketFails(c) PROVE TypeOK'
  BY <1>3, FaultType DEF SocketFails, TypeOK
<1>4. ASSUME NEW c \in Clients, Connect(c) PROVE TypeOK'
  <2>1. Current(c) \in Conn
    BY <1>4, CurrentFacts DEF Connect, OnBlock
  <2>2. Append(queue, Current(c)) \in Seq(Conn)
    BY <2>1 DEF TypeOK
  <2>3. QED
    BY <1>4, <2>1, <2>2 DEF Connect, TypeOK
<1>5. ASSUME NEW c \in Clients, ConnectFails(c) PROVE TypeOK'
  BY <1>5 DEF ConnectFails, TypeOK
<1>6. ASSUME NEW c \in Clients, Send(c) PROVE TypeOK'
  <2>1. Current(c) \in Conn /\ NextLen(c) \in Nat
    BY <1>6, CurrentFacts, NextLenFacts DEF Send, InCall, OnBlock
  <2>2. copied' \in [Conn -> Nat]
    <3>1. copied' = [copied EXCEPT ![Current(c)] = copied[Current(c)] + 1]
      BY <1>6 DEF Send
    <3>2. QED
      BY <2>1, <3>1 DEF TypeOK
  <2>3. /\ call' \in [Clients -> Nat]
        /\ off' \in [Clients -> Nat]
        /\ sent' \in [Clients -> Nat]
    <3>1. CASE Returned(c, NextLen(c))
      BY <2>1, <3>1, ReturnedType
    <3>2. CASE off' = [off EXCEPT ![c] = off[c] + 1] /\ UNCHANGED <<call, sent>>
      BY <3>2 DEF TypeOK
    <3>3. QED
      BY <1>6, <3>1, <3>2 DEF Send
  <2>4. QED
    BY <1>6, <2>2, <2>3 DEF Send, TypeOK
<1>7. ASSUME NEW c \in Clients, SendCutByReset(c) PROVE TypeOK'
  <2>1. off[c] \in Nat
    BY DEF TypeOK
  <2>2. QED
    BY <1>7, <2>1, ReturnedType DEF SendCutByReset, TypeOK
<1>8. ASSUME NEW c \in Clients, SendInterrupted(c) PROVE TypeOK'
  <2>1. Current(c) \in Conn
    BY <1>8, CurrentFacts DEF SendInterrupted, InCall, OnBlock
  <2>2. off[c] \in Nat
    BY DEF TypeOK
  <2>3. QED
    BY <1>8, <2>1, <2>2, ReturnedType, FaultType DEF SendInterrupted, TypeOK
<1>9. ASSUME NEW c \in Clients, SendFails(c) PROVE TypeOK'
  BY <1>9 DEF SendFails, TypeOK
<1>10. ASSUME NEW c \in Clients, CloseSocket(c) PROVE TypeOK'
  BY <1>10 DEF CloseSocket, TypeOK
<1>11. ASSUME NEW c \in Clients, Report(c) PROVE TypeOK'
  <2>1. Result(c) \in Nat
    BY <1>11, ResultType DEF Report, OnBlock
  <2>2. report' \in [Conn -> Nat \cup {NoReport}]
    <3>1. report' = [report EXCEPT ![Current(c)] = Result(c)]
      BY <1>11 DEF Report
    <3>2. QED
      BY <2>1, <3>1 DEF TypeOK
  <2>3. blk' \in [Clients -> Nat \ {0}] /\ pc' \in [Clients -> CliRunning \cup CliEnded]
    BY <1>11 DEF Report, TypeOK
  <2>4. QED
    BY <1>11, <2>2, <2>3 DEF Report, TypeOK
<1>12. ASSUME NEW c \in Clients, ExitOk(c) PROVE TypeOK'
  BY <1>12 DEF ExitOk, TypeOK
<1>13. ASSUME NEW c \in Clients, ClientKilled(c) PROVE TypeOK'
  BY <1>13, FaultType DEF ClientKilled, TypeOK
<1>14. ASSUME NEW c \in Clients, ClientVanishes(c) PROVE TypeOK'
  BY <1>14, FaultType DEF ClientVanishes, TypeOK
<1>15. ASSUME ServerStart PROVE TypeOK'
  <2>1. starts' \in 0..MaxStarts
    BY <1>15, TransferAssumption DEF ServerStart, TypeOK
  <2>2. faults' \in 0..MaxFaults
    BY <1>15, FaultType DEF ServerStart, TypeOK
  <2>3. QED
    BY <1>15, <2>1, <2>2 DEF ServerStart, TypeOK
<1>16. ASSUME ServerListen PROVE TypeOK'
  BY <1>16, FaultType DEF ServerListen, TypeOK
<1>17. ASSUME ServerRegist PROVE TypeOK'
  BY <1>17 DEF ServerRegist, TypeOK
<1>18. ASSUME ServerAccept PROVE TypeOK'
  BY <1>18 DEF ServerAccept, TypeOK
<1>19. ASSUME ServerAcceptFails PROVE TypeOK'
  BY <1>19, FaultType DEF ServerAcceptFails, TypeOK
<1>20. ASSUME ServerRecv PROVE TypeOK'
  <2>1. cur \in Conn
    BY <1>20 DEF ServerRecv, CurOwned
  <2>2. PICK n \in 1..Min2(RecvBuf, copied[cur] - got[cur]) :
              got' = [got EXCEPT ![cur] = @ + n]
    BY <1>20 DEF ServerRecv
  <2>3. n \in Nat
    BY <2>1, TransferAssumption DEF Min2, TypeOK
  <2>4. got' \in [Conn -> Nat]
    BY <2>1, <2>2, <2>3 DEF TypeOK
  <2>5. QED
    BY <1>20, <2>4 DEF ServerRecv, TypeOK
<1>21. ASSUME ServerEof PROVE TypeOK'
  BY <1>21 DEF ServerEof, TypeOK
<1>22. ASSUME ServerDrop PROVE TypeOK'
  BY <1>22 DEF ServerDrop, TypeOK, ReleaseCur
<1>23. ASSUME ServerRecvFails PROVE TypeOK'
  BY <1>23 DEF ServerRecvFails, TypeOK, ReleaseCur
<1>24. ASSUME ServerCatch PROVE TypeOK'
  BY <1>24 DEF ServerCatch, TypeOK
<1>25. ASSUME ServerExit PROVE TypeOK'
  BY <1>25 DEF ServerExit, TypeOK, ServerDies
<1>26. ASSUME SigintEarly PROVE TypeOK'
  BY <1>26, FaultType DEF SigintEarly, TypeOK, ServerDies
<1>27. ASSUME SigintCaught PROVE TypeOK'
  BY <1>27, FaultType DEF SigintCaught, TypeOK, ReleaseCur
<1>28. ASSUME SigintInHandler PROVE TypeOK'
  BY <1>28, FaultType DEF SigintInHandler, TypeOK, ServerDies
<1>29. ASSUME SigintTerminates PROVE TypeOK'
  BY <1>29, FaultType DEF SigintTerminates, TypeOK, ServerDies
<1>30. ASSUME ServerKilled PROVE TypeOK'
  BY <1>30, FaultType DEF ServerKilled, TypeOK, ServerDies
<1>31. ASSUME NEW k \in Conn, PeerReset(k) PROVE TypeOK'
  BY <1>31 DEF PeerReset, TypeOK
<1>32. ASSUME NEW k \in Conn, NetReset(k) PROVE TypeOK'
  BY <1>32, FaultType DEF NetReset, TypeOK
<1>33. CASE UNCHANGED vars
  BY <1>33 DEF vars, TypeOK
<1>34. QED
  BY <1>1, <1>2, <1>3, <1>4, <1>5, <1>6, <1>7, <1>8, <1>9, <1>10, <1>11,
     <1>12, <1>13, <1>14, <1>15, <1>16, <1>17, <1>18, <1>19, <1>20, <1>21,
     <1>22, <1>23, <1>24, <1>25, <1>26, <1>27, <1>28, <1>29, <1>30, <1>31,
     <1>32, <1>33 DEF Next, ClientStep, ClientFault, ServerStep, ServerFault,
     Quiet
-----------------------------------------------------------------------------
(***************************************************************************)
(* What the clients' steps do, and what they leave alone.                  *)
(***************************************************************************)
ClientSide(c) == ClientStep(c) \/ ClientFault(c)

LEMMA NextSplit ==
    ASSUME [Next]_vars
    PROVE  \/ \E c \in Clients : ClientSide(c)
           \/ ServerSide
           \/ UNCHANGED vars
  BY DEF Next, ClientSide, ServerSide

\* How a client can have come to the place where its step leaves it.
LEMMA Control ==
    ASSUME TypeOK, NEW c \in Clients, ClientSide(c)
    PROVE  /\ pc'[c] = "idle" => Report(c)
           /\ pc'[c] = "connect" => OpenSocket(c)
           /\ pc'[c] = "sending" => \/ Connect(c) \/ Send(c)
                                    \/ SendCutByReset(c) \/ SendInterrupted(c)
           /\ pc'[c] = "report" => CloseSocket(c)
           /\ pc'[c] = "ok" => ExitOk(c)
           /\ pc'[c] = "vanished" => ClientVanishes(c)
           /\ ~Report(c) => UNCHANGED <<blk, report>>
<1>1. pc \in [Clients -> CliRunning \cup CliEnded]
  BY DEF TypeOK
<1>2. QED
  BY <1>1 DEF ClientSide, ClientStep, ClientFault, OpenSocket, BindFails,
              SocketFails, Connect, ConnectFails, Send, SendCutByReset,
              SendInterrupted, SendFails, CloseSocket, Report, ExitOk,
              ClientKilled, ClientVanishes, InCall, connVars

\* A client's step leaves the other clients, every connection but its current
\* one, and what the server has done alone.
LEMMA ClientFrame ==
    ASSUME TypeOK, NEW c \in Clients, ClientSide(c)
    PROVE  /\ UNCHANGED <<spc, cur, starts, got, rst>>
           /\ \A d \in Clients \ {c} :
                 /\ pc'[d] = pc[d] /\ blk'[d] = blk[d] /\ call'[d] = call[d]
                 /\ off'[d] = off[d] /\ sent'[d] = sent[d]
           /\ \A k \in Conn \ {Current(c)} :
                 /\ cli'[k] = cli[k] /\ srv'[k] = srv[k]
                 /\ copied'[k] = copied[k] /\ report'[k] = report[k]
           /\ cutShort \subseteq cutShort'
           /\ cutShort' \subseteq cutShort \cup {Current(c)}
<1> USE DEF TypeOK, serverVars, connVars, clientVars
<1>1. CASE OpenSocket(c) \/ BindFails(c) \/ SocketFails(c) \/ ConnectFails(c)
  BY <1>1 DEF OpenSocket, BindFails, SocketFails, ConnectFails
<1>2. CASE Connect(c)
  BY <1>2 DEF Connect
<1>3. CASE Send(c)
  BY <1>3 DEF Send, Returned
<1>4. CASE SendCutByReset(c) \/ SendInterrupted(c)
  BY <1>4 DEF SendCutByReset, SendInterrupted, Returned
<1>5. CASE SendFails(c) \/ CloseSocket(c)
  BY <1>5 DEF SendFails, CloseSocket
<1>6. CASE Report(c) \/ ExitOk(c)
  BY <1>6 DEF Report, ExitOk
<1>7. CASE ClientKilled(c) \/ ClientVanishes(c)
  BY <1>7 DEF ClientKilled, ClientVanishes
<1>8. QED
  BY <1>1, <1>2, <1>3, <1>4, <1>5, <1>6, <1>7
     DEF ClientSide, ClientStep, ClientFault

\* A client keeps to its command line.
LEMMA OnBlockStep ==
    ASSUME TypeOK, OnBlock, [Next]_vars
    PROVE  OnBlock'
<1>1. ASSUME NEW c \in Clients, ClientSide(c) PROVE OnBlock'
  <2>1. ASSUME pc'[c] \in {"connect", "sending", "report", "vanished"}
        PROVE  MoreBlocks(c)'
    <3>1. MoreBlocks(c)
      BY <1>1, <2>1, Control DEF OnBlock, OpenSocket, Connect, Send,
         SendCutByReset, SendInterrupted, InCall, CloseSocket, ClientVanishes
    <3>2. blk' = blk
      BY <1>1, <2>1, Control DEF OpenSocket, Connect, Send, SendCutByReset,
         SendInterrupted, CloseSocket, ClientVanishes
    <3>3. QED
      BY <3>1, <3>2 DEF MoreBlocks
  <2>2. QED
    BY <1>1, <2>1, ClientFrame DEF OnBlock, MoreBlocks
<1>2. CASE ServerSide
  BY <1>2, ServerSideFrame DEF OnBlock, MoreBlocks, clientVars
<1>3. CASE UNCHANGED vars
  BY <1>3 DEF OnBlock, MoreBlocks, vars, clientVars
<1>4. QED
  BY <1>1, <1>2, <1>3, NextSplit
-----------------------------------------------------------------------------
(***************************************************************************)
(* The server: one connection at a time.                                   *)
(***************************************************************************)
\* The end of a server process leaves no open and no queued endpoint.
LEMMA DeathReleases ==
    ASSUME TypeOK, NEW how \in SrvDown, ServerDies(how)
    PROVE  OneAtATime'
<1>1. how \notin {"recv", "drop"}
  BY DEF SrvDown
<1>2. \A k \in Conn : srv'[k] # "open"
  BY DEF ServerDies
<1>3. QED
  BY <1>1, <1>2 DEF ServerDies, OneAtATime, CurOwned, OneConnectionServed,
                    QueueFresh

\* Every step keeps to one connection at a time.
LEMMA OneAtATimeStep ==
    ASSUME TypeOK, OnBlock, Untouched, OneAtATime, [Next]_vars
    PROVE  OneAtATime'
<1> USE DEF OneAtATime, CurOwned, OneConnectionServed, QueueFresh,
            serverVars, connVars
<1>1. ASSUME NEW c \in Clients, Connect(c) PROVE OneAtATime'
  <2> DEFINE k == Current(c)
  <2>1. k \in Conn /\ Ahead(k)
    BY <1>1, CurrentFacts DEF Connect, OnBlock, Ahead
  <2>2. srv[k] = "none"
    BY <2>1 DEF Untouched
  <2>3. /\ srv' = [srv EXCEPT ![k] = "queued"]
        /\ queue' = Append(queue, k)
        /\ UNCHANGED <<spc, cur>>
    BY <1>1 DEF Connect
  <2>4. /\ Len(queue') = Len(queue) + 1
        /\ queue'[Len(queue) + 1] = k
        /\ \A i \in 1..Len(queue) : queue'[i] = queue[i]
    BY <2>1, <2>3 DEF TypeOK
  <2>5. \A i \in 1..Len(queue) : queue[i] \in Conn /\ queue[i] # k
    BY <2>2 DEF TypeOK
  <2>6. QueueFresh'
    <3>1. ASSUME NEW i \in 1..Len(queue') PROVE srv'[queue'[i]] = "queued"
      BY <2>1, <2>3, <2>4, <2>5 DEF TypeOK
    <3>2. ASSUME NEW i \in 1..Len(queue'), NEW j \in 1..Len(queue'),
                 queue'[i] = queue'[j]
          PROVE  i = j
      <4>1. Len(queue) \in Nat /\ Len(queue') = Len(queue) + 1
        BY <2>4 DEF TypeOK
      <4>2. CASE i \in 1..Len(queue) /\ j \in 1..Len(queue)
        BY <2>4, <3>2, <4>2
      <4>3. CASE ~(i \in 1..Len(queue) /\ j \in 1..Len(queue))
        <5>1. i = Len(queue) + 1 \/ j = Len(queue) + 1
          BY <4>1, <4>3
        <5>2. QED
          BY <2>4, <2>5, <3>2, <4>1, <5>1
      <4>4. QED
        BY <4>2, <4>3
    <3>3. QED
      BY <3>1, <3>2
  <2>7. OneConnectionServed'
    BY <2>1, <2>2, <2>3 DEF TypeOK
  <2>8. QED
    BY <2>3, <2>6, <2>7
<1>2. ASSUME NEW c \in Clients, ClientSide(c), ~Connect(c) PROVE OneAtATime'
  <2>1. UNCHANGED <<spc, cur, srv, queue>>
    BY <1>2 DEF ClientSide, ClientStep, ClientFault, OpenSocket, BindFails,
       SocketFails, ConnectFails, Send, SendCutByReset, SendInterrupted,
       SendFails, CloseSocket, Report, ExitOk, ClientKilled, ClientVanishes
  <2>2. QED
    BY <2>1
<1>3. CASE ServerStart
  BY <1>3 DEF ServerStart, SrvDown
<1>4. CASE ServerListen
  BY <1>4 DEF ServerListen
<1>5. CASE ServerRegist
  BY <1>5 DEF ServerRegist
<1>6. CASE ServerAccept
  <2> DEFINE k == Head(queue)
  <2>1. /\ Len(queue) \in Nat \ {0} /\ k = queue[1] /\ k \in Conn
        /\ Len(queue') = Len(queue) - 1
        /\ \A i \in 1..Len(queue') : queue'[i] = queue[i + 1]
    BY <1>6 DEF ServerAccept, TypeOK
  <2>2. /\ srv' = [srv EXCEPT ![k] = "open"]
        /\ spc' = "recv" /\ cur' = k /\ spc = "accept"
    BY <1>6 DEF ServerAccept
  <2>3. \A i \in 1..Len(queue') : queue'[i] # k
    BY <2>1
  <2>4. QueueFresh'
    <3>1. \A i \in 1..Len(queue') :
             i + 1 \in 1..Len(queue) /\ queue'[i] = queue[i + 1]
      BY <2>1
    <3>2. ASSUME NEW i \in 1..Len(queue') PROVE srv'[queue'[i]] = "queued"
      <4>1. queue'[i] = queue[i + 1] /\ srv[queue[i + 1]] = "queued"
        BY <3>1
      <4>2. queue[i + 1] \in Conn
        BY <3>1 DEF TypeOK
      <4>3. queue'[i] # k
        BY <2>3
      <4>4. QED
        BY <2>2, <4>1, <4>2, <4>3 DEF TypeOK
    <3>3. ASSUME NEW i \in 1..Len(queue'), NEW j \in 1..Len(queue'),
                 queue'[i] = queue'[j]
          PROVE  i = j
      BY <3>1, <3>3
    <3>4. QED
      BY <3>2, <3>3
  <2>5. OneConnectionServed'
    BY <2>1, <2>2 DEF TypeOK
  <2>6. QED
    BY <2>1, <2>2, <2>4, <2>5
<1>7. CASE ServerAcceptFails
  BY <1>7 DEF ServerAcceptFails
<1>8. CASE ServerRecv
  BY <1>8 DEF ServerRecv
<1>9. CASE ServerEof
  BY <1>9 DEF ServerEof
<1>10. CASE ServerDrop
  <2>1. \A i \in 1..Len(queue) : queue[i] \in Conn /\ queue[i] # cur
    BY <1>10 DEF ServerDrop, TypeOK
  <2>2. QED
    BY <1>10, <2>1 DEF ServerDrop, ReleaseCur, TypeOK
<1>11. CASE ServerRecvFails
  <2>1. \A i \in 1..Len(queue) : queue[i] \in Conn /\ queue[i] # cur
    BY <1>11 DEF ServerRecvFails, TypeOK
  <2>2. QED
    BY <1>11, <2>1 DEF ServerRecvFails, ReleaseCur, TypeOK
<1>12. CASE ServerCatch
  BY <1>12 DEF ServerCatch
<1>13. CASE ServerExit
  BY <1>13, DeathReleases DEF ServerExit, SrvDown
<1>14. CASE SigintEarly
  BY <1>14, DeathReleases DEF SigintEarly, SrvDown
<1>15. CASE SigintCaught
  <2>1. \A i \in 1..Len(queue) : queue[i] \in Conn /\ queue[i] # cur
    BY <1>15, TransferAssumption DEF SigintCaught, TypeOK
  <2>2. QED
    BY <1>15, <2>1 DEF SigintCaught, ReleaseCur, TypeOK
<1>16. CASE SigintInHandler
  BY <1>16, DeathReleases DEF SigintInHandler, SrvDown
<1>17. CASE SigintTerminates
  BY <1>17, DeathReleases DEF SigintTerminates, SrvDown
<1>18. CASE ServerKilled
  BY <1>18, DeathReleases DEF ServerKilled, SrvDown
<1>19. ASSUME NEW k \in Conn, PeerReset(k) PROVE OneAtATime'
  BY <1>19 DEF PeerReset
<1>20. ASSUME NEW k \in Conn, NetReset(k) PROVE OneAtATime'
  BY <1>20 DEF NetReset
<1>21. CASE UNCHANGED vars
  BY <1>21 DEF vars
<1>22. QED
  BY <1>1, <1>2, <1>3, <1>4, <1>5, <1>6, <1>7, <1>8, <1>9, <1>10, <1>11,
     <1>12, <1>13, <1>14, <1>15, <1>16, <1>17, <1>18, <1>19, <1>20, <1>21,
     NextSplit DEF ServerSide, ServerStep, ServerFault, Quiet
-----------------------------------------------------------------------------
(***************************************************************************)
(* The accept queue and the order of connections.                          *)
(***************************************************************************)
\* The server lets go of connections, the queue stays.
LetsGo == /\ queue' = queue
          /\ \A k \in Conn : srv'[k] = srv[k] \/ srv'[k] \in {"eof", "err", "cut"}
          /\ \A k \in Conn : srv[k] = "queued" => srv'[k] = "queued"
          /\ \A k \in Conn : srv[k] = "none" => srv'[k] = "none"

\* The server process ends and takes the queue with it.
LosesAll == /\ queue' = <<>>
            /\ \A k \in Conn : srv'[k] \notin {"queued", "open"}

\* The steps that put connections into the queue or take them out.
LEMMA QueueEffect ==
    ASSUME TypeOK, OneAtATime, [Next]_vars
    PROVE  \/ \E c \in Clients : Connect(c)
           \/ ServerAccept
           \/ LetsGo
           \/ LosesAll
<1> USE DEF serverVars, connVars
<1>1. ASSUME NEW c \in Clients, ClientSide(c), ~Connect(c) PROVE LetsGo
  BY <1>1 DEF ClientSide, ClientStep, ClientFault, OpenSocket, BindFails,
     SocketFails, ConnectFails, Send, SendCutByReset, SendInterrupted,
     SendFails, CloseSocket, Report, ExitOk, ClientKilled, ClientVanishes,
     LetsGo
<1>2. CASE \/ ServerStart \/ ServerListen \/ ServerRegist \/ ServerAcceptFails
           \/ ServerRecv \/ ServerEof \/ ServerCatch
  BY <1>2 DEF ServerStart, ServerListen, ServerRegist, ServerAcceptFails,
     ServerRecv, ServerEof, ServerCatch, LetsGo
<1>3. CASE ServerDrop \/ ServerRecvFails \/ SigintCaught
  <2>1. /\ queue' = queue
        /\ \/ srv' = srv
           \/ /\ spc \in {"recv", "drop"}
              /\ \E how \in {"eof", "err", "cut"} : srv' = [srv EXCEPT ![cur] = how]
    BY <1>3 DEF ServerDrop, ServerRecvFails, SigintCaught, ReleaseCur
  <2>2. CASE srv' = srv
    BY <2>1, <2>2 DEF LetsGo
  <2>3. CASE srv' # srv
    <3>1. cur \in Conn /\ srv[cur] = "open"
      BY <2>1, <2>3 DEF OneAtATime, CurOwned, OneConnectionServed
    <3>2. QED
      BY <2>1, <2>3, <3>1 DEF LetsGo, TypeOK
  <2>4. QED
    BY <2>2, <2>3
<1>4. CASE \/ ServerExit \/ SigintEarly \/ SigintInHandler \/ SigintTerminates
           \/ ServerKilled
  BY <1>4 DEF ServerExit, SigintEarly, SigintInHandler, SigintTerminates,
     ServerKilled, ServerDies, LosesAll
<1>5. CASE \/ \E k \in Conn : PeerReset(k) \/ NetReset(k)
           \/ UNCHANGED vars
  BY <1>5 DEF PeerReset, NetReset, vars, LetsGo
<1>6. QED
  BY <1>1, <1>2, <1>3, <1>4, <1>5, NextSplit DEF ServerSide, ServerStep,
     ServerFault, Quiet

\* The queue keeps its order, and blocks of one client are served in order.
LEMMA OrderStep ==
    ASSUME TypeOK, OnBlock, Untouched, OneAtATime, QueueOrder, InOrder,
           [Next]_vars
    PROVE  QueueOrder' /\ InOrder'
<1>1. ASSUME NEW c \in Clients, Connect(c) PROVE QueueOrder' /\ InOrder'
  <2> DEFINE m == Current(c)
  <2>1. m \in Conn /\ m[1] = c /\ m[2] = blk[c] /\ MoreBlocks(c)
    BY <1>1, CurrentFacts DEF Connect, OnBlock
  <2>2. \A k \in Conn : k[1] = c /\ srv[k] # "none" => k[2] < m[2]
    <3>1. SUFFICES ASSUME NEW k \in Conn, k[1] = c, srv[k] # "none"
                   PROVE  k[2] < m[2]
      OBVIOUS
    <3>2. k[2] \in Nat /\ blk[c] \in Nat /\ pc[c] = "connect"
      BY <1>1, ConnFacts DEF TypeOK, Connect
    <3>3. ~Ahead(k)
      BY <3>1 DEF Untouched
    <3>4. QED
      BY <2>1, <3>1, <3>2, <3>3 DEF Ahead
  <2>3. srv' = [srv EXCEPT ![m] = "queued"] /\ queue' = Append(queue, m)
    BY <1>1 DEF Connect
  <2>4. /\ Len(queue') = Len(queue) + 1 /\ Len(queue) \in Nat
        /\ queue'[Len(queue) + 1] = m
        /\ \A i \in 1..Len(queue) : queue'[i] = queue[i] /\ queue[i] \in Conn
    BY <2>1, <2>3 DEF TypeOK
  <2>5. \A i \in 1..Len(queue) : queue[i][1] = c => queue[i][2] < m[2]
    BY <2>2, <2>4 DEF OneAtATime, QueueFresh
  <2>6. ASSUME NEW k \in Conn, srv'[k] = "queued"
        PROVE  \E i \in 1..Len(queue') : queue'[i] = k
    <3>1. CASE k = m
      <4>1. Len(queue) + 1 \in 1..Len(queue')
        BY <2>4
      <4>2. QED
        BY <2>4, <3>1, <4>1
    <3>2. CASE k # m
      <4>1. PICK i \in 1..Len(queue) : queue[i] = k
        BY <2>1, <2>3, <2>6, <3>2 DEF QueueOrder, TypeOK
      <4>2. i \in 1..Len(queue')
        BY <2>4
      <4>3. QED
        BY <2>4, <4>1, <4>2
    <3>3. QED
      BY <3>1, <3>2
  <2>7. ASSUME NEW i \in 1..Len(queue'), NEW j \in 1..Len(queue'), i < j,
               queue'[i][1] = queue'[j][1]
        PROVE  queue'[i][2] < queue'[j][2]
    <3>1. i \in 1..Len(queue)
      BY <2>4, <2>7
    <3>2. CASE j \in 1..Len(queue)
      BY <2>4, <2>7, <3>1, <3>2 DEF QueueOrder
    <3>3. CASE j = Len(queue) + 1
      BY <2>1, <2>4, <2>5, <2>7, <3>1, <3>3
    <3>4. QED
      BY <2>4, <3>2, <3>3
  <2>8. InOrder'
    <3>1. SUFFICES ASSUME NEW k \in Conn, NEW n \in Conn, k[1] = n[1],
                          k[2] < n[2], srv'[n] \notin {"none", "queued"}
                   PROVE  srv'[k] \notin {"queued", "open"}
      BY DEF InOrder
    <3>2. n # m /\ srv'[n] = srv[n]
      BY <2>1, <2>3, <3>1 DEF TypeOK
    <3>3. k # m
      <4>1. SUFFICES ASSUME k = m PROVE FALSE
        OBVIOUS
      <4>2. n[2] < m[2] /\ m[2] < n[2] /\ n[2] \in Nat /\ m[2] \in Nat
        BY <2>1, <2>2, <3>1, <3>2, <4>1, ConnFacts
      <4>3. QED
        BY <4>2
    <3>4. QED
      BY <2>1, <2>3, <3>1, <3>2, <3>3 DEF InOrder, TypeOK
  <2>9. QED
    BY <2>6, <2>7, <2>8 DEF QueueOrder
<1>2. CASE ServerAccept
  <2> DEFINE m == Head(queue)
  <2>1. /\ Len(queue) \in Nat \ {0} /\ m = queue[1] /\ m \in Conn
        /\ Len(queue') = Len(queue) - 1
        /\ \A i \in 1..Len(queue') : queue'[i] = queue[i + 1]
    BY <1>2 DEF ServerAccept, TypeOK
  <2>2. srv' = [srv EXCEPT ![m] = "open"] /\ spc = "accept"
    BY <1>2 DEF ServerAccept
  <2>3. srv[m] = "queued" /\ \A k \in Conn : srv[k] # "open"
    BY <2>1, <2>2 DEF OneAtATime, OneConnectionServed, QueueFresh
  <2>4. ASSUME NEW k \in Conn, k # m, srv[k] = "queued"
        PROVE  \E i \in 1..Len(queue) : queue[i] = k /\ i # 1
    BY <2>1, <2>4 DEF QueueOrder
  <2>5. ASSUME NEW k \in Conn, srv'[k] = "queued"
        PROVE  \E i \in 1..Len(queue') : queue'[i] = k
    <3>1. k # m /\ srv[k] = "queued"
      BY <2>1, <2>2, <2>5 DEF TypeOK
    <3>2. PICK i \in 1..Len(queue) : queue[i] = k /\ i # 1
      BY <2>4, <3>1
    <3>3. i - 1 \in 1..Len(queue') /\ (i - 1) + 1 = i
      BY <2>1, <3>2
    <3>4. QED
      BY <2>1, <3>2, <3>3
  <2>6. ASSUME NEW i \in 1..Len(queue'), NEW j \in 1..Len(queue'), i < j,
               queue'[i][1] = queue'[j][1]
        PROVE  queue'[i][2] < queue'[j][2]
    <3>1. i + 1 \in 1..Len(queue) /\ j + 1 \in 1..Len(queue) /\ i + 1 < j + 1
      BY <2>1, <2>6
    <3>2. queue'[i] = queue[i + 1] /\ queue'[j] = queue[j + 1]
      BY <2>1
    <3>3. QED
      BY <2>6, <3>1, <3>2 DEF QueueOrder
  <2>7. InOrder'
    <3>1. SUFFICES ASSUME NEW k \in Conn, NEW n \in Conn, k[1] = n[1],
                          k[2] < n[2], srv'[n] \notin {"none", "queued"}
                   PROVE  srv'[k] \notin {"queued", "open"}
      BY DEF InOrder
    <3>2. k # n
      BY <3>1, ConnFacts
    <3>3. CASE n = m
      <4>1. srv[k] # "queued"
        <5>1. SUFFICES ASSUME srv[k] = "queued" PROVE FALSE
          OBVIOUS
        <5>2. PICK i \in 1..Len(queue) : queue[i] = k /\ i # 1
          BY <2>4, <3>2, <3>3, <5>1
        <5>3. 1 \in 1..Len(queue) /\ 1 < i
          BY <2>1, <5>2
        <5>4. m[2] < k[2]
          BY <2>1, <3>1, <3>3, <5>2, <5>3 DEF QueueOrder
        <5>5. k[2] \in Nat /\ n[2] \in Nat
          BY ConnFacts
        <5>6. QED
          BY <3>1, <3>3, <5>4, <5>5
      <4>2. QED
        BY <2>1, <2>2, <2>3, <3>2, <3>3, <4>1 DEF TypeOK
    <3>4. CASE n # m
      <4>1. srv'[n] = srv[n]
        BY <2>1, <2>2, <3>4 DEF TypeOK
      <4>2. srv[k] \notin {"queued", "open"}
        BY <3>1, <4>1 DEF InOrder
      <4>3. QED
        BY <2>1, <2>2, <2>3, <4>2 DEF TypeOK
    <3>5. QED
      BY <3>3, <3>4
  <2>8. QED
    BY <2>5, <2>6, <2>7 DEF QueueOrder
<1>3. CASE LetsGo
  <2>1. ASSUME NEW k \in Conn, srv'[k] \in {"queued", "open"}
        PROVE  srv'[k] = srv[k]
    BY <1>3, <2>1 DEF LetsGo
  <2>2. QueueOrder'
    BY <1>3, <2>1 DEF LetsGo, QueueOrder
  <2>3. InOrder'
    <3>1. SUFFICES ASSUME NEW k \in Conn, NEW n \in Conn, k[1] = n[1],
                          k[2] < n[2], srv'[n] \notin {"none", "queued"}
                   PROVE  srv'[k] \notin {"queued", "open"}
      BY DEF InOrder
    <3>2. srv[n] \notin {"none", "queued"}
      BY <1>3, <3>1 DEF LetsGo
    <3>3. QED
      BY <2>1, <3>1, <3>2 DEF InOrder
  <2>4. QED
    BY <2>2, <2>3
<1>4. CASE LosesAll
  BY <1>4 DEF LosesAll, QueueOrder, InOrder
<1>5. QED
  BY <1>1, <1>2, <1>3, <1>4, QueueEffect
-----------------------------------------------------------------------------
(***************************************************************************)
(* What a step of the server side can do to a connection.                  *)
(***************************************************************************)
ServerKeeps(k) ==
    /\ rst[k] => rst'[k]
    /\ cli[k] = "none" /\ srv[k] = "none"
          => srv'[k] = "none" /\ got'[k] = got[k] /\ rst'[k] = rst[k]
    /\ AtEof(k)' => \/ AtEof(k) /\ got'[k] = got[k]
                    \/ ServerEof /\ k = cur

\* A dying server resets and cuts connections, it ends none as complete.
LEMMA DeathKeeps ==
    ASSUME TypeOK, OneAtATime, NEW how \in SrvDown, ServerDies(how),
           UNCHANGED got, NEW k \in Conn
    PROVE  ServerKeeps(k)
<1>1. how # "drop"
  BY DEF SrvDown
<1>2. /\ rst'[k] = (\/ rst[k]
                    \/ srv[k] = "queued"
                    \/ srv[k] = "open" /\ copied[k] > got[k])
      /\ srv'[k] = IF srv[k] = "open" /\ spc = "drop" THEN "eof"
                   ELSE IF srv[k] \in {"queued", "open"} THEN "cut"
                   ELSE srv[k]
      /\ spc' = how
  BY DEF ServerDies
<1>3. QED
  BY <1>1, <1>2 DEF ServerKeeps, AtEof, OneAtATime, OneConnectionServed, TypeOK

\* A reset is for good, an untouched connection stays so, and only a recv()
\* that returns 0 takes a connection to its end of file.
LEMMA ServerEffect ==
    ASSUME TypeOK, OneAtATime, ServerSide, NEW k \in Conn
    PROVE  ServerKeeps(k)
<1> USE DEF ServerKeeps, AtEof, OneAtATime, CurOwned, OneConnectionServed,
            TypeOK, serverVars, connVars
<1>1. CASE ServerStart
  BY <1>1 DEF ServerStart
<1>2. CASE ServerListen
  BY <1>2 DEF ServerListen
<1>3. CASE ServerRegist
  BY <1>3 DEF ServerRegist
<1>4. CASE ServerAccept
  <2>1. Head(queue) \in Conn /\ srv[Head(queue)] = "queued"
    BY <1>4 DEF ServerAccept, QueueFresh
  <2>2. QED
    BY <1>4, <2>1 DEF ServerAccept
<1>5. CASE ServerAcceptFails
  BY <1>5 DEF ServerAcceptFails
<1>6. CASE ServerRecv
  BY <1>6 DEF ServerRecv
<1>7. CASE ServerEof
  BY <1>7 DEF ServerEof
<1>8. CASE ServerDrop
  BY <1>8 DEF ServerDrop, ReleaseCur
<1>9. CASE ServerRecvFails
  BY <1>9 DEF ServerRecvFails, ReleaseCur
<1>10. CASE ServerCatch
  BY <1>10 DEF ServerCatch
<1>11. CASE ServerExit
  BY <1>11, DeathKeeps DEF ServerExit, SrvDown
<1>12. CASE SigintEarly
  BY <1>12, DeathKeeps DEF SigintEarly, SrvDown
<1>13. CASE SigintCaught
  BY <1>13 DEF SigintCaught, ReleaseCur
<1>14. CASE SigintInHandler
  BY <1>14, DeathKeeps DEF SigintInHandler, SrvDown
<1>15. CASE SigintTerminates
  BY <1>15, DeathKeeps DEF SigintTerminates, SrvDown
<1>16. CASE ServerKilled
  BY <1>16, DeathKeeps DEF ServerKilled, SrvDown
<1>17. ASSUME NEW m \in Conn, PeerReset(m) PROVE ServerKeeps(k)
  BY <1>17 DEF PeerReset
<1>18. ASSUME NEW m \in Conn, NetReset(m) PROVE ServerKeeps(k)
  BY <1>18 DEF NetReset
<1>19. CASE UNCHANGED vars
  BY <1>19 DEF vars
<1>20. QED
  BY <1>1, <1>2, <1>3, <1>4, <1>5, <1>6, <1>7, <1>8, <1>9, <1>10, <1>11,
     <1>12, <1>13, <1>14, <1>15, <1>16, <1>17, <1>18, <1>19 DEF ServerSide,
     ServerStep, ServerFault, Quiet
-----------------------------------------------------------------------------
(***************************************************************************)
(* The clients: bookkeeping of blocks, connections and bytes.              *)
(***************************************************************************)

\* Nothing touches a connection before its turn.
LEMMA UntouchedStep ==
    ASSUME TypeOK, OnBlock, Untouched, OneAtATime, [Next]_vars
    PROVE  Untouched'
<1> SUFFICES ASSUME NEW k \in Conn, Ahead(k)'
             PROVE  /\ Ahead(k)
                    /\ cli'[k] = cli[k] /\ srv'[k] = srv[k]
                    /\ rst'[k] = rst[k] /\ copied'[k] = copied[k]
                    /\ got'[k] = got[k] /\ report'[k] = report[k]
                    /\ k \in cutShort' => k \in cutShort
  BY DEF Untouched
<1>1. ASSUME NEW c \in Clients, ClientSide(c), k[1] # c
      PROVE  Ahead(k)
  BY <1>1, ClientFrame, ConnFacts DEF Ahead
<1>2. ASSUME NEW c \in Clients, ClientSide(c), k[1] = c
      PROVE  /\ Ahead(k)
             /\ k = Current(c) => OpenSocket(c)
  <2>1. k[2] \in Nat /\ blk[c] \in Nat
    <3>1. k[2] \in Nat
      BY ConnFacts
    <3>2. QED
      BY <3>1 DEF TypeOK
  <2>2. CASE Report(c)
    <3>1. blk'[c] = blk[c] + 1
      BY <2>2 DEF Report, TypeOK
    <3>2. k[2] > blk[c]
      BY <1>2, <2>1, <3>1 DEF Ahead
    <3>3. QED
      BY <1>2, <2>1, <3>2 DEF Ahead, Current
  <2>3. CASE ~Report(c)
    <3>1. blk' = blk /\ (pc'[c] \in {"idle", "connect"} => OpenSocket(c))
      BY <1>2, <2>3, Control
    <3>2. CASE k[2] > blk[c]
      BY <1>2, <2>1, <3>2 DEF Ahead, Current
    <3>3. CASE k[2] = blk[c] /\ OpenSocket(c)
      BY <1>2, <3>3 DEF Ahead, OpenSocket
    <3>4. QED
      BY <1>2, <3>1, <3>2, <3>3 DEF Ahead
  <2>4. QED
    BY <2>2, <2>3
<1>3. ASSUME NEW c \in Clients, ClientSide(c)
      PROVE  /\ Ahead(k)
             /\ cli'[k] = cli[k] /\ srv'[k] = srv[k]
             /\ rst'[k] = rst[k] /\ copied'[k] = copied[k]
             /\ got'[k] = got[k] /\ report'[k] = report[k]
             /\ k \in cutShort' => k \in cutShort
  <2>1. Ahead(k)
    BY <1>1, <1>2, <1>3
  <2>2. CASE k = Current(c)
    <3>1. OpenSocket(c)
      BY <1>2, <1>3, <2>2 DEF Current
    <3>2. QED
      BY <2>1, <3>1 DEF OpenSocket, connVars
  <2>3. CASE k # Current(c)
    BY <1>3, <2>1, <2>3, ClientFrame
  <2>4. QED
    BY <2>2, <2>3
<1>4. CASE ServerSide
  <2>1. Ahead(k)
    BY <1>4, ServerSideFrame DEF Ahead, clientVars
  <2>2. ServerKeeps(k)
    BY <1>4, ServerEffect
  <2>3. QED
    BY <1>4, <2>1, <2>2, ServerSideFrame DEF Untouched, ServerKeeps, clientVars
<1>5. CASE UNCHANGED vars
  BY <1>5 DEF vars, connVars, clientVars, Ahead
<1>6. QED
  BY <1>3, <1>4, <1>5, NextSplit

\* transfer() starts with its locals at zero.
LEMMA StartedStep ==
    ASSUME TypeOK, Started, [Next]_vars
    PROVE  Started'
<1>1. ASSUME NEW c \in Clients, ClientSide(c) PROVE Started'
  <2>1. pc'[c] = "connect" => call'[c] = 0 /\ off'[c] = 0 /\ sent'[c] = 0
    BY <1>1, Control DEF OpenSocket, TypeOK
  <2>2. QED
    BY <1>1, <2>1, ClientFrame DEF Started
<1>2. CASE ServerSide
  BY <1>2, ServerSideFrame DEF Started, clientVars
<1>3. CASE UNCHANGED vars
  BY <1>3 DEF Started, vars, clientVars
<1>4. QED
  BY <1>1, <1>2, <1>3, NextSplit

\* A client holds at most the connection of the block it is sending.
LEMMA ClientHoldsOneStep ==
    ASSUME TypeOK, ClientHoldsOne, [Next]_vars
    PROVE  ClientHoldsOne'
<1> SUFFICES ASSUME NEW k \in Conn, cli'[k] = "open"
             PROVE  /\ k = Current(k[1])'
                    /\ pc'[k[1]] \in {"sending", "vanished"}
  BY DEF ClientHoldsOne
<1> DEFINE d == k[1]
<1>1. d \in Clients
  BY ConnFacts
<1>2. ASSUME NEW c \in Clients, ClientSide(c), c # d
      PROVE  k = Current(d)' /\ pc'[d] \in {"sending", "vanished"}
  <2>1. k # Current(c)
    BY <1>2 DEF Current
  <2>2. QED
    BY <1>1, <1>2, <2>1, ClientFrame DEF ClientHoldsOne, Current
<1>3. ASSUME ClientSide(d)
      PROVE  k = Current(d)' /\ pc'[d] \in {"sending", "vanished"}
  <2>1. k = Current(d)
    BY <1>1, <1>3, ClientFrame DEF ClientHoldsOne
  <2>2. pc'[d] \in {"sending", "vanished"} /\ blk' = blk
    <3>1. pc \in [Clients -> CliRunning \cup CliEnded]
      BY DEF TypeOK
    <3>2. CASE cli[k] = "open"
      <4>1. pc[d] \in {"sending", "vanished"}
        BY <3>2 DEF ClientHoldsOne
      <4>2. ~(SendFails(d) \/ CloseSocket(d) \/ ClientKilled(d))
        BY <1>1, <2>1, <4>1 DEF TypeOK, SendFails, CloseSocket, ClientKilled,
           CliRunning
      <4>3. \/ Send(d) \/ SendCutByReset(d) \/ SendInterrupted(d)
            \/ ClientVanishes(d)
        BY <1>3, <4>1, <4>2 DEF ClientSide, ClientStep, ClientFault, OpenSocket,
           BindFails, SocketFails, Connect, ConnectFails, Report, ExitOk
      <4>4. QED
        BY <1>1, <3>1, <4>3 DEF Send, SendCutByReset, SendInterrupted,
           ClientVanishes, InCall
    <3>3. CASE cli[k] # "open"
      <4>1. Connect(d)
        BY <1>1, <1>3, <2>1, <3>3 DEF TypeOK, ClientSide, ClientStep,
           ClientFault, OpenSocket, BindFails, SocketFails, Connect,
           ConnectFails, Send, SendCutByReset, SendInterrupted, SendFails,
           CloseSocket, Report, ExitOk, ClientKilled, ClientVanishes, connVars
      <4>2. QED
        BY <1>1, <3>1, <4>1 DEF Connect
    <3>4. QED
      BY <3>2, <3>3
  <2>3. QED
    BY <2>1, <2>2 DEF Current
<1>4. CASE ServerSide
  BY <1>4, ServerSideFrame DEF ClientHoldsOne, Current, clientVars
<1>5. CASE UNCHANGED vars
  BY <1>5 DEF ClientHoldsOne, Current, vars, connVars, clientVars
<1>6. QED
  BY <1>2, <1>3, <1>4, <1>5, NextSplit

\* A client moves past a block only by reporting it.
LEMMA PastReportedStep ==
    ASSUME TypeOK, OnBlock, PastReported, [Next]_vars
    PROVE  PastReported'
<1> SUFFICES ASSUME NEW k \in Conn, k[2] < blk'[k[1]]
             PROVE  Reported(k)'
  BY DEF PastReported
<1> DEFINE d == k[1]
<1>1. d \in Clients /\ k[2] \in Nat
  BY ConnFacts
<1>2. ASSUME NEW c \in Clients, ClientSide(c), ~Report(c)
      PROVE  Reported(k)'
  BY <1>2, Control DEF PastReported, Reported
<1>3. ASSUME NEW c \in Clients, Report(c)
      PROVE  Reported(k)'
  <2>1. Result(c) \in Nat
    BY <1>3, ResultType DEF Report, OnBlock
  <2>2. CASE k = Current(c)
    BY <1>3, <2>1, <2>2 DEF Report, Reported, NoReport, TypeOK
  <2>3. CASE k # Current(c)
    <3>1. k[2] < blk[d]
      <4>1. c = d => k[2] # blk[d]
        BY <2>3, ConnFacts DEF Current
      <4>2. blk' = [blk EXCEPT ![c] = blk[c] + 1]
        BY <1>3 DEF Report
      <4>3. QED
        <5>1. blk[d] \in Nat /\ blk'[d] = IF c = d THEN blk[d] + 1 ELSE blk[d]
          BY <1>1, <4>2 DEF TypeOK
        <5>2. k[2] < blk'[d]
          OBVIOUS
        <5>3. QED
          BY <1>1, <4>1, <5>1, <5>2
    <3>2. QED
      BY <1>3, <2>3, <3>1 DEF Report, PastReported, Reported
  <2>4. QED
    BY <2>2, <2>3
<1>4. CASE ServerSide
  BY <1>4, ServerSideFrame DEF PastReported, Reported, clientVars
<1>5. CASE UNCHANGED vars
  BY <1>5 DEF PastReported, Reported, vars, clientVars
<1>6. QED
  BY <1>2, <1>3, <1>4, <1>5, NextSplit
-----------------------------------------------------------------------------
(***************************************************************************)
(* The accounts of a transfer.                                             *)
(***************************************************************************)

\* A call that returns n bytes, the byte count being right, leaves the account
\* in order, provided it returned what the plan asked for or was cut short.
LEMMA ReturnKeepsAccount ==
    ASSUME TypeOK, NEW c \in Clients, MoreBlocks(c), InCall(c), AccountOf(c),
           NEW n \in Nat, Returned(c, n),
           UNCHANGED <<cli, report, rst, blk, pc>>,
           copied'[Current(c)] = sent[c] + n,
           cutShort \subseteq cutShort',
           n = NextLen(c) \/ rst[Current(c)] \/ Current(c) \in cutShort'
    PROVE  AccountOf(c)'
<1> DEFINE k == Current(c)
<1>1. k \in Conn /\ k' = k
  BY CurrentFacts DEF Current
<1>2. CallsOf(k) \in Nat
  BY <1>1, PlanFacts
<1>3. call[c] \in Nat /\ sent[c] \in Nat /\ call[c] < CallsOf(k)
  BY DEF TypeOK, InCall
<1>4. /\ call'[c] = call[c] + 1 /\ off'[c] = 0 /\ sent'[c] = sent[c] + n
  BY DEF Returned, TypeOK
<1>5. call'[c] <= CallsOf(k)
  BY <1>2, <1>3, <1>4
<1>6. copied'[k] = sent'[c] + off'[c]
  BY <1>3, <1>4
<1>7. InCall(c)' => 0 < NextLen(c)'
  <2>1. SUFFICES ASSUME InCall(c)' PROVE 0 < NextLen(c)'
    OBVIOUS
  <2>2. call'[c] \in Nat /\ call'[c] < CallsOf(k)
    BY <1>1, <1>3, <1>4, <2>1 DEF InCall
  <2>3. LenOf(k, call'[c]) \in Nat \ {0}
    BY <1>1, <2>2, CallFacts
  <2>4. QED
    BY <1>1, <2>3 DEF NextLen
<1>8. ASSUME ~rst'[k], k \notin cutShort'
      PROVE  sent'[c] = PrefixOf(k, call'[c])
  <2>1. sent[c] = PrefixOf(k, call[c]) /\ n = LenOf(k, call[c])
    BY <1>8 DEF AccountOf, NextLen
  <2>2. QED
    BY <1>1, <1>3, <1>4, <2>1, CallFacts
<1>9. cli'[k] = "open" /\ report'[k] = NoReport
  BY DEF AccountOf
<1>10. QED
  BY <1>1, <1>4, <1>5, <1>6, <1>7, <1>8, <1>9 DEF AccountOf

\* During a transfer every byte the kernel took is accounted for.
LEMMA AccountedStep ==
    ASSUME TypeOK, OnBlock, Untouched, Started, Accounted, OneAtATime,
           [Next]_vars
    PROVE  Accounted'
<1> SUFFICES ASSUME NEW d \in Clients, pc'[d] = "sending"
             PROVE  AccountOf(d)'
  BY DEF Accounted
<1>1. ASSUME NEW c \in Clients, ClientSide(c), c # d PROVE AccountOf(d)'
  <2>1. pc[d] = "sending" /\ blk'[d] = blk[d] /\ call'[d] = call[d]
        /\ off'[d] = off[d] /\ sent'[d] = sent[d] /\ pc'[d] = pc[d] /\ rst' = rst
    BY <1>1, ClientFrame
  <2>2. Current(d) \in Conn /\ Current(d) # Current(c) /\ Current(d)' = Current(d)
    BY <1>1, <2>1, CurrentFacts DEF OnBlock, Current
  <2>3. /\ cli'[Current(d)] = cli[Current(d)]
        /\ copied'[Current(d)] = copied[Current(d)]
        /\ report'[Current(d)] = report[Current(d)]
        /\ cutShort \subseteq cutShort'
    BY <1>1, <2>2, ClientFrame
  <2>4. AccountOf(d)
    BY <2>1 DEF Accounted, AccountOf
  <2>5. InCall(d)' = InCall(d) /\ NextLen(d)' = NextLen(d)
    BY <2>1, <2>2 DEF InCall, NextLen
  <2>6. QED
    BY <2>1, <2>2, <2>3, <2>4, <2>5 DEF AccountOf
<1>2. CASE Connect(d)
  <2> DEFINE k == Current(d)
  <2>1. MoreBlocks(d) /\ pc[d] = "connect"
    BY <1>2 DEF Connect, OnBlock
  <2>2. k \in Conn /\ k[1] = d /\ k' = k /\ Ahead(k)
    BY <1>2, <2>1, CurrentFacts DEF Connect, Current, Ahead
  <2>3. copied[k] = 0 /\ report[k] = NoReport
    BY <2>2 DEF Untouched
  <2>4. call[d] = 0 /\ off[d] = 0 /\ sent[d] = 0
    BY <2>1 DEF Started
  <2>5. cli'[k] = "open" /\ UNCHANGED <<copied, rst, blk, call, off, sent, report, cutShort>>
    BY <1>2, <2>2 DEF Connect, TypeOK
  <2>6. CallsOf(k) \in Nat
    BY <2>2, PlanFacts
  <2>7. InCall(d)' => 0 < NextLen(d)
    BY <2>1, <2>2, <2>4, <2>5, NextLenFacts DEF InCall
  <2>8. PrefixOf(k, 0) = 0
    BY <2>2, PlanFacts
  <2>9. NextLen(d)' = NextLen(d)
    BY <2>2, <2>5 DEF NextLen
  <2>10. QED
    BY <2>2, <2>3, <2>4, <2>5, <2>6, <2>7, <2>8, <2>9 DEF AccountOf
<1>3. CASE Send(d)
  <2> DEFINE k == Current(d)
  <2>1. MoreBlocks(d) /\ AccountOf(d) /\ InCall(d)
    BY <1>3 DEF Send, InCall, OnBlock, Accounted, AccountOf
  <2>2. k \in Conn /\ k[1] = d /\ k' = k
    BY <1>3, <2>1, CurrentFacts DEF Send, Current
  <2>3. NextLen(d) \in Nat \ {0} /\ off[d] < NextLen(d) /\ off[d] \in Nat
        /\ sent[d] \in Nat /\ copied[k] = sent[d] + off[d]
    BY <2>1, NextLenFacts DEF AccountOf, InCall, TypeOK
  <2>4. copied'[k] = copied[k] + 1
        /\ UNCHANGED <<cli, report, rst, blk, pc, cutShort>>
    BY <1>3, <2>2 DEF Send, TypeOK
  <2>5. CASE off[d] + 1 = NextLen(d)
    <3>1. Returned(d, NextLen(d))
      BY <1>3, <2>5 DEF Send
    <3>2. copied'[k] = sent[d] + NextLen(d)
      BY <2>3, <2>4, <2>5
    <3>3. QED
      BY <2>1, <2>3, <2>4, <3>1, <3>2, ReturnKeepsAccount
  <2>6. CASE off[d] + 1 # NextLen(d)
    <3>1. off'[d] = off[d] + 1 /\ UNCHANGED <<call, sent>>
      BY <1>3, <2>6 DEF Send, TypeOK
    <3>2. InCall(d)' /\ NextLen(d)' = NextLen(d)
      BY <2>1, <2>2, <2>4, <3>1 DEF InCall, NextLen
    <3>3. copied'[k] = sent'[d] + off'[d] /\ off'[d] < NextLen(d)
      BY <2>3, <2>4, <2>6, <3>1
    <3>4. QED
      BY <2>1, <2>2, <2>4, <3>1, <3>2, <3>3 DEF AccountOf
  <2>7. QED
    BY <2>5, <2>6
<1>4. CASE SendCutByReset(d) \/ SendInterrupted(d)
  <2>1. MoreBlocks(d) /\ AccountOf(d) /\ InCall(d)
    BY <1>4 DEF SendCutByReset, SendInterrupted, InCall, OnBlock, Accounted,
                AccountOf
  <2>2. /\ Returned(d, off[d]) /\ off[d] \in Nat
        /\ UNCHANGED <<copied, cli, report, rst, blk, pc>>
    BY <1>4 DEF SendCutByReset, SendInterrupted, connVars, TypeOK
  <2>3. /\ cutShort \subseteq cutShort'
        /\ rst[Current(d)] \/ Current(d) \in cutShort'
    BY <1>4 DEF SendCutByReset, SendInterrupted
  <2>4. copied'[Current(d)] = sent[d] + off[d]
    BY <2>1, <2>2 DEF AccountOf
  <2>5. QED
    BY <2>1, <2>2, <2>3, <2>4, ReturnKeepsAccount
<1>5. ASSUME ClientSide(d) PROVE AccountOf(d)'
  BY <1>2, <1>3, <1>4, <1>5, Control
<1>6. CASE ServerSide
  <2>1. UNCHANGED <<clientVars, cli, copied>>
    BY <1>6, ServerSideFrame
  <2>2. AccountOf(d) /\ MoreBlocks(d)
    BY <2>1 DEF Accounted, AccountOf, clientVars, OnBlock
  <2>3. Current(d) \in Conn /\ Current(d)' = Current(d)
    BY <2>1, <2>2, CurrentFacts DEF Current, clientVars
  <2>4. rst[Current(d)] => rst'[Current(d)]
    BY <1>6, <2>3, ServerEffect DEF ServerKeeps
  <2>5. InCall(d)' = InCall(d) /\ NextLen(d)' = NextLen(d)
    BY <2>1, <2>3 DEF InCall, NextLen, clientVars
  <2>6. QED
    BY <2>1, <2>2, <2>3, <2>4, <2>5 DEF AccountOf, clientVars
<1>7. CASE UNCHANGED vars
  BY <1>7 DEF Accounted, AccountOf, InCall, NextLen, Current, vars, connVars,
              clientVars
<1>8. QED
  BY <1>1, <1>5, <1>6, <1>7, NextSplit
\* A closed transfer waiting for its report has the right count.
LEMMA ClosedStep ==
    ASSUME TypeOK, OnBlock, Accounted, Closed, [Next]_vars
    PROVE  Closed'
<1>1. ASSUME NEW d \in Clients, pc'[d] = "report",
             NEW c \in Clients, ClientSide(c), c # d
      PROVE  /\ cli'[Current(d)] = "closed" /\ report'[Current(d)] = NoReport
             /\ copied'[Current(d)] = sent'[d] /\ Current(d)' = Current(d)
  <2>1. pc[d] = "report" /\ blk'[d] = blk[d] /\ sent'[d] = sent[d]
    BY <1>1, ClientFrame
  <2>2. Current(d) \in Conn /\ Current(d) # Current(c)
    BY <1>1, <2>1, CurrentFacts DEF OnBlock, Current
  <2>3. QED
    BY <1>1, <2>1, <2>2, ClientFrame DEF Closed, Current
<1>2. ASSUME NEW d \in Clients, CloseSocket(d)
      PROVE  /\ cli'[Current(d)] = "closed" /\ report'[Current(d)] = NoReport
             /\ copied'[Current(d)] = sent'[d] /\ Current(d)' = Current(d)
  <2>1. Current(d) \in Conn /\ CallsOf(Current(d)) \in Nat
    BY <1>2, CurrentFacts, PlanFacts DEF CloseSocket, OnBlock
  <2>2. AccountOf(d) /\ ~InCall(d)
    BY <1>2, <2>1 DEF CloseSocket, Accounted, InCall
  <2>3. QED
    BY <1>2, <2>1, <2>2 DEF CloseSocket, AccountOf, Current, TypeOK
<1>3. ASSUME NEW c \in Clients, ClientSide(c) PROVE Closed'
  BY <1>1, <1>2, <1>3, Control DEF Closed
<1>4. CASE ServerSide
  BY <1>4, ServerSideFrame DEF Closed, Current, clientVars
<1>5. CASE UNCHANGED vars
  BY <1>5 DEF Closed, Current, vars, connVars, clientVars
<1>6. QED
  BY <1>3, <1>4, <1>5, NextSplit

\* Which client steps touch the byte count or the report of a connection.
LEMMA CountFrame ==
    ASSUME TypeOK, NEW c \in Clients, ClientSide(c)
    PROVE  /\ ~Send(c) => UNCHANGED copied
           /\ ~Report(c) => UNCHANGED report
<1>1. ~Send(c) => UNCHANGED copied
  BY DEF ClientSide, ClientStep, ClientFault, OpenSocket, BindFails,
         SocketFails, Connect, ConnectFails, SendCutByReset, SendInterrupted,
         SendFails, CloseSocket, Report, ExitOk, ClientKilled, ClientVanishes,
         connVars
<1>2. QED
  BY <1>1, Control

\* Nothing is sent any more on a connection that is closed or reported.
LEMMA CountFinal ==
    ASSUME TypeOK, OnBlock, Accounted, NEW c \in Clients, ClientSide(c),
           NEW k \in Conn, Reported(k) \/ cli[k] = "closed"
    PROVE  copied'[k] = copied[k]
<1>1. CASE ~Send(c)
  BY <1>1, CountFrame
<1>2. CASE Send(c)
  <2>1. AccountOf(c)
    BY <1>2 DEF Send, InCall, Accounted
  <2>2. k # Current(c)
    BY <2>1 DEF AccountOf, Reported
  <2>3. QED
    BY <2>2, ClientFrame
<1>3. QED
  BY <1>1, <1>2

\* The report is what the kernel took, and stays so.
LEMMA ReportIsTruthStep ==
    ASSUME TypeOK, OnBlock, Accounted, Closed, ReportIsTruth, [Next]_vars
    PROVE  ReportIsTruth'
<1> SUFFICES ASSUME NEW k \in Conn, Reported(k)'
             PROVE  report'[k] = IF IsMsg(k) THEN Size(k) ELSE copied'[k] \div KB
  BY DEF ReportIsTruth
<1>1. ASSUME NEW c \in Clients, ClientSide(c), report'[k] = report[k]
      PROVE  report'[k] = IF IsMsg(k) THEN Size(k) ELSE copied'[k] \div KB
  <2>1. Reported(k)
    BY <1>1 DEF Reported
  <2>2. QED
    BY <1>1, <2>1, CountFinal DEF ReportIsTruth
<1>2. ASSUME NEW c \in Clients, Report(c), k = Current(c)
      PROVE  report'[k] = IF IsMsg(k) THEN Size(k) ELSE copied'[k] \div KB
  BY <1>2 DEF Report, Result, Closed, TypeOK, connVars
<1>3. ASSUME NEW c \in Clients, ClientSide(c)
      PROVE  report'[k] = IF IsMsg(k) THEN Size(k) ELSE copied'[k] \div KB
  BY <1>1, <1>2, <1>3, CountFrame, ClientFrame
<1>4. CASE ServerSide
  BY <1>4, ServerSideFrame DEF ReportIsTruth, Reported, clientVars
<1>5. CASE UNCHANGED vars
  BY <1>5 DEF ReportIsTruth, Reported, vars, connVars, clientVars
<1>6. QED
  BY <1>3, <1>4, <1>5, NextSplit

\* The end of file comes after the close and the last byte, and stays there.
LEMMA EofBehindCloseStep ==
    ASSUME TypeOK, OnBlock, Untouched, Accounted, OneAtATime, EofBehindClose,
           [Next]_vars
    PROVE  EofBehindClose'
<1> SUFFICES ASSUME NEW k \in Conn, AtEof(k)'
             PROVE  cli'[k] = "closed" /\ got'[k] = copied'[k]
  BY DEF EofBehindClose
<1>1. ASSUME NEW c \in Clients, ClientSide(c)
      PROVE  cli'[k] = "closed" /\ got'[k] = copied'[k]
  <2>1. UNCHANGED <<spc, cur, got>>
    BY <1>1, ClientFrame
  <2>2. ASSUME Connect(c) PROVE k # Current(c)
    <3>1. Current(c) \in Conn /\ Ahead(Current(c))
      BY <2>2, CurrentFacts DEF Connect, OnBlock, Ahead
    <3>2. srv'[Current(c)] = "queued" /\ srv[Current(c)] = "none"
      BY <2>2, <3>1 DEF Connect, TypeOK, Untouched
    <3>3. QED
      BY <2>1, <3>2 DEF AtEof, OneAtATime, OneConnectionServed
  <2>3. srv'[k] = srv[k] /\ (cli[k] = "closed" => cli'[k] = "closed")
    <3>1. CASE Connect(c)
      BY <1>1, <2>2, <3>1, ClientFrame
    <3>2. CASE ~Connect(c)
      BY <1>1, <3>2 DEF TypeOK, ClientSide, ClientStep, ClientFault,
         OpenSocket, BindFails, SocketFails, ConnectFails, Send,
         SendCutByReset, SendInterrupted, SendFails, CloseSocket, Report,
         ExitOk, ClientKilled, ClientVanishes, connVars
    <3>3. QED
      BY <3>1, <3>2
  <2>4. AtEof(k)
    BY <2>1, <2>3 DEF AtEof
  <2>5. QED
    BY <1>1, <2>1, <2>3, <2>4, CountFinal DEF EofBehindClose
<1>2. CASE ServerSide
  <2>1. UNCHANGED <<cli, copied>>
    BY <1>2, ServerSideFrame
  <2>2. CASE AtEof(k) /\ got'[k] = got[k]
    BY <2>1, <2>2 DEF EofBehindClose
  <2>3. CASE ServerEof /\ k = cur
    BY <2>3 DEF ServerEof, connVars
  <2>4. QED
    BY <1>2, <2>2, <2>3, ServerEffect DEF ServerKeeps
<1>3. CASE UNCHANGED vars
  BY <1>3 DEF EofBehindClose, AtEof, vars, connVars, serverVars
<1>4. QED
  BY <1>1, <1>2, <1>3, NextSplit
\* A finished transfer has carried its whole plan, unless something was cut.
LEMMA WholeStep ==
    ASSUME TypeOK, OnBlock, Untouched, Accounted, Whole, EofBehindClose,
           OneAtATime, [Next]_vars
    PROVE  Whole'
<1> SUFFICES ASSUME NEW k \in Conn, Finished(k)', k \notin cutShort',
                    ~rst'[k] \/ AtEof(k)'
             PROVE  copied'[k] = PlanOf(k)
  BY DEF Whole
<1> DEFINE d == k[1]
           P == PlanOf(k)
<1>1. d \in Clients
  BY ConnFacts
<1>2. ASSUME NEW c \in Clients, ClientSide(c)
      PROVE  copied'[k] = P
  <2>1. UNCHANGED <<spc, cur, got, rst>> /\ k \notin cutShort
    BY <1>2, ClientFrame
  <2>2. AtEof(k)' => AtEof(k) \/ Connect(c)
    BY <1>2, <2>1 DEF AtEof, ClientSide, ClientStep, ClientFault, OpenSocket,
       BindFails, SocketFails, ConnectFails, Send, SendCutByReset,
       SendInterrupted, SendFails, CloseSocket, Report, ExitOk, ClientKilled,
       ClientVanishes, connVars
  <2>3. CASE Finished(k) /\ ~Connect(c)
    <3>1. copied[k] = P
      BY <2>1, <2>2, <2>3 DEF Whole
    <3>2. pc[d] = "report" /\ k = Current(d) => ~Send(c) \/ k # Current(c)
      BY DEF Send, InCall, Current
    <3>3. copied'[k] = copied[k]
      BY <1>2, <2>3, <3>2, CountFinal, CountFrame, ClientFrame DEF Finished
    <3>4. QED
      BY <3>1, <3>3
  <2>4. CASE CloseSocket(c) /\ k = Current(c)
    <3>1. AccountOf(c) /\ ~InCall(c) /\ c = d
      <4>1. CallsOf(k) \in Nat
        BY PlanFacts
      <4>2. QED
        BY <2>4, <4>1 DEF CloseSocket, Accounted, InCall, Current
    <3>2. ~AtEof(k)
      BY <2>4, <3>1 DEF AccountOf, EofBehindClose
    <3>3. ~rst[k]
      BY <2>1, <2>2, <2>4, <3>2 DEF CloseSocket, Connect
    <3>4. copied[k] = PrefixOf(k, CallsOf(k))
      BY <2>1, <2>4, <3>1, <3>3 DEF AccountOf, CloseSocket, TypeOK
    <3>5. copied[k] = P
      BY <3>4, PlanFacts
    <3>6. QED
      BY <2>4, <3>5 DEF CloseSocket
  <2>5. CASE Connect(c) /\ Finished(k)
    <3>1. Current(c) \in Conn /\ Ahead(Current(c))
      BY <2>5, CurrentFacts DEF Connect, OnBlock, Ahead
    <3>2. k # Current(c)
      BY <2>5, <3>1, ConnFacts DEF Finished, Reported, Untouched, Current, Connect
    <3>3. AtEof(k)' => AtEof(k)
      BY <1>2, <2>1, <3>2, ClientFrame DEF AtEof
    <3>4. copied'[k] = copied[k]
      BY <2>5 DEF Connect
    <3>5. QED
      BY <2>1, <2>5, <3>3, <3>4 DEF Whole
  <2>6. Finished(k) \/ (CloseSocket(c) /\ k = Current(c))
    <3>1. CASE Reported(k)'
      <4>1. CASE Report(c) /\ k = Current(c)
        BY <4>1 DEF Report, Finished, Current
      <4>2. CASE ~(Report(c) /\ k = Current(c))
        BY <1>2, <3>1, <4>2, ClientFrame, CountFrame DEF Finished, Reported
      <4>3. QED
        BY <4>1, <4>2
    <3>2. CASE ~Reported(k)' /\ c = d
      BY <1>1, <1>2, <3>2, Control DEF Finished, CloseSocket, Current
    <3>3. CASE ~Reported(k)' /\ c # d
      BY <1>1, <1>2, <3>3, ClientFrame DEF Finished, Current
    <3>4. QED
      BY <3>1, <3>2, <3>3
  <2>7. QED
    BY <2>3, <2>4, <2>5, <2>6
<1>3. CASE ServerSide
  <2>1. UNCHANGED <<clientVars, cli, copied>>
    BY <1>3, ServerSideFrame
  <2>2. Finished(k) /\ k \notin cutShort
    BY <2>1 DEF Finished, Reported, Current, clientVars
  <2>3. ~rst[k] \/ AtEof(k)
    BY <1>3, ServerEffect DEF ServerKeeps, ServerEof
  <2>4. QED
    BY <2>1, <2>2, <2>3 DEF Whole
<1>4. CASE UNCHANGED vars
  BY <1>4 DEF Whole, Finished, Reported, AtEof, Current, vars, serverVars,
              connVars, clientVars
<1>5. QED
  BY <1>2, <1>3, <1>4, NextSplit

\* Status 0 is returned only at the end of the loop over the blocks.
LEMMA OkDoneStep ==
    ASSUME TypeOK, OkDone, [Next]_vars
    PROVE  OkDone'
<1>1. ASSUME NEW c \in Clients, ClientSide(c) PROVE OkDone'
  <2>1. pc'[c] = "ok" => ~MoreBlocks(c)'
    BY <1>1, Control DEF ExitOk, MoreBlocks
  <2>2. QED
    BY <1>1, <2>1, ClientFrame DEF OkDone, MoreBlocks
<1>2. CASE ServerSide
  BY <1>2, ServerSideFrame DEF OkDone, MoreBlocks, clientVars
<1>3. CASE UNCHANGED vars
  BY <1>3 DEF OkDone, MoreBlocks, vars, clientVars
<1>4. QED
  BY <1>1, <1>2, <1>3, NextSplit
-----------------------------------------------------------------------------
(***************************************************************************)
(* The theorems.                                                           *)
(***************************************************************************)
LEMMA InitInvariant ==
    ASSUME Init
    PROVE  IInv
<1> USE DEF Init
<1>1. TypeOK
  BY TransferAssumption
     DEF TypeOK, SrvDown, SrvUp, CliRunning, CliEnded, NoReport
<1>2. OnBlock /\ Untouched /\ Started /\ Accounted /\ Closed
  BY DEF OnBlock, Untouched, Started, Accounted, Closed, NoReport
<1>3. Whole /\ ReportIsTruth /\ EofBehindClose
  BY ConnFacts DEF Whole, Finished, ReportIsTruth, Reported, EofBehindClose, AtEof
<1>4. OneAtATime
  BY DEF OneAtATime, CurOwned, OneConnectionServed, QueueFresh
<1>5. ClientHoldsOne /\ PastReported /\ OkDone /\ QueueOrder /\ InOrder
  BY ConnFacts DEF ClientHoldsOne, PastReported, OkDone, QueueOrder, InOrder
<1>6. QED
  BY <1>1, <1>2, <1>3, <1>4, <1>5 DEF IInv

LEMMA StepInvariant ==
    ASSUME IInv, [Next]_vars
    PROVE  IInv'
<1>1. TypeOK' /\ OnBlock'
  BY TypeStep, OnBlockStep DEF IInv, OneAtATime
<1>2. Untouched' /\ Started' /\ OneAtATime'
  BY UntouchedStep, StartedStep, OneAtATimeStep DEF IInv
<1>3. Accounted' /\ Closed' /\ ReportIsTruth'
  BY AccountedStep, ClosedStep, ReportIsTruthStep DEF IInv
<1>4. Whole' /\ EofBehindClose'
  BY WholeStep, EofBehindCloseStep DEF IInv
<1>5. ClientHoldsOne' /\ PastReported' /\ OkDone'
  BY ClientHoldsOneStep, PastReportedStep, OkDoneStep DEF IInv
<1>6. QueueOrder' /\ InOrder'
  BY OrderStep DEF IInv
<1>7. QED
  BY <1>1, <1>2, <1>3, <1>4, <1>5, <1>6 DEF IInv

\* The inductive invariant holds in every reachable state.
THEOREM Invariance == Spec => []IInv
<1>1. Init => IInv
  BY InitInvariant
<1>2. IInv /\ [Next]_vars => IInv'
  BY StepInvariant
<1>3. QED
  BY <1>1, <1>2, PTL DEF Spec

\* Every variable keeps its type.
THEOREM TypeCorrect == Spec => []TypeOK
<1>1. IInv => TypeOK
  BY DEF IInv
<1>2. QED
  BY <1>1, Invariance, PTL

\* recv() returns 0 to the server only when the client has closed and every
\* byte was read (file_transfer_server.cpp:60-63).
THEOREM EofIsComplete == Spec => []EofMeansAll
<1>1. IInv => EofMeansAll
  BY DEF IInv, EofBehindClose, AtEof, EofMeansAll
<1>2. QED
  BY <1>1, Invariance, PTL

\* The ksend_data a client prints is what its kernel took
\* (file_transfer_client.cpp:55-63 and 69).
THEOREM ReportsAreTrue == Spec => []ReportIsTruth
<1>1. IInv => ReportIsTruth
  BY DEF IInv
<1>2. QED
  BY <1>1, Invariance, PTL

\* Whole kilobytes survive the shift back to kilobytes.
LEMMA DivExact ==
    ASSUME NEW n \in Nat
    PROVE  (n * KB) \div KB = n
<1> DEFINE m == n * KB
           q == m \div KB
           r == m % KB
<1>1. KB \in Nat \ {0} /\ m \in Nat
  BY WidthAssumption
<1>2. q \in Nat /\ r \in 0..(KB - 1) /\ m = q * KB + r
  BY <1>1, DivMod
<1>3. (n - q) * KB = r
  BY <1>1, <1>2
<1>4. CASE n - q >= 1
  <2>1. (n - q) * KB >= KB
    BY <1>1, <1>2, <1>4
  <2>2. QED
    BY <1>1, <1>2, <1>3, <2>1
<1>5. CASE n - q <= -1
  <2>1. (n - q) * KB <= -KB
    BY <1>1, <1>2, <1>5
  <2>2. QED
    BY <1>1, <1>2, <1>3, <2>1
<1>6. QED
  BY <1>2, <1>4, <1>5

\* A plan that fits both widths asks for exactly what was requested.
LEMMA PlanIsAsked ==
    ASSUME NEW k \in Conn, FitsConn(k)
    PROVE  PlanOf(k) = Asked(k)
<1>1. Size(k) \in Nat /\ SendBuf[k[1]] \in Nat \ {0}
  BY PlanFacts
<1>2. QED
  BY <1>1, PlanExact DEF FitsConn, PlanOf, Asked

\* A client carries less than its block or messages, and reports less, only
\* after a reset or a signal that cut a send() short: nothing else in the code
\* loses bytes, and the unchecked count of msg_client is right but for those.
THEOREM ShortReportsAreExplained == Spec => []ShortOnlyIfBroken
<1>1. ASSUME IInv, NEW k \in Conn, Reported(k), FitsConn(k), ~rst[k],
             k \notin cutShort
      PROVE  copied[k] = Asked(k) /\ report[k] = Size(k)
  <2>1. Size(k) \in Nat
    BY PlanFacts
  <2>2. copied[k] = Asked(k)
    BY <1>1, PlanIsAsked DEF IInv, Whole, Finished
  <2>3. CASE IsMsg(k)
    BY <1>1, <2>2, <2>3 DEF IInv, ReportIsTruth
  <2>4. CASE ~IsMsg(k)
    <3>1. copied[k] = Size(k) * KB
      BY <2>2, <2>4 DEF Asked
    <3>2. QED
      BY <1>1, <2>1, <2>2, <2>4, <3>1, DivExact DEF IInv, ReportIsTruth
  <2>5. QED
    BY <2>3, <2>4
<1>2. IInv => ShortOnlyIfBroken
  BY <1>1 DEF ShortOnlyIfBroken
<1>3. QED
  BY <1>2, Invariance, PTL

\* When the client has reported a block and the server has seen its end, the
\* server received exactly what was requested (unless a signal cut a send()
\* short): a reset never leaves both sides believing in success, not even with
\* a message client, which drops the results of send().
THEOREM EndToEndDelivery == Spec => []EndToEnd
<1>1. ASSUME IInv, NEW k \in Conn, Reported(k), srv[k] = "eof", FitsConn(k),
             k \notin cutShort
      PROVE  got[k] = Asked(k)
  <2>1. copied[k] = Asked(k)
    BY <1>1, PlanIsAsked DEF IInv, Whole, Finished, AtEof
  <2>2. got[k] = copied[k]
    BY <1>1 DEF IInv, EofBehindClose, AtEof
  <2>3. QED
    BY <2>1, <2>2
<1>2. IInv => EndToEnd
  BY <1>1 DEF EndToEnd
<1>3. QED
  BY <1>2, Invariance, PTL

\* The server owns at most one accepted socket, the one it serves, on every
\* path out of the loop body (file_transfer_server.cpp:52-72).
THEOREM ServesOne == Spec => []OneConnectionServed
<1>1. IInv => OneConnectionServed
  BY DEF IInv, OneAtATime
<1>2. QED
  BY <1>1, Invariance, PTL

\* Blocks of one client are accepted in the order of its command line, also
\* when the server falls behind (listen(3), file_transfer_server.cpp:50-55).
THEOREM BlocksInOrder == Spec => []InOrder
<1>1. IInv => InOrder
  BY DEF IInv
<1>2. QED
  BY <1>1, Invariance, PTL

\* A client owns at most one open socket, that of the block it is sending.
THEOREM HoldsOne == Spec => []ClientHoldsOne
<1>1. IInv => ClientHoldsOne
  BY DEF IInv
<1>2. QED
  BY <1>1, Invariance, PTL

\* Exit status 0 of a client means that all its blocks were reported
\* (client.cxx:95-103).
THEOREM ExitZeroIsComplete == Spec => []ExitZeroComplete
<1>1. ASSUME IInv, NEW c \in Clients, pc[c] = "ok", NEW k \in Conn, k[1] = c
      PROVE  Reported(k)
  <2>1. ~(blk[c] <= Len(Blocks[c]))
    BY <1>1 DEF IInv, OkDone, MoreBlocks
  <2>2. Blocks[c] \in Seq(Nat) /\ blk[c] \in Nat \ {0}
    BY <1>1, TransferAssumption DEF IInv, TypeOK
  <2>3. k[2] \in 1..Len(Blocks[c])
    BY <1>1, ConnFacts
  <2>4. k[2] < blk[c]
    BY <2>1, <2>2, <2>3
  <2>5. QED
    BY <1>1, <2>4 DEF IInv, PastReported
<1>2. IInv => ExitZeroComplete
  BY <1>1 DEF ExitZeroComplete
<1>3. QED
  BY <1>2, Invariance, PTL

\* A server that is up stops only through a signal, a kill or the loop's own
\* end, never through an error of one connection
\* (file_transfer_server.cpp:67-71); one that is started comes up unless a
\* system call fails (SO_REUSEADDR, line 42).
THEOREM ServerStopsOnlyByFault == Spec => OnlyFaultsStopServer
<1>1. ASSUME TypeOK, [Next]_vars, spc' \in SrvDown,
             spc \in SrvUp \/ starts' # starts
      PROVE  spc = "stop" \/ faults' > faults \/ UNCHANGED vars
  <2> USE DEF SrvUp, SrvDown, Fault
  <2>1. faults \in Nat /\ faults + 1 > faults
    BY <1>1, TransferAssumption DEF TypeOK
  <2>2. ASSUME NEW c \in Clients, ClientSide(c) PROVE FALSE
    BY <1>1, <2>2, ClientFrame
  <2>3. CASE ServerExit
    BY <2>3 DEF ServerExit
  <2>4. CASE SigintEarly \/ SigintInHandler \/ SigintTerminates \/ ServerKilled
    BY <2>1, <2>4 DEF SigintEarly, SigintInHandler, SigintTerminates,
                      ServerKilled
  <2>5. CASE ServerStart \/ ServerListen
    BY <1>1, <2>1, <2>5 DEF ServerStart, ServerListen
  <2>6. CASE \/ ServerRegist \/ ServerAccept \/ ServerRecv
             \/ ServerEof \/ ServerDrop \/ ServerRecvFails \/ ServerCatch
    BY <1>1, <2>6 DEF ServerRegist, ServerAccept, ServerRecv,
       ServerEof, ServerDrop, ServerRecvFails, ServerCatch, serverVars
  <2>7. CASE ServerAcceptFails \/ SigintCaught
    BY <1>1, <2>7 DEF ServerAcceptFails, SigintCaught
  <2>8. CASE \/ Quiet
             \/ \E k \in Conn : PeerReset(k) \/ NetReset(k)
    BY <1>1, <2>8 DEF Quiet, PeerReset, NetReset, serverVars, vars
  <2>9. QED
    BY <1>1, <2>2, <2>3, <2>4, <2>5, <2>6, <2>7, <2>8, NextSplit
       DEF ServerSide, ServerStep, ServerFault
<1>2. TypeOK /\ [Next]_vars
         => [spc' \in SrvDown /\ (spc \in SrvUp \/ starts' # starts)
               => spc = "stop" \/ faults' > faults]_vars
  BY <1>1
<1>3. QED
  BY <1>2, TypeCorrect, PTL DEF Spec, OnlyFaultsStopServer
-----------------------------------------------------------------------------
(***************************************************************************)
(* Nobody waits for somebody who waits.                                    *)
(***************************************************************************)

\* A connection has a server endpoint only when the client opened it.
Opened == \A k \in Conn : srv[k] # "none" => cli[k] # "none"

\* The server gives up a connection as broken only when it was reset.
Heard == \A k \in Conn : srv[k] = "err" => rst[k]

\* A sending client's connection has reached the server's host.
Reached == \A c \in Clients : pc[c] = "sending" => srv[Current(c)] # "none"

\* Nobody queues at a server that does not listen.
Deaf == ~Listening => queue = <<>>

WInv == IInv /\ Opened /\ Heard /\ Reached /\ Deaf

LEMMA OpenedStep ==
    ASSUME TypeOK, OneAtATime, Opened, [Next]_vars
    PROVE  Opened'
<1>1. ASSUME NEW c \in Clients, ClientSide(c) PROVE Opened'
  <2>1. CASE Connect(c)
    BY <2>1 DEF Connect, Opened, TypeOK
  <2>2. CASE ~Connect(c)
    <3>1. /\ srv' = srv
          /\ \/ cli' = cli
             \/ cli' = [cli EXCEPT ![Current(c)] = "closed"]
      BY <1>1, <2>2 DEF ClientSide, ClientStep, ClientFault, OpenSocket,
         BindFails, SocketFails, ConnectFails, Send, SendCutByReset,
         SendInterrupted, SendFails, CloseSocket, Report, ExitOk, ClientKilled,
         ClientVanishes, connVars
    <3>2. QED
      BY <3>1 DEF Opened, TypeOK
  <2>3. QED
    BY <2>1, <2>2
<1>2. ASSUME ServerSide PROVE Opened'
  <2>1. cli' = cli
    BY <1>2, ServerSideFrame
  <2>2. \A k \in Conn : srv[k] = "none" => srv'[k] = "none"
    <3>1. CASE ServerAccept
      <4>1. Head(queue) \in Conn /\ srv[Head(queue)] = "queued"
        BY <3>1 DEF ServerAccept, OneAtATime, QueueFresh, TypeOK
      <4>2. QED
        BY <3>1, <4>1 DEF ServerAccept, TypeOK
    <3>2. CASE ~ServerAccept
      <4>1. CASE \/ ServerExit \/ SigintEarly \/ SigintInHandler
                 \/ SigintTerminates \/ ServerKilled
        BY <4>1 DEF ServerExit, SigintEarly, SigintInHandler, SigintTerminates,
           ServerKilled, ServerDies
      <4>2. CASE ServerDrop \/ ServerRecvFails \/ SigintCaught
        <5>1. \/ srv' = srv
              \/ /\ spc \in {"recv", "drop"}
                 /\ \E how \in {"eof", "err", "cut"} :
                       srv' = [srv EXCEPT ![cur] = how]
          BY <4>2 DEF ServerDrop, ServerRecvFails, SigintCaught, ReleaseCur
        <5>2. spc \in {"recv", "drop"} => cur \in Conn /\ srv[cur] = "open"
          BY DEF OneAtATime, CurOwned, OneConnectionServed
        <5>3. QED
          BY <5>1, <5>2 DEF TypeOK
      <4>3. CASE srv' = srv
        BY <4>3
      <4>4. QED
        BY <1>2, <3>2, <4>1, <4>2, <4>3 DEF ServerSide, ServerStep, ServerFault,
           ServerStart, ServerListen, ServerRegist, ServerAcceptFails,
           ServerRecv, ServerEof, ServerCatch, PeerReset, NetReset, Quiet,
           vars, connVars
    <3>3. QED
      BY <3>1, <3>2
  <2>3. QED
    BY <2>1, <2>2 DEF Opened
<1>3. QED
  BY <1>1, <1>2, NextSplit DEF Opened, vars, connVars

\* An endpoint of the server does not go back to nothing, and is given up as
\* broken by a recv() that fails.
LEMMA EndpointEffect ==
    ASSUME TypeOK, OneAtATime, [Next]_vars, NEW k \in Conn
    PROVE  /\ srv[k] # "none" => srv'[k] # "none"
           /\ srv'[k] = "err" => srv[k] = "err" \/ (ServerRecvFails /\ k = cur)
           /\ rst[k] => rst'[k]
<1> USE DEF TypeOK, serverVars, connVars
<1>1. ASSUME NEW c \in Clients, Connect(c)
      PROVE  /\ srv[k] # "none" => srv'[k] # "none"
             /\ srv'[k] = "err" => srv[k] = "err"
             /\ rst[k] => rst'[k]
  BY <1>1 DEF Connect
<1>2. ASSUME NEW c \in Clients, ClientSide(c), ~Connect(c)
      PROVE  srv' = srv /\ rst' = rst
  BY <1>2 DEF ClientSide, ClientStep, ClientFault, OpenSocket, BindFails,
     SocketFails, ConnectFails, Send, SendCutByReset, SendInterrupted,
     SendFails, CloseSocket, Report, ExitOk, ClientKilled, ClientVanishes
<1>3. ASSUME ServerSide
      PROVE  /\ srv[k] # "none" => srv'[k] # "none"
             /\ srv'[k] = "err" => srv[k] = "err" \/ (ServerRecvFails /\ k = cur)
  <2>1. CASE \/ ServerExit \/ SigintEarly \/ SigintInHandler
             \/ SigintTerminates \/ ServerKilled
    BY <2>1 DEF ServerExit, SigintEarly, SigintInHandler, SigintTerminates,
       ServerKilled, ServerDies
  <2>2. CASE ServerAccept
    BY <2>2 DEF ServerAccept
  <2>3. CASE ServerDrop \/ SigintCaught
    BY <2>3 DEF ServerDrop, SigintCaught, ReleaseCur
  <2>4. CASE ServerRecvFails
    BY <2>4 DEF ServerRecvFails, ReleaseCur
  <2>5. CASE srv' = srv
    BY <2>5
  <2> QED
    BY <1>3, <2>1, <2>2, <2>3, <2>4, <2>5 DEF ServerSide, ServerStep,
       ServerFault, ServerStart, ServerListen, ServerRegist, ServerAcceptFails,
       ServerRecv, ServerEof, ServerCatch, PeerReset, NetReset, Quiet, vars
<1>4. ServerSide => (rst[k] => rst'[k])
  BY ServerEffect DEF ServerKeeps
<1> QED
  BY <1>1, <1>2, <1>3, <1>4, NextSplit DEF vars

LEMMA HeardStep ==
    ASSUME TypeOK, OneAtATime, Heard, [Next]_vars
    PROVE  Heard'
<1> SUFFICES ASSUME NEW k \in Conn, srv'[k] = "err" PROVE rst'[k]
  BY DEF Heard
<1>1. rst[k]
  BY EndpointEffect DEF Heard, ServerRecvFails
<1> QED
  BY <1>1, EndpointEffect

LEMMA ReachedStep ==
    ASSUME TypeOK, OnBlock, OneAtATime, Reached, [Next]_vars
    PROVE  Reached'
<1>1. ASSUME NEW c \in Clients, ClientSide(c) PROVE Reached'
  <2> SUFFICES ASSUME NEW d \in Clients, pc'[d] = "sending"
               PROVE  srv'[Current(d)'] # "none"
    BY DEF Reached
  <2>1. CASE Connect(c) /\ d = c
    <3>1. Current(c) \in Conn /\ Current(c)' = Current(c)
      BY <2>1, CurrentFacts DEF Connect, OnBlock, Current
    <3> QED BY <2>1, <3>1 DEF Connect, TypeOK
  <2>2. CASE ~(Connect(c) /\ d = c)
    <3>1. pc[d] = "sending" /\ blk'[d] = blk[d]
      <4>1. CASE d = c
        BY <1>1, <2>2, <4>1, Control DEF Send, SendCutByReset, SendInterrupted, InCall
      <4>2. CASE d # c
        BY <1>1, <4>2, ClientFrame
      <4> QED BY <4>1, <4>2
    <3>2. Current(d) \in Conn /\ Current(d)' = Current(d)
      BY <3>1, CurrentFacts DEF OnBlock, Current
    <3> QED BY <3>1, <3>2, EndpointEffect DEF Reached
  <2> QED BY <2>1, <2>2
<1>2. ASSUME ServerSide \/ UNCHANGED vars PROVE Reached'
  <2>1. UNCHANGED clientVars
    BY <1>2, ServerSideFrame DEF vars
  <2>2. \A d \in Clients : pc[d] = "sending" => Current(d) \in Conn
    BY CurrentFacts DEF OnBlock
  <2> QED BY <2>1, <2>2, EndpointEffect DEF Reached, Current, clientVars
<1> QED
  BY <1>1, <1>2, NextSplit

LEMMA DeafStep ==
    ASSUME Deaf, [Next]_vars
    PROVE  Deaf'
<1> USE DEF Deaf, Listening, SrvUp, SrvDown, serverVars, connVars
<1>1. ASSUME NEW c \in Clients, ClientSide(c) PROVE Deaf'
  <2>1. CASE Connect(c)
    BY <2>1 DEF Connect
  <2>2. CASE ~Connect(c)
    BY <1>1, <2>2 DEF ClientSide, ClientStep, ClientFault, OpenSocket, BindFails,
       SocketFails, ConnectFails, Send, SendCutByReset, SendInterrupted,
       SendFails, CloseSocket, Report, ExitOk, ClientKilled, ClientVanishes
  <2> QED BY <2>1, <2>2
<1>2. CASE ServerStart \/ ServerListen \/ ServerRegist \/ ServerAccept
  BY <1>2 DEF ServerStart, ServerListen, ServerRegist, ServerAccept
<1>3. CASE \/ ServerRecv \/ ServerEof \/ ServerDrop \/ ServerRecvFails
           \/ ServerCatch \/ ServerAcceptFails \/ SigintCaught
  BY <1>3 DEF ServerRecv, ServerEof, ServerDrop, ServerRecvFails, ServerCatch,
     ServerAcceptFails, SigintCaught
<1>4. CASE \/ ServerExit \/ SigintEarly \/ SigintInHandler
           \/ SigintTerminates \/ ServerKilled
  BY <1>4 DEF ServerExit, SigintEarly, SigintInHandler, SigintTerminates,
     ServerKilled, ServerDies
<1>5. CASE \/ \E k \in Conn : PeerReset(k) \/ NetReset(k)
           \/ UNCHANGED vars
  BY <1>5 DEF PeerReset, NetReset, vars
<1> QED
  BY <1>1, <1>2, <1>3, <1>4, <1>5, NextSplit DEF ServerSide, ServerStep,
     ServerFault, Quiet

LEMMA Waiting == Spec => []WInv
<1>1. Init => WInv
  BY InitInvariant, ConnFacts DEF WInv, Opened, Heard, Reached, Deaf, Init
<1>2. WInv /\ [Next]_vars => WInv'
  BY StepInvariant, OpenedStep, HeardStep, ReachedStep, DeafStep DEF WInv, IInv
<1> QED
  BY <1>1, <1>2, PTL DEF Spec

\* The client the server waits for in recv() goes on, or is lost.
LEMMA ServedGoesOn ==
    ASSUME WInv, spc = "recv", ~ServerCan
    PROVE  ClientCan(cur[1]) \/ pc[cur[1]] = "vanished"
<1> DEFINE c == cur[1]
<1>1. cur \in Conn /\ srv[cur] = "open" /\ c \in Clients
  BY ConnFacts DEF WInv, IInv, OneAtATime, CurOwned, OneConnectionServed
<1>2. ~rst[cur] /\ ~(got[cur] < copied[cur]) /\ cli[cur] # "closed"
  BY DEF ServerCan
<1>3. cli[cur] = "open"
  BY <1>1, <1>2 DEF WInv, IInv, Opened, TypeOK
<1>4. cur = Current(c) /\ pc[c] \in {"sending", "vanished"}
  BY <1>1, <1>3 DEF WInv, IInv, ClientHoldsOne
<1>5. copied[cur] \in Nat /\ got[cur] \in Nat /\ SockBuf \in Nat \ {0}
  BY <1>1, TransferAssumption DEF WInv, IInv, TypeOK
<1>6. ~Blocked(c)
  <2>1. ~(copied[cur] - got[cur] >= SockBuf)
    BY <1>2, <1>5
  <2> QED BY <1>4, <2>1 DEF Blocked
<1> QED
  BY <1>4, <1>6 DEF ClientCan, CliRunning

\* A client that blocks in send() waits behind a server that goes on, or for
\* the reset that answers its bytes.
LEMMA BlockedIsHeard ==
    ASSUME WInv, NEW c \in Clients, Blocked(c)
    PROVE  ServerCan \/ ResetComes(Current(c)) \/ spc = "recv"
<1> DEFINE k == Current(c)
<1>1. pc[c] = "sending" /\ ~rst[k] /\ copied[k] - got[k] >= SockBuf
  BY DEF Blocked, InCall
<1>2. k \in Conn
  BY <1>1, CurrentFacts DEF WInv, IInv, OnBlock
<1> HIDE DEF k
<1>3. got[k] < copied[k]
  BY <1>1, <1>2, TransferAssumption DEF WInv, IInv, TypeOK
<1>4. srv[k] # "none" /\ cli[k] = "open"
  BY <1>1 DEF WInv, IInv, Reached, Accounted, AccountOf, k
<1>5. srv[k] \notin {"err", "eof"}
  BY <1>1, <1>2, <1>4 DEF WInv, IInv, Heard, EofBehindClose, AtEof
<1>6. srv[k] \in {"queued", "open", "cut"}
  BY <1>2, <1>4, <1>5 DEF WInv, IInv, TypeOK
<1>7. CASE srv[k] = "cut"
  BY <1>1, <1>3, <1>7 DEF ResetComes, k
<1>8. CASE srv[k] = "open"
  BY <1>2, <1>8 DEF WInv, IInv, OneAtATime, OneConnectionServed, ServerCan
<1>9. CASE srv[k] = "queued"
  <2>1. queue # <<>>
    BY <1>2, <1>9 DEF WInv, IInv, QueueOrder, TypeOK
  <2>2. spc \in SrvUp \ {"bound"}
    BY <2>1 DEF WInv, Deaf, Listening
  <2> QED BY <2>1, <2>2 DEF ServerCan, SrvUp
<1> QED
  BY <1>6, <1>7, <1>8, <1>9

\* However many clients wait, there is always one who can go on and for whom
\* the others wait, unless the host of the served client is lost
\* (file_transfer_client.cpp:55-63, file_transfer_server.cpp:53-75).
THEOREM DeadlockFree == Spec => []NoDeadlock
<1>1. ASSUME WInv PROVE NoDeadlock
  BY <1>1, ServedGoesOn, BlockedIsHeard DEF NoDeadlock, ClientCan
<1> QED
  BY <1>1, Waiting, PTL
-----------------------------------------------------------------------------
(***************************************************************************)
(* Clients only go forward.                                                *)
(***************************************************************************)

\* The way client c still has to go: blocks, stages of the block, send() calls
\* of the transfer, bytes of the call.
Stage(p) == CASE p = "idle" -> 4 [] p = "connect" -> 3 [] p = "sending" -> 2
              [] p = "report" -> 1 [] OTHER -> 0
Remaining(c) ==
    << Len(Blocks[c]) + 1 - blk[c],
       Stage(pc[c]),
       IF pc[c] = "sending" THEN CallsOf(Current(c)) - call[c] ELSE 0,
       IF InCall(c) THEN NextLen(c) - off[c] ELSE 0 >>
Local(c) == <<pc[c], blk[c], call[c], off[c], sent[c]>>

\* Less to go: in lexicographic order.
Precedes(r, s) == \E n \in 1..4 : r[n] < s[n] /\ \A m \in 1..(n - 1) : r[m] = s[m]

\* A client is never set back: whatever changes in it, be it by its own step, a
\* short send(), a reset or a signal, leaves it less to do.  There is no retry,
\* so a client that goes on comes to its end.
OnlyForward ==
    [][\A c \in Clients : \/ Precedes(Remaining(c)', Remaining(c))
                          \/ UNCHANGED Local(c)]_vars
CanCount == \A c \in Clients : Remaining(c) \in Nat \X Nat \X Nat \X Nat

\* A client goes at most one block beyond its command line.
Within == \A c \in Clients : blk[c] <= Len(Blocks[c]) + 1

LEMMA WithinStep ==
    ASSUME TypeOK, OnBlock, Within, [Next]_vars
    PROVE  Within'
<1>1. ASSUME NEW c \in Clients, ClientSide(c) PROVE Within'
  <2>1. blk'[c] <= Len(Blocks[c]) + 1
    <3>1. CASE Report(c)
      <4>1. blk'[c] = blk[c] + 1 /\ MoreBlocks(c)
        BY <3>1 DEF Report, OnBlock, TypeOK
      <4>2. blk[c] \in Nat /\ Blocks[c] \in Seq(Nat)
        BY TransferAssumption DEF TypeOK
      <4> QED BY <4>1, <4>2 DEF MoreBlocks
    <3>2. CASE ~Report(c)
      BY <1>1, <3>2, Control DEF Within
    <3> QED BY <3>1, <3>2
  <2> QED BY <1>1, <2>1, ClientFrame DEF Within
<1>2. CASE ServerSide
  BY <1>2, ServerSideFrame DEF Within, clientVars
<1>3. CASE UNCHANGED vars
  BY <1>3 DEF Within, vars, clientVars
<1> QED
  BY <1>1, <1>2, <1>3, NextSplit

\* The four numbers of Remaining are natural: the order on them has no endless
\* descent.
LEMMA Counts ==
    ASSUME TypeOK, OnBlock, Accounted, Within
    PROVE  CanCount
<1> SUFFICES ASSUME NEW c \in Clients
             PROVE  Remaining(c) \in Nat \X Nat \X Nat \X Nat
  BY DEF CanCount
<1>1. blk[c] \in Nat /\ Len(Blocks[c]) \in Nat /\ call[c] \in Nat /\ off[c] \in Nat
  BY TransferAssumption DEF TypeOK
<1>2. Len(Blocks[c]) + 1 - blk[c] \in Nat
  BY <1>1 DEF Within
<1>3. Stage(pc[c]) \in Nat
  BY DEF Stage
<1>4. (IF pc[c] = "sending" THEN CallsOf(Current(c)) - call[c] ELSE 0) \in Nat
  <2>1. ASSUME pc[c] = "sending" PROVE CallsOf(Current(c)) - call[c] \in Nat
    <3>1. Current(c) \in Conn /\ call[c] <= CallsOf(Current(c))
      BY <2>1, CurrentFacts DEF OnBlock, Accounted, AccountOf
    <3>2. CallsOf(Current(c)) \in Nat
      BY <3>1, PlanFacts
    <3> QED BY <1>1, <3>1, <3>2
  <2> QED BY <2>1
<1>5. (IF InCall(c) THEN NextLen(c) - off[c] ELSE 0) \in Nat
  <2>1. ASSUME InCall(c) PROVE NextLen(c) - off[c] \in Nat
    <3>1. NextLen(c) \in Nat /\ off[c] < NextLen(c)
      BY <2>1, NextLenFacts DEF InCall, OnBlock, Accounted, AccountOf
    <3> QED BY <1>1, <3>1
  <2> QED BY <2>1
<1> QED
  BY <1>2, <1>3, <1>4, <1>5 DEF Remaining

\* What the first difference decides.
LEMMA First ==
    ASSUME NEW r, NEW s, NEW n \in 1..4, r[n] < s[n],
           \A m \in 1..(n - 1) : r[m] = s[m]
    PROVE  Precedes(r, s)
  BY DEF Precedes

LEMMA RemainingParts ==
    ASSUME NEW c
    PROVE  /\ Remaining(c)[1] = Len(Blocks[c]) + 1 - blk[c]
           /\ Remaining(c)[2] = Stage(pc[c])
           /\ Remaining(c)[3] =
                 IF pc[c] = "sending" THEN CallsOf(Current(c)) - call[c] ELSE 0
           /\ Remaining(c)[4] = IF InCall(c) THEN NextLen(c) - off[c] ELSE 0
  BY DEF Remaining

LEMMA RemainingPartsNext ==
    ASSUME NEW CONSTANT c
    PROVE  /\ Remaining(c)'[1] = Len(Blocks[c]) + 1 - blk'[c]
           /\ Remaining(c)'[2] = Stage(pc'[c])
           /\ Remaining(c)'[3] =
                 IF pc'[c] = "sending" THEN CallsOf(Current(c)') - call'[c] ELSE 0
           /\ Remaining(c)'[4] = IF InCall(c)' THEN NextLen(c)' - off'[c] ELSE 0
  BY DEF Remaining, CallsOf, Size, IsMsg

\* A step of a client leaves it less to do.
LEMMA ForwardStep ==
    ASSUME TypeOK, OnBlock, Accounted, NEW CONSTANT c \in Clients, ClientSide(c)
    PROVE  Precedes(Remaining(c)', Remaining(c))
<1>1. /\ blk[c] \in Nat /\ call[c] \in Nat /\ off[c] \in Nat
      /\ Len(Blocks[c]) \in Nat
  BY TransferAssumption DEF TypeOK
\* another block
<1>2. CASE Report(c)
  <2>1. blk'[c] = blk[c] + 1
    BY <1>2 DEF Report, TypeOK
  <2>2. Remaining(c)'[1] < Remaining(c)[1]
    BY <1>1, <2>1, RemainingParts, RemainingPartsNext
  <2> QED BY <2>2, First
\* another stage of the block, or the end of the process
<1>3. ASSUME blk'[c] = blk[c], Stage(pc'[c]) < Stage(pc[c])
      PROVE  Precedes(Remaining(c)', Remaining(c))
  <2>1. /\ Remaining(c)'[1] = Remaining(c)[1]
        /\ Remaining(c)'[2] < Remaining(c)[2]
    BY <1>3, RemainingParts, RemainingPartsNext
  <2> QED BY <2>1, First
<1>4. CASE OpenSocket(c) \/ Connect(c) \/ CloseSocket(c) \/ ExitOk(c)
  <2>1. /\ blk'[c] = blk[c]
        /\ \/ pc[c] = "idle" /\ pc'[c] \in {"connect", "ok"}
           \/ pc[c] = "connect" /\ pc'[c] = "sending"
           \/ pc[c] = "sending" /\ pc'[c] = "report"
    BY <1>4 DEF OpenSocket, Connect, CloseSocket, ExitOk, TypeOK
  <2>2. Stage(pc'[c]) < Stage(pc[c])
    BY <2>1 DEF Stage
  <2> QED BY <1>3, <2>1, <2>2
<1>5. CASE \/ BindFails(c) \/ SocketFails(c) \/ ConnectFails(c) \/ SendFails(c)
           \/ ClientKilled(c) \/ ClientVanishes(c)
  <2>1. /\ blk'[c] = blk[c]
        /\ pc[c] \in {"idle", "connect", "sending", "report"}
        /\ pc'[c] \in {"inuse", "failed", "sigpipe", "killed", "vanished"}
    BY <1>5 DEF BindFails, SocketFails, ConnectFails, SendFails, ClientKilled,
       ClientVanishes, InCall, CliRunning, TypeOK
  <2>2. Stage(pc'[c]) < Stage(pc[c])
    BY <2>1 DEF Stage
  <2> QED BY <1>3, <2>1, <2>2
\* another call of the transfer
<1>6. ASSUME InCall(c), pc'[c] = pc[c], blk'[c] = blk[c], call'[c] = call[c] + 1
      PROVE  Precedes(Remaining(c)', Remaining(c))
  <2>1. Current(c)' = Current(c) /\ pc[c] = "sending"
    BY <1>6 DEF Current, InCall
  <2>2. Current(c) \in Conn
    BY <2>1, CurrentFacts DEF OnBlock
  <2>3. CallsOf(Current(c)) \in Nat
    BY <2>2, PlanFacts
  <2>4. /\ Remaining(c)'[1] = Remaining(c)[1] /\ Remaining(c)'[2] = Remaining(c)[2]
        /\ Remaining(c)'[3] = CallsOf(Current(c)) - (call[c] + 1)
        /\ Remaining(c)[3] = CallsOf(Current(c)) - call[c]
    BY <1>6, <2>1, RemainingParts, RemainingPartsNext
  <2>5. Remaining(c)'[3] < Remaining(c)[3]
    BY <1>1, <2>3, <2>4
  <2>6. \A m \in 1..(3 - 1) : m = 1 \/ m = 2
    OBVIOUS
  <2> QED BY <2>4, <2>5, <2>6, First
<1>7. CASE SendCutByReset(c) \/ SendInterrupted(c)
  BY <1>6, <1>7 DEF SendCutByReset, SendInterrupted, Returned, clientVars, TypeOK
\* another byte of the call
<1>8. CASE Send(c)
  <2>1. InCall(c) /\ pc' = pc /\ blk' = blk
    BY <1>8 DEF Send
  <2>2. CASE Returned(c, NextLen(c))
    BY <1>6, <2>1, <2>2 DEF Returned, TypeOK
  <2>3. CASE off' = [off EXCEPT ![c] = off[c] + 1] /\ UNCHANGED <<call, sent>>
    <3>1. off'[c] = off[c] + 1
      BY <2>3 DEF TypeOK
    <3>2. Current(c)' = Current(c) /\ (InCall(c)' <=> InCall(c)) /\ NextLen(c)' = NextLen(c)
      BY <2>1, <2>3 DEF Current, InCall, NextLen, CallsOf, LenOf, Size, IsMsg
    <3>3. NextLen(c) \in Nat
      BY <2>1, NextLenFacts DEF InCall, OnBlock
    <3>4. /\ Remaining(c)'[1] = Remaining(c)[1] /\ Remaining(c)'[2] = Remaining(c)[2]
          /\ Remaining(c)'[3] = Remaining(c)[3]
          /\ Remaining(c)'[4] = NextLen(c) - (off[c] + 1)
          /\ Remaining(c)[4] = NextLen(c) - off[c]
      BY <2>1, <2>3, <3>1, <3>2, RemainingParts, RemainingPartsNext
    <3>5. Remaining(c)'[4] < Remaining(c)[4]
      BY <1>1, <3>3, <3>4
    <3>6. \A m \in 1..(4 - 1) : m = 1 \/ m = 2 \/ m = 3
      OBVIOUS
    <3> QED BY <3>4, <3>5, <3>6, First
  <2> QED BY <1>8, <2>2, <2>3 DEF Send
<1> QED
  BY <1>2, <1>4, <1>5, <1>7, <1>8 DEF ClientSide, ClientStep, ClientFault

\* The order on Remaining is one on natural numbers in every reachable state.
THEOREM RemainingCounts == Spec => []CanCount
<1>1. Init => Within
  BY TransferAssumption DEF Init, Within
<1>2. IInv /\ Within /\ [Next]_vars => Within'
  BY WithinStep DEF IInv
<1>3. IInv /\ Within => CanCount
  BY Counts DEF IInv
<1> QED
  BY <1>1, <1>2, <1>3, Invariance, PTL DEF Spec

\* No client is ever set back, however its calls end and whatever the server,
\* the network and signals do: client.cxx:95-102 and the loops of both
\* transfer() functions retry nothing.
THEOREM NeverSetBack == Spec => OnlyForward
<1>1. ASSUME IInv, [Next]_vars, NEW CONSTANT c \in Clients
      PROVE  Precedes(Remaining(c)', Remaining(c)) \/ UNCHANGED Local(c)
  <2>1. ASSUME NEW d \in Clients, ClientSide(d)
        PROVE  Precedes(Remaining(c)', Remaining(c)) \/ UNCHANGED Local(c)
    <3>1. CASE d = c
      BY <1>1, <2>1, <3>1, ForwardStep DEF IInv
    <3>2. CASE d # c
      BY <1>1, <2>1, <3>2, ClientFrame DEF IInv, Local
    <3> QED BY <3>1, <3>2
  <2>2. CASE ServerSide
    BY <2>2, ServerSideFrame DEF Local, clientVars
  <2>3. CASE UNCHANGED vars
    BY <2>3 DEF Local, vars, clientVars
  <2> QED BY <1>1, <2>1, <2>2, <2>3, NextSplit
<1>2. IInv /\ [Next]_vars =>
         [\A c \in Clients : \/ Precedes(Remaining(c)', Remaining(c))
                             \/ UNCHANGED Local(c)]_vars
  BY <1>1
<1> QED
  BY <1>2, Invariance, PTL DEF Spec, OnlyForward
==============================================================================
