---------------------------- MODULE FileTransfer ----------------------------
(***************************************************************************)
(* The ping-pong pair of the repository: client processes, each of which   *)
(* makes a list of transfers over one fresh connection per transfer, and   *)
(* the single-threaded `server`, which accepts one connection at a time    *)
(* and drains it until end of file (server.cxx,                            *)
(* FileTransferServer::listen_and_transfer).  A client is                  *)
(*   - `client`, which transfers blocks of so many KB and counts what      *)
(*     send() took (client.cxx, FileTransferClient::transfer), or          *)
(*   - `msg_client`, which sends msg_num messages of 1428 bytes on each of *)
(*     socket_num connections and looks at no result (msg_client.cxx,      *)
(*     FileMsgClient::transfer).                                           *)
(*                                                                         *)
(* Bytes are counted, not represented.  A connection is named by the pair  *)
(* <<client, block number>>.  The kernel (sockets, accept queue, process   *)
(* teardown, signals) is modelled from how the code uses it.               *)
(***************************************************************************)
EXTENDS ChunkPlan, Sequences

CONSTANTS
    Clients,    \* the client processes
    MsgClients, \* those of them that run msg_client
    MsgLen,     \* length of a message: 1428 in the code
    Blocks,     \* Blocks[c]: the block sizes (KB) on the command line of c;
                \* of a message client, socket_num times msg_num
    SendBuf,    \* SendBuf[c]: option send_buffer of c
    BindAddr,   \* BindAddr[c]: is option bind_address of c non-empty?
    BindPort,   \* BindPort[c]: option bind_port of c, 0 when not given
    RecvBuf,    \* option recv_buffer of the server
    SockBuf,    \* bytes the kernel buffers between one send() and recv()
    Backlog,    \* the argument of listen(): 3 in the code
    Faults,     \* the kinds of fault the environment may inject
    MaxFaults,  \* bound on the number of injected faults
    MaxStarts,  \* bound on the number of times the server is started
    NoConn      \* "no connection"

Conn == UNION {{c} \X (1..Len(Blocks[c])) : c \in Clients}

FaultKinds == {"sigint", "kill", "accept", "socket", "reset", "interrupt",
               "clientkill", "vanish"}

ASSUME TransferAssumption ==
    /\ MsgClients \subseteq Clients
    /\ MsgLen \in Nat \ {0}
    /\ Blocks \in [Clients -> Seq(Nat)]
    /\ SendBuf \in [Clients -> Nat \ {0}]
    /\ BindAddr \in [Clients -> BOOLEAN]
    /\ \A c \in MsgClients : ~BindAddr[c]
    /\ BindPort \in [Clients -> Nat]
    /\ RecvBuf \in Nat \ {0}
    /\ SockBuf \in Nat \ {0}
    /\ Backlog \in Nat
    /\ Faults \subseteq FaultKinds
    /\ MaxFaults \in Nat
    /\ MaxStarts \in Nat
    /\ NoConn \notin Conn

VARIABLES
    \* server process
    spc,        \* control point, or how the last server process ended
    cur,        \* the connection client_sock owns
    starts,     \* server processes started so far
    \* kernel
    queue,      \* accept queue of the listening socket
    cli,        \* cli[k]: client endpoint of k
    srv,        \* srv[k]: server endpoint of k
    copied,     \* copied[k]: bytes send() has taken from the client
    got,        \* got[k]: bytes recv() has given to the server
    rst,        \* rst[k]: connection k has been reset
    \* client processes
    pc,         \* control point, or how the process ended
    blk,        \* number of the block being transferred
    call,       \* send() calls that have returned in this transfer
    off,        \* bytes taken by the send() call in progress
    sent,       \* the local variable `sent`; history in a message client
    report,     \* report[k]: ksend_data or send_msg_num of transfer k
    \* environment
    cutShort,   \* transfers in which a signal cut a send() short
    faults      \* faults injected so far

serverVars == <<spc, cur, starts>>
connVars   == <<queue, cli, srv, copied, got, rst>>
clientVars == <<pc, blk, call, off, sent, report, cutShort>>
vars == <<serverVars, connVars, clientVars, faults>>

NoReport == -1

SrvDown    == {"unstarted", "exit0", "exit1", "aborted", "killed"}
SrvUp      == {"bound", "listening", "accept", "recv", "drop", "catch", "stop"}
CliEnded   == {"ok", "failed", "inuse", "sigpipe", "killed", "vanished"}
CliRunning == {"idle", "connect", "sending", "report"}

TypeOK ==
    /\ spc \in SrvDown \cup SrvUp
    /\ cur \in Conn \cup {NoConn}
    /\ starts \in 0..MaxStarts
    /\ queue \in Seq(Conn)
    /\ cli \in [Conn -> {"none", "open", "closed"}]
    /\ srv \in [Conn -> {"none", "queued", "open", "eof", "err", "cut"}]
    /\ copied \in [Conn -> Nat]
    /\ got \in [Conn -> Nat]
    /\ rst \in [Conn -> BOOLEAN]
    /\ pc \in [Clients -> CliRunning \cup CliEnded]
    /\ blk \in [Clients -> Nat \ {0}]
    /\ call \in [Clients -> Nat]
    /\ off \in [Clients -> Nat]
    /\ sent \in [Clients -> Nat]
    /\ report \in [Conn -> Nat \cup {NoReport}]
    /\ cutShort \subseteq Conn
    /\ faults \in 0..MaxFaults

Init ==
    /\ spc = "unstarted" /\ cur = NoConn /\ starts = 0
    /\ queue = <<>>
    /\ cli = [k \in Conn |-> "none"]
    /\ srv = [k \in Conn |-> "none"]
    /\ copied = [k \in Conn |-> 0]
    /\ got = [k \in Conn |-> 0]
    /\ rst = [k \in Conn |-> FALSE]
    /\ pc = [c \in Clients |-> "idle"]
    /\ blk = [c \in Clients |-> 1]
    /\ call = [c \in Clients |-> 0]
    /\ off = [c \in Clients |-> 0]
    /\ sent = [c \in Clients |-> 0]
    /\ report = [k \in Conn |-> NoReport]
    /\ cutShort = {}
    /\ faults = 0

\* The environment injects a fault of kind f.
Fault(f) == /\ f \in Faults
            /\ faults < MaxFaults
            /\ faults' = faults + 1

Min2(m, n) == IF m <= n THEN m ELSE n

-----------------------------------------------------------------------------
(***************************************************************************)
(* Client: the loop over the blocks in main() and one transfer().          *)
(***************************************************************************)
Current(c) == <<c, blk[c]>>
Size(k) == Blocks[k[1]][k[2]]
MoreBlocks(c) == blk[c] <= Len(Blocks[c])
IsMsg(k) == k[1] \in MsgClients

\* The send() calls of transfer k, and the length call number n asks for.
CallsOf(k) == IF IsMsg(k) THEN Size(k) ELSE Calls(Size(k), SendBuf[k[1]])
LenOf(k, n) == IF IsMsg(k) THEN MsgLen ELSE CallLen(Size(k), SendBuf[k[1]], n)

NextLen(c) == LenOf(Current(c), call[c])
InCall(c) == pc[c] = "sending" /\ call[c] < CallsOf(Current(c))

\* The port bind() is asked for; without a bind address, as in a message
\* client, bind() is not called and the kernel picks an ephemeral port (0).
LocalPort(c) == IF BindAddr[c] THEN BindPort[c] ELSE 0

\* A socket of this host holds port p.
PortHeld(p) ==
    \/ \E k \in Conn : LocalPort(k[1]) = p /\ cli[k] = "open"
    \/ \E d \in Clients : LocalPort(d) = p /\ pc[d] = "connect"

\* A closed connection may still hold port p: the endpoint that closed first
\* stays in FIN-WAIT and TIME-WAIT until a timer the model leaves open.
PortMayLinger(p) ==
    \E k \in Conn : LocalPort(k[1]) = p /\ cli[k] = "closed" /\ ~rst[k]

\* transfer() enters its block: socket, options and bind succeed.
OpenSocket(c) ==
    /\ pc[c] = "idle" /\ MoreBlocks(c)
    /\ LocalPort(c) # 0 => ~PortHeld(LocalPort(c))
    /\ pc' = [pc EXCEPT ![c] = "connect"]
    /\ call' = [call EXCEPT ![c] = 0]
    /\ off' = [off EXCEPT ![c] = 0]
    /\ sent' = [sent EXCEPT ![c] = 0]
    /\ UNCHANGED <<serverVars, connVars, blk, report, cutShort, faults>>

\* bind() answers EADDRINUSE; the exception ends main() with -1.
BindFails(c) ==
    /\ pc[c] = "idle" /\ MoreBlocks(c)
    /\ LocalPort(c) # 0
    /\ PortHeld(LocalPort(c)) \/ PortMayLinger(LocalPort(c))
    /\ pc' = [pc EXCEPT ![c] = "inuse"]
    /\ UNCHANGED <<serverVars, connVars, blk, call, off, sent, report,
                   cutShort, faults>>

\* socket() or setsockopt() fails, or the MPTCP version is unknown.
SocketFails(c) ==
    /\ pc[c] = "idle" /\ MoreBlocks(c)
    /\ Fault("socket")
    /\ pc' = [pc EXCEPT ![c] = "failed"]
    /\ UNCHANGED <<serverVars, connVars, blk, call, off, sent, report, cutShort>>

Listening == spc \in SrvUp \ {"bound"}
QueueFull == Len(queue) > Backlog

\* connect(): the handshake completes in the accept queue, before accept().
Connect(c) ==
    /\ pc[c] = "connect"
    /\ Listening /\ ~QueueFull
    /\ pc' = [pc EXCEPT ![c] = "sending"]
    /\ cli' = [cli EXCEPT ![Current(c)] = "open"]
    /\ srv' = [srv EXCEPT ![Current(c)] = "queued"]
    /\ queue' = Append(queue, Current(c))
    /\ UNCHANGED <<serverVars, copied, got, rst, blk, call, off, sent, report,
                   cutShort, faults>>

\* ECONNREFUSED, or ETIMEDOUT while the accept queue stays full.
ConnectFails(c) ==
    /\ pc[c] = "connect"
    /\ ~Listening \/ QueueFull
    /\ pc' = [pc EXCEPT ![c] = "failed"]
    /\ UNCHANGED <<serverVars, connVars, blk, call, off, sent, report,
                   cutShort, faults>>

\* Mutated form: the caller counts the bytes it asked for.
ReturnedAsked(c, n) ==
    /\ call' = [call EXCEPT ![c] = @ + 1]
    /\ off' = [off EXCEPT ![c] = 0]
    /\ sent' = [sent EXCEPT ![c] = @ + NextLen(c)]

\* `sent += client_sock->send(...)`: a send() that took n bytes returns n.
Returned(c, n) ==
    /\ call' = [call EXCEPT ![c] = @ + 1]
    /\ off' = [off EXCEPT ![c] = 0]
    /\ sent' = [sent EXCEPT ![c] = @ + n]

\* The blocking send() in progress takes one more byte when there is room;
\* with the last byte it returns.
Send(c) ==
    LET k == Current(c) IN
    /\ InCall(c)
    /\ ~rst[k] /\ copied[k] - got[k] < SockBuf
    /\ copied' = [copied EXCEPT ![k] = @ + 1]
    /\ IF off[c] + 1 = NextLen(c)
       THEN Returned(c, NextLen(c))
       ELSE off' = [off EXCEPT ![c] = @ + 1] /\ UNCHANGED <<call, sent>>
    /\ UNCHANGED <<serverVars, queue, cli, srv, got, rst, pc, blk, report,
                   cutShort, faults>>

\* A reset after part of the buffer was taken: send() returns that part.
SendCutByReset(c) ==
    /\ InCall(c) /\ off[c] > 0
    /\ rst[Current(c)]
    /\ Returned(c, off[c])
    /\ UNCHANGED <<serverVars, connVars, pc, blk, report, cutShort, faults>>

\* A signal (a job-control stop) after part of the buffer was taken: send()
\* returns that part, and the loop goes on with the next full buffer.
SendInterrupted(c) ==
    /\ InCall(c) /\ off[c] > 0
    /\ Fault("interrupt")
    /\ Returned(c, off[c])
    /\ cutShort' = cutShort \cup {Current(c)}
    /\ UNCHANGED <<serverVars, connVars, pc, blk, report>>

\* Mutated form: a negative result of send() is not checked, and counted.
SendFailsUnchecked(c) ==
    /\ InCall(c) /\ off[c] = 0
    /\ rst[Current(c)]
    /\ Returned(c, -1)
    /\ UNCHANGED <<serverVars, connVars, pc, blk, report, cutShort, faults>>

\* Mutated form: main() catches the error inside its loop and goes on.
SendFailsSkipsBlock(c) ==
    /\ InCall(c) /\ off[c] = 0
    /\ rst[Current(c)]
    /\ pc' = [pc EXCEPT ![c] = "idle"]
    /\ blk' = [blk EXCEPT ![c] = @ + 1]
    /\ cli' = [cli EXCEPT ![Current(c)] = "closed"]
    /\ UNCHANGED <<serverVars, queue, srv, copied, got, rst, call, off, sent,
                   report, cutShort, faults>>

\* send() on a reset connection: ECONNRESET is thrown, the socket is closed by
\* unwinding and main() returns -1; EPIPE comes with SIGPIPE, which kills.
SendFails(c) ==
    /\ InCall(c) /\ off[c] = 0
    /\ rst[Current(c)]
    /\ \E end \in {"failed", "sigpipe"} : pc' = [pc EXCEPT ![c] = end]
    /\ cli' = [cli EXCEPT ![Current(c)] = "closed"]
    /\ UNCHANGED <<serverVars, queue, srv, copied, got, rst, blk, call, off,
                   sent, report, cutShort, faults>>

\* Mutated form: client_sock outlives the block and the transfer.
CloseSocketLate(c) ==
    /\ pc[c] = "sending"
    /\ call[c] = CallsOf(Current(c))
    /\ pc' = [pc EXCEPT ![c] = "report"]
    /\ UNCHANGED <<serverVars, connVars, blk, call, off, sent, report, cutShort,
                   faults>>

\* The block ends: client_sock is destroyed, its descriptor closed.
CloseSocket(c) ==
    /\ pc[c] = "sending"
    /\ call[c] = CallsOf(Current(c))
    /\ pc' = [pc EXCEPT ![c] = "report"]
    /\ cli' = [cli EXCEPT ![Current(c)] = "closed"]
    /\ UNCHANGED <<serverVars, queue, srv, copied, got, rst, blk, call, off,
                   sent, report, cutShort, faults>>

\* The number of messages asked for, or sent >> 10
Result(c) == IF IsMsg(Current(c)) THEN Size(Current(c)) ELSE sent[c] \div KB

\* TransferRes or MsgTransferRes is returned, the loop takes the next block.
Report(c) ==
    /\ pc[c] = "report"
    /\ report' = [report EXCEPT ![Current(c)] = Result(c)]
    /\ blk' = [blk EXCEPT ![c] = @ + 1]
    /\ pc' = [pc EXCEPT ![c] = "idle"]
    /\ UNCHANGED <<serverVars, connVars, call, off, sent, cutShort, faults>>

\* All blocks done: return 0.
ExitOk(c) ==
    /\ pc[c] = "idle" /\ ~MoreBlocks(c)
    /\ pc' = [pc EXCEPT ![c] = "ok"]
    /\ UNCHANGED <<serverVars, connVars, blk, call, off, sent, report,
                   cutShort, faults>>

\* SIGINT (the client keeps its default action) or another fatal signal: the
\* kernel closes the socket, and sends the same FIN as after a full transfer.
ClientKilled(c) ==
    /\ pc[c] \in CliRunning
    /\ Fault("clientkill")
    /\ pc' = [pc EXCEPT ![c] = "killed"]
    /\ cli' = IF pc[c] = "sending" THEN [cli EXCEPT ![Current(c)] = "closed"]
                                   ELSE cli
    /\ UNCHANGED <<serverVars, queue, srv, copied, got, rst, blk, call, off,
                   sent, report, cutShort>>

\* The client's host is lost: no FIN and no RST will ever come.
ClientVanishes(c) ==
    /\ pc[c] = "sending"
    /\ Fault("vanish")
    /\ pc' = [pc EXCEPT ![c] = "vanished"]
    /\ UNCHANGED <<serverVars, connVars, blk, call, off, sent, report, cutShort>>

ClientStep(c) ==
    \/ OpenSocket(c) \/ BindFails(c) \/ Connect(c) \/ ConnectFails(c)
    \/ Send(c) \/ SendCutByReset(c) \/ SendFails(c)
    \/ CloseSocket(c) \/ Report(c) \/ ExitOk(c)

ClientFault(c) ==
    \/ SocketFails(c) \/ SendInterrupted(c) \/ ClientKilled(c)
    \/ ClientVanishes(c)
-----------------------------------------------------------------------------
(***************************************************************************)
(* Server.                                                                 *)
(***************************************************************************)
\* A server that went first leaves the server's port in FIN-WAIT or TIME-WAIT.
PortLingers == \E k \in Conn : srv[k] = "cut" /\ ~rst[k]

\* Mutated form: SO_REUSEADDR is not set, bind() answers EADDRINUSE.
ServerStartWithoutReuse ==
    /\ spc \in SrvDown /\ starts < MaxStarts
    /\ starts' = starts + 1
    /\ \/ spc' = "bound" /\ ~PortLingers /\ UNCHANGED faults
       \/ spc' = "exit1" /\ PortLingers /\ UNCHANGED faults
       \/ spc' = "exit1" /\ Fault("socket")
    /\ UNCHANGED <<cur, connVars, clientVars>>

\* main() and the constructor: socket, SO_REUSEADDR, bind.  With that option
\* bind() succeeds also while connections of the last process linger.
ServerStart ==
    /\ spc \in SrvDown /\ starts < MaxStarts
    /\ starts' = starts + 1
    /\ \/ spc' = "bound" /\ UNCHANGED faults
       \/ spc' = "exit1" /\ Fault("socket")
    /\ UNCHANGED <<cur, connVars, clientVars>>

\* create_buffer and listen(3), which may fail; main() returns -1 then.
ServerListen ==
    /\ spc = "bound"
    /\ \/ spc' = "listening" /\ UNCHANGED faults
       \/ spc' = "exit1" /\ Fault("socket")
    /\ UNCHANGED <<cur, starts, connVars, clientVars>>

\* TermSignal::regist()
ServerRegist ==
    /\ spc = "listening"
    /\ spc' = "accept"
    /\ UNCHANGED <<cur, starts, connVars, clientVars, faults>>

\* Mutated form: the newest completed connection is taken first.
ServerAcceptNewest ==
    LET newest == queue[Len(queue)] IN
    /\ spc = "accept" /\ queue # <<>>
    /\ spc' = "recv"
    /\ cur' = newest
    /\ queue' = SubSeq(queue, 1, Len(queue) - 1)
    /\ srv' = [srv EXCEPT ![newest] = "open"]
    /\ UNCHANGED <<starts, cli, copied, got, rst, clientVars, faults>>

\* accept() returns the oldest completed connection.
ServerAccept ==
    /\ spc = "accept" /\ queue # <<>>
    /\ spc' = "recv"
    /\ cur' = Head(queue)
    /\ queue' = Tail(queue)
    /\ srv' = [srv EXCEPT ![Head(queue)] = "open"]
    /\ UNCHANGED <<starts, cli, copied, got, rst, clientVars, faults>>

\* accept() fails (for instance EMFILE): system_error is caught in the loop.
ServerAcceptFails ==
    /\ spc = "accept"
    /\ Fault("accept")
    /\ spc' = "catch"
    /\ UNCHANGED <<cur, starts, connVars, clientVars>>

\* recv() returns up to recv_buffer of the bytes that are there.
ServerRecv ==
    /\ spc = "recv"
    /\ \E n \in 1..Min2(RecvBuf, copied[cur] - got[cur]) :
          got' = [got EXCEPT ![cur] = @ + n]
    /\ UNCHANGED <<serverVars, queue, cli, srv, copied, rst, clientVars, faults>>

\* Mutated form: a recv() that finds no more bytes is taken for the end.
ServerEofWhenDrained ==
    /\ spc = "recv"
    /\ got[cur] = copied[cur] /\ ~rst[cur]
    /\ spc' = "drop"
    /\ UNCHANGED <<cur, starts, connVars, clientVars, faults>>

\* Mutated form: a result of 0 is retried.
ServerEofRetried ==
    /\ spc = "recv"
    /\ got[cur] = copied[cur] /\ cli[cur] = "closed" /\ ~rst[cur]
    /\ UNCHANGED vars

\* recv() returns 0: break.
ServerEof ==
    /\ spc = "recv"
    /\ got[cur] = copied[cur] /\ cli[cur] = "closed" /\ ~rst[cur]
    /\ spc' = "drop"
    /\ UNCHANGED <<cur, starts, connVars, clientVars, faults>>

\* The server gives up the connection it serves; `how` says why.
ReleaseCur(how) ==
    /\ cur' = NoConn
    /\ srv' = [srv EXCEPT ![cur] = how]

\* End of the try block: client_sock is destroyed.
ServerDrop ==
    /\ spc = "drop"
    /\ spc' = "accept"
    /\ ReleaseCur("eof")
    /\ UNCHANGED <<starts, queue, cli, copied, got, rst, clientVars, faults>>

\* Mutated form: the error is taken for the end of the stream.
ServerRecvFailsAsEof ==
    /\ spc = "recv" /\ rst[cur]
    /\ spc' = "drop"
    /\ UNCHANGED <<cur, starts, connVars, clientVars, faults>>

\* Mutated form: recv() is retried on the broken connection.
ServerRecvFailsRetried ==
    /\ spc = "recv" /\ rst[cur]
    /\ UNCHANGED vars

\* Mutated form: the accepted descriptor is a plain int that nobody closes.
ServerRecvFailsLeaks ==
    /\ spc = "recv" /\ rst[cur]
    /\ spc' = "catch"
    /\ cur' = NoConn
    /\ UNCHANGED <<starts, connVars, clientVars, faults>>

\* Mutated form: system_error is not caught in the loop.
ServerRecvFailsUncaught ==
    /\ spc = "recv" /\ rst[cur]
    /\ spc' = "exit1"
    /\ ReleaseCur("err")
    /\ UNCHANGED <<starts, queue, cli, copied, got, rst, clientVars, faults>>

\* recv() fails: unwinding destroys client_sock, the handler prints.
ServerRecvFails ==
    /\ spc = "recv" /\ rst[cur]
    /\ spc' = "catch"
    /\ ReleaseCur("err")
    /\ UNCHANGED <<starts, queue, cli, copied, got, rst, clientVars, faults>>

\* The handler of system_error ends, the loop goes on.
ServerCatch ==
    /\ spc = "catch"
    /\ spc' = "accept"
    /\ UNCHANGED <<cur, starts, connVars, clientVars, faults>>

\* The server process ends and the kernel closes its sockets: connections
\* nobody accepted are reset, and so is one with unread bytes.  A connection
\* whose end of file was read ends as such.
ServerDies(how) ==
    /\ spc' = how
    /\ cur' = NoConn
    /\ queue' = <<>>
    /\ srv' = [k \in Conn |->
                   IF srv[k] = "open" /\ spc = "drop" THEN "eof"
                   ELSE IF srv[k] \in {"queued", "open"} THEN "cut"
                   ELSE srv[k]]
    /\ rst' = [k \in Conn |-> \/ rst[k]
                              \/ srv[k] = "queued"
                              \/ srv[k] = "open" /\ copied[k] > got[k]]

\* After the loop: buffer and listening socket are released, main() returns.
\* Since the SIGINT handler was left by an exception, SIGINT is still blocked.
ServerExit ==
    /\ spc = "stop"
    /\ ServerDies("exit0")
    /\ UNCHANGED <<starts, cli, copied, got, clientVars, faults>>

\* SIGINT before regist() finds the default action and kills.
SigintEarly ==
    /\ spc \in {"bound", "listening"}
    /\ Fault("sigint")
    /\ ServerDies("killed")
    /\ UNCHANGED <<starts, cli, copied, got, clientVars>>

\* SIGINT in the try block: the handler throws KeyboardInterrupt.  Out of a
\* call the unwinder knows it reaches the handler that leaves the loop, and
\* unwinding closes client_sock.
SigintCaught ==
    /\ spc \in {"accept", "recv", "drop"}
    /\ Fault("sigint")
    /\ spc' = "stop"
    /\ \/ /\ spc = "accept"
          /\ UNCHANGED <<cur, srv, rst>>
       \/ /\ spc = "recv"
          /\ ReleaseCur("cut")
          /\ rst' = [rst EXCEPT ![cur] = @ \/ copied[cur] > got[cur]]
       \/ /\ spc = "drop"
          /\ ReleaseCur("eof")
          /\ UNCHANGED rst
    /\ UNCHANGED <<starts, queue, cli, copied, got, clientVars>>

\* SIGINT while the system_error handler prints: no catch clause is active in
\* listen_and_transfer, main() catches std::exception and returns -1.
SigintInHandler ==
    /\ spc = "catch"
    /\ Fault("sigint")
    /\ ServerDies("exit1")
    /\ UNCHANGED <<starts, cli, copied, got, clientVars>>

\* SIGINT in a noexcept function or at an instruction that is not a call site:
\* throwing from there is undefined, this build calls std::terminate.
SigintTerminates ==
    /\ spc \in {"accept", "recv", "drop", "catch"}
    /\ Fault("sigint")
    /\ ServerDies("aborted")
    /\ UNCHANGED <<starts, cli, copied, got, clientVars>>

\* SIGKILL or SIGTERM
ServerKilled ==
    /\ spc \in SrvUp
    /\ Fault("kill")
    /\ ServerDies("killed")
    /\ UNCHANGED <<starts, cli, copied, got, clientVars>>

ServerStep ==
    \/ ServerListen \/ ServerRegist \/ ServerAccept \/ ServerRecv \/ ServerEof
    \/ ServerDrop \/ ServerRecvFails \/ ServerCatch \/ ServerExit

ServerFault ==
    \/ ServerAcceptFails \/ SigintEarly \/ SigintCaught \/ SigintInHandler
    \/ SigintTerminates \/ ServerKilled
-----------------------------------------------------------------------------
(***************************************************************************)
(* Network.                                                                *)
(***************************************************************************)
\* Bytes that reach an endpoint the server has closed are answered by a reset.
PeerReset(k) ==
    /\ srv[k] = "cut" /\ copied[k] > got[k] /\ ~rst[k]
    /\ rst' = [rst EXCEPT ![k] = TRUE]
    /\ UNCHANGED <<serverVars, queue, cli, srv, copied, got, clientVars, faults>>

\* A live connection is reset from outside.
NetReset(k) ==
    /\ cli[k] = "open" \/ srv[k] \in {"queued", "open"}
    /\ ~rst[k]
    /\ Fault("reset")
    /\ rst' = [rst EXCEPT ![k] = TRUE]
    /\ UNCHANGED <<serverVars, queue, cli, srv, copied, got, clientVars>>

\* The only states in which nothing more happens by itself: every client has
\* ended and the server waits in accept() or is down; or the server waits in
\* recv() for a client that vanished, and send() blocks behind it.
Quiet ==
    /\ \A c \in Clients : pc[c] \in CliEnded \/ InCall(c)
    /\ \/ /\ spc \in SrvDown \/ (spc = "accept" /\ queue = <<>>)
          /\ \A c \in Clients : pc[c] \in CliEnded
       \/ spc = "recv" /\ pc[cur[1]] = "vanished"
    /\ UNCHANGED vars

Next ==
    \/ \E c \in Clients : ClientStep(c) \/ ClientFault(c)
    \/ ServerStart \/ ServerStep \/ ServerFault
    \/ \E k \in Conn : PeerReset(k) \/ NetReset(k)
    \/ Quiet

Spec == Init /\ [][Next]_vars

(***************************************************************************)
(* The scheduler runs every process that can run, TCP gives up on a        *)
(* handshake and answers data to a closed socket.  Nothing is assumed of   *)
(* faults, signals and (re)starts of the server.                           *)
(***************************************************************************)
Fairness ==
    /\ \A c \in Clients : WF_vars(ClientStep(c))
    /\ WF_vars(ServerStep)
    /\ \A k \in Conn : WF_vars(PeerReset(k))

FairSpec == Spec /\ Fairness
==============================================================================
