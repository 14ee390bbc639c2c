-------------------------- MODULE FileTransferProps --------------------------
(***************************************************************************)
(* What the file-transfer pair promises.                                   *)
(***************************************************************************)
EXTENDS FileTransfer

FitsConn(k) == IsMsg(k) \/ Fits(Size(k), SendBuf[k[1]])

\* The bytes transfer k is asked for, and those the client's calls ask for.
Asked(k) == Size(k) * (IF IsMsg(k) THEN MsgLen ELSE KB)
PlanOf(k) == IF IsMsg(k) THEN Size(k) * MsgLen ELSE Planned(Size(k), SendBuf[k[1]])

Reported(k) == report[k] # NoReport
Vanished == \E c \in Clients : pc[c] = "vanished"

(***************************************************************************)
(* Invariants                                                              *)
(***************************************************************************)

\* The server takes a connection for finished (recv() returned 0) only after
\* the client has closed it and every byte the client's kernel took has been
\* read: a slow or short read is never mistaken for the end.
EofMeansAll ==
    \A k \in Conn : srv[k] = "eof" => cli[k] = "closed" /\ got[k] = copied[k]

\* The ksend_data a client prints is the number of bytes its kernel really
\* took for that connection, whatever was cut short or reset on the way.  (A
\* message client prints what it was asked.)
ReportIsTruth ==
    \A k \in Conn :
        Reported(k) => report[k] = IF IsMsg(k) THEN Size(k) ELSE copied[k] \div KB

\* A transfer falls short of its block or its messages only if its connection
\* was reset or a signal cut one of its send() calls short; so does its report,
\* and the unchecked count of a message client is wrong only then.
ShortOnlyIfBroken ==
    \A k \in Conn :
        Reported(k) /\ FitsConn(k) /\ ~rst[k] /\ k \notin cutShort
            => copied[k] = Asked(k) /\ report[k] = Size(k)

\* End to end: when the client reported block k and the server reached its end
\* of file, the server has received exactly the requested kilobytes or
\* messages, unless a signal cut a send() short.  No reset can make both sides
\* believe in success, also where the client drops the results of send().
EndToEnd ==
    \A k \in Conn :
        Reported(k) /\ srv[k] = "eof" /\ FitsConn(k) /\ k \notin cutShort
            => got[k] = Asked(k)

\* The server process never holds a second client descriptor: on every path
\* out of the loop body (end of file, error, signal) the accepted socket has
\* been closed before the next accept().
OneConnectionServed ==
    \A k \in Conn : srv[k] = "open" <=> spc \in {"recv", "drop"} /\ k = cur

\* Blocks of one client reach the server in command-line order, also when
\* several of its connections wait in the accept queue: when a connection has
\* been accepted or is over, every earlier one is over.
InOrder ==
    \A k, m \in Conn :
        k[1] = m[1] /\ k[2] < m[2] /\ srv[m] \notin {"none", "queued"}
            => srv[k] \notin {"queued", "open"}

\* A client has at most one connection open, the one of the block it is
\* sending, and none once its process has ended on its own.
ClientHoldsOne ==
    \A k \in Conn :
        cli[k] = "open" => /\ k = Current(k[1])
                           /\ pc[k[1]] \in {"sending", "vanished"}

\* Exit status 0 means that every block of the command line was reported: no
\* block that failed is passed over.
ExitZeroComplete ==
    \A c \in Clients : pc[c] = "ok" => \A k \in Conn : k[1] = c => Reported(k)

\* A send() has something left to write and no room for it.
Blocked(c) == LET k == Current(c) IN
    InCall(c) /\ ~rst[k] /\ copied[k] - got[k] >= SockBuf

\* A step of the client, of the server, of TCP is possible.
ClientCan(c) == pc[c] \in CliRunning /\ ~Blocked(c)
ServerCan ==
    \/ spc \in {"bound", "listening", "drop", "catch", "stop"}
    \/ spc = "accept" /\ queue # <<>>
    \/ spc = "recv" /\ (rst[cur] \/ got[cur] < copied[cur] \/ cli[cur] = "closed")
ResetComes(k) == srv[k] = "cut" /\ got[k] < copied[k] /\ ~rst[k]

\* Nobody waits for somebody who waits: whoever blocks in send() blocks behind
\* a server that goes on, or that waits in recv() for one client that goes on
\* or whose host is lost, or it will hear of a reset.  And a server in recv()
\* waits for no other client than these.
NoDeadlock ==
    /\ \A c \in Clients : pc[c] \in CliRunning =>
          \/ ClientCan(c) \/ ServerCan \/ ResetComes(Current(c))
          \/ spc = "recv" /\ (ClientCan(cur[1]) \/ pc[cur[1]] = "vanished")
    /\ spc = "recv" =>
          ServerCan \/ ClientCan(cur[1]) \/ pc[cur[1]] = "vanished"

(***************************************************************************)
(* Action properties                                                       *)
(***************************************************************************)

\* A server that listens stops only after a signal or by being killed, never
\* because of what happens on one client's connection; and one that is started
\* comes up unless a system call fails, whatever its predecessor left behind.
OnlyFaultsStopServer ==
    [][spc' \in SrvDown /\ (spc \in SrvUp \/ starts' # starts)
           => spc = "stop" \/ faults' > faults]_vars

(***************************************************************************)
(* Liveness, under FairSpec                                                *)
(***************************************************************************)

\* The server leaves every connection whose client's host is still there.
ServerReleased ==
    \A k \in Conn :
        srv[k] = "open" ~> srv[k] # "open" \/ pc[k[1]] = "vanished"

\* Every client process ends, unless the server waits for a vanished host.
ClientsEnd == \A c \in Clients : <>(pc[c] \in CliEnded \/ Vanished)

\* What a client has reported is read to its end by the server, unless the
\* connection was broken or the server stopped or waits for a vanished host.
ReportArrives ==
    \A k \in Conn :
        Reported(k) ~> srv[k] \in {"eof", "cut"} \/ rst[k] \/ Vanished

(***************************************************************************)
(* Statements of the repository that the code does not keep                *)
(***************************************************************************)

\* "each time a transfer is called , a new socket is created"
\* (file_transfer_client.cpp:14): after the first block of a client whose bind
\* address and port no other client uses, the next one gets its socket.
NextBlockBinds == \A c \in Clients : pc[c] = "inuse" => blk[c] = 1
==============================================================================
