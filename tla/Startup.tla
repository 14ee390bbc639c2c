------------------------------- MODULE Startup -------------------------------
(***************************************************************************)
(* The start of each program of the repository, from main() to its working *)
(* loop: the options, the kind of socket they ask for, and the resources   *)
(* in the order in which the code takes them.  Any step may fail; what was *)
(* taken is released then and the process ends.                            *)
(*                                                                         *)
(* A program is "client" (client.cxx), "msg" (msg_client.cxx), "timed"     *)
(* (time_client.cxx), "ecf" (both ECF clients) or "server".  The kernel    *)
(* knows version 0 of MPTCP (the out-of-tree one, a socket option),        *)
(* version 1 (a protocol of its own), both or none; one that knows version *)
(* 0 may make every TCP socket an MPTCP socket by default.                 *)
(***************************************************************************)
EXTENDS Integers, Sequences

CONSTANTS Versions,  \* values of option version
          Buffers,   \* values of option send_buffer or recv_buffer
          Kernels    \* what the kernel knows

Programs  == {"client", "msg", "timed", "ecf", "server"}
Lines     == {"ok", "help", "bad", "nofile"}
Addresses == {"empty", "good", "bad"}

ASSUME StartupAssumption ==
    /\ Versions \subseteq Int
    /\ Buffers \subseteq Nat
    /\ Kernels \subseteq [v0 : BOOLEAN, v1 : BOOLEAN, always : BOOLEAN]
    /\ \A k \in Kernels : k.always => k.v0

Options == [line : Lines, tcp : BOOLEAN, version : Versions, buf : Buffers,
            address : Addresses, bind : Addresses]

VARIABLES prog,    \* the program
          opt,     \* its command line
          kernel,  \* the kernel it runs on
          pc,      \* where it is, or how it ended
          at,      \* steps of its set-up done
          sock,    \* the kind of its socket
          seen     \* what others can have noticed of it

vars == <<prog, opt, kernel, pc, at, sock, seen>>

\* A process that ended: status 0 after the help text, -1, SIGABRT, SIGFPE.
Ended == {"shown", "failed", "aborted", "trapped"}

TypeOK ==
    /\ prog \in Programs /\ opt \in Options /\ kernel \in Kernels
    /\ pc \in {"main", "setup", "loop"} \cup Ended
    /\ at \in Nat
    /\ sock \in {"none", "plain", "mptcp0", "mptcp1"}
    /\ seen \subseteq {"connection", "listener"}

Init ==
    /\ prog \in Programs /\ opt \in Options /\ kernel \in Kernels
    /\ opt.line = "nofile" => prog = "ecf"
    /\ pc = "main" /\ at = 0 /\ sock = "none" /\ seen = {}

\* Mutated form: the server listens before it has a buffer.
OrderListenFirst ==
    [client |-> <<"divide", "socket", "option", "bind", "connect">>,
     msg    |-> <<"socket", "option", "connect">>,
     timed  |-> <<"socket", "option", "bind", "connect", "buffer">>,
     ecf    |-> <<"socket", "option", "bind", "connect", "buffer">>,
     server |-> <<"socket", "option", "reuse", "bind", "listen", "buffer">>]

\* The order in which a program takes what it needs.
Order ==
    [client |-> <<"divide", "socket", "option", "bind", "connect">>,
     msg    |-> <<"socket", "option", "connect">>,
     timed  |-> <<"socket", "option", "bind", "connect", "buffer">>,
     ecf    |-> <<"socket", "option", "bind", "connect", "buffer">>,
     server |-> <<"socket", "option", "reuse", "bind", "buffer", "listen">>]
-----------------------------------------------------------------------------
AtStep(step) == /\ pc = "setup" /\ at < Len(Order[prog])
                /\ Order[prog][at + 1] = step

Done == at' = at + 1 /\ pc' = pc

Ends(how) == pc' = how /\ at' = at

\* A system call fails or an exception is thrown; main() returns -1.
Fails == Ends("failed") /\ UNCHANGED <<prog, opt, kernel, sock, seen>>

\* The options are parsed; `file` of an ECF client is an assertion.
ReadLine ==
    /\ pc = "main"
    /\ \/ opt.line = "ok" /\ pc' = "setup"
       \/ opt.line = "help" /\ pc' = "shown"
       \/ opt.line = "bad" /\ pc' = "failed"
       \/ opt.line = "nofile" /\ pc' = "aborted"
    /\ UNCHANGED <<prog, opt, kernel, at, sock, seen>>

\* (kbytes << 10) / send_buffer, an integer division
DivideBlock ==
    /\ AtStep("divide")
    /\ IF opt.buf = 0 THEN Ends("trapped") ELSE Done
    /\ UNCHANGED <<prog, opt, kernel, sock, seen>>

Multipath == ~opt.tcp

\* socket(AF_INET, SOCK_STREAM, 0) gives what the kernel makes of TCP.
DefaultKind == IF kernel.always THEN "mptcp0" ELSE "plain"

OpenSocket ==
    /\ AtStep("socket") /\ Done
    /\ \/ ~(Multipath /\ opt.version # 0) /\ sock' = DefaultKind
       \/ Multipath /\ opt.version = 1 /\ kernel.v1 /\ sock' = "mptcp1"
    /\ UNCHANGED <<prog, opt, kernel, seen>>

\* An unknown version, a kernel without version 1, or no socket to be had.
SocketFails == AtStep("socket") /\ Fails

\* Mutated form: the result of setsockopt() is not looked at.
SetOptionUnchecked ==
    /\ AtStep("option") /\ Done
    /\ sock' = IF opt.version = 0 /\ kernel.v0
               THEN IF Multipath THEN "mptcp0" ELSE "plain"
               ELSE sock
    /\ UNCHANGED <<prog, opt, kernel, seen>>

\* With version 0 the socket option MPTCP_ENABLED is switched on or off.
SetOption ==
    /\ AtStep("option") /\ Done
    /\ \/ opt.version # 0 /\ sock' = sock
       \/ /\ opt.version = 0 /\ kernel.v0
          /\ sock' = IF Multipath THEN "mptcp0" ELSE "plain"
    /\ UNCHANGED <<prog, opt, kernel, seen>>

SetOptionFails == AtStep("option") /\ opt.version = 0 /\ Fails

SetReuseAddr ==
    /\ AtStep("reuse")
    /\ Done \/ Ends("failed")
    /\ UNCHANGED <<prog, opt, kernel, sock, seen>>

\* Only the file client leaves out bind() when there is no address to bind to.
Bind ==
    /\ AtStep("bind")
    /\ opt.bind # "bad" /\ Done
    /\ UNCHANGED <<prog, opt, kernel, sock, seen>>

BindFails ==
    /\ AtStep("bind")
    /\ prog = "client" => opt.bind # "empty"
    /\ Fails

Connect ==
    /\ AtStep("connect") /\ opt.address # "bad"
    /\ Done /\ seen' = seen \cup {"connection"}
    /\ UNCHANGED <<prog, opt, kernel, sock>>

ConnectFails == AtStep("connect") /\ Fails

\* create_buffer(): an empty buffer is an assertion, no memory an exception.
CreateBuffer ==
    /\ AtStep("buffer")
    /\ \/ opt.buf > 0 /\ Done
       \/ opt.buf > 0 /\ Ends("failed")
       \/ opt.buf = 0 /\ Ends("aborted")
    /\ UNCHANGED <<prog, opt, kernel, sock, seen>>

Listen ==
    /\ AtStep("listen")
    /\ \/ Done /\ seen' = seen \cup {"listener"}
       \/ Ends("failed") /\ UNCHANGED seen
    /\ UNCHANGED <<prog, opt, kernel, sock>>

EnterLoop ==
    /\ pc = "setup" /\ at = Len(Order[prog])
    /\ pc' = "loop"
    /\ UNCHANGED <<prog, opt, kernel, at, sock, seen>>

\* The process has ended, or works.
Over == pc \in Ended \cup {"loop"} /\ UNCHANGED vars

Next ==
    \/ ReadLine \/ DivideBlock \/ OpenSocket \/ SocketFails \/ SetOption
    \/ SetOptionFails \/ SetReuseAddr \/ Bind \/ BindFails \/ Connect
    \/ ConnectFails \/ CreateBuffer \/ Listen \/ EnterLoop \/ Over

Spec == Init /\ [][Next]_vars
-----------------------------------------------------------------------------
\* A program that works has a socket of the kind it was asked for: it never goes
\* on with one of plain TCP because its kernel lacks the MPTCP version.  (An MPTCP
\* socket may still fall back in the handshake, which the program cannot see.)
\* The one hole is TCP with a version other than 0, the default: MPTCP is not
\* switched off then on a kernel where it is on by default.
AskedProtocol ==
    pc = "loop" =>
        /\ Multipath => \/ opt.version = 0 /\ sock = "mptcp0"
                        \/ opt.version = 1 /\ sock = "mptcp1"
        /\ opt.tcp => \/ sock = "plain"
                      \/ sock = "mptcp0" /\ opt.version # 0 /\ kernel.always

\* A start that comes to nothing is not noticed by anybody: no client ever got
\* through to such a server, and no server saw a connection of such a client.
\* The exception is a timed or ECF client, which needs its buffer last.
StartsClean ==
    pc \in Ended /\ seen # {} => prog \in {"timed", "ecf"} /\ seen = {"connection"}
==============================================================================
