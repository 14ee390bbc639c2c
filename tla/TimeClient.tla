------------------------------ MODULE TimeClient ------------------------------
(***************************************************************************)
(* `time_client`: one connection, on which transfer_time() sends full      *)
(* buffers until a deadline has passed or SIGINT arrives, and then prints  *)
(* how many bytes it sent and how long that took (time_client.cxx).        *)
(*                                                                         *)
(* Bytes are counted; the clock counts milliseconds from the reading       *)
(* `begin`.  The peer is the server of FileTransfer as this client sees    *)
(* it: it reads when it gets to this connection, which may be never.       *)
(***************************************************************************)
EXTENDS Integers

CONSTANTS
    Times,      \* values tried for the option time; 0 and below: no deadline
    Buf,        \* option send_buffer
    SockBuf,    \* bytes the kernel buffers between send() and the peer
    Rate,       \* bytes the kernel takes per millisecond, at most
    MaxClock,   \* bound on the clock
    Faults,     \* the kinds of fault the environment may inject
    MaxFaults   \* bound on the number of injected faults

FaultKinds == {"sigint", "kill", "reset", "interrupt"}

ASSUME TimeAssumption ==
    /\ Times \subseteq Int
    /\ Buf \in Nat \ {0}
    /\ SockBuf \in Nat \ {0}
    /\ Rate \in Nat \ {0}
    /\ MaxClock \in Nat
    /\ Faults \subseteq FaultKinds
    /\ MaxFaults \in Nat

VARIABLES
    pc,         \* control point, or how the process ended
    time,       \* config.time
    clock,      \* milliseconds since `begin`
    off,        \* bytes taken by the send() call in progress
    sent,       \* the local variable `sent`
    dur,        \* the duration transfer_time returns
    printed,    \* sent and dur have been printed
    masked,     \* SIGINT is blocked: the loop was left through its handler
    taken,      \* bytes the kernel has taken from the process
    got,        \* bytes the peer has read
    rst,        \* the connection has been reset
    cuts,       \* send() calls that returned less than the buffer
    late,       \* send() calls that returned after the deadline
    faults      \* faults injected so far

connVars == <<taken, got, rst>>
histVars == <<cuts, late>>
loopVars == <<off, sent, dur, printed>>
vars == <<pc, time, clock, loopVars, masked, connVars, histVars, faults>>

Ended   == {"exit0", "exit1", "aborted", "killed"}
SetUp   == {"setup", "connected"}          \* SIGINT has its default action
InTry   == {"loop", "send"}                \* inside the try block
Outside == {"start", "finish", "print", "exit"}   \* handler set, no try block

TypeOK ==
    /\ pc \in SetUp \cup InTry \cup Outside \cup Ended
    /\ time \in Times
    /\ clock \in 0..MaxClock
    /\ off \in 0..Buf
    /\ sent \in Nat
    /\ dur \in Nat
    /\ printed \in BOOLEAN
    /\ masked \in BOOLEAN
    /\ taken \in Nat
    /\ got \in Nat
    /\ rst \in BOOLEAN
    /\ cuts \in Nat
    /\ late \in Nat
    /\ faults \in 0..MaxFaults

Init ==
    /\ pc = "setup"
    /\ time \in Times
    /\ clock = 0 /\ off = 0 /\ sent = 0 /\ dur = 0
    /\ printed = FALSE /\ masked = FALSE
    /\ taken = 0 /\ got = 0 /\ rst = FALSE
    /\ cuts = 0 /\ late = 0 /\ faults = 0

Fault(f) == /\ f \in Faults
            /\ faults < MaxFaults
            /\ faults' = faults + 1

DeadlinePassed == time > 0 /\ clock >= time

Goto(l) == pc' = l /\ UNCHANGED <<time, masked>>
-----------------------------------------------------------------------------
(***************************************************************************)
(* transfer() and transfer_time()                                          *)
(***************************************************************************)
\* Socket, options, bind, connect and buffer; an error ends main() with -1.
OpenAndConnect ==
    /\ pc = "setup"
    /\ Goto("connected") \/ Goto("exit1")
    /\ UNCHANGED <<clock, loopVars, connVars, histVars, faults>>

\* TermSignal::regist()
Regist ==
    /\ pc = "connected"
    /\ Goto("start")
    /\ UNCHANGED <<clock, loopVars, connVars, histVars, faults>>

\* begin = now(): the clock of the model starts.
ReadBegin ==
    /\ pc = "start"
    /\ Goto("loop")
    /\ UNCHANGED <<clock, loopVars, connVars, histVars, faults>>

\* Mutated form: off by one millisecond.
TestDeadlineEarly ==
    /\ pc = "loop"
    /\ IF time > 0 /\ clock >= time - 1 THEN Goto("finish") ELSE Goto("send")
    /\ off' = 0
    /\ UNCHANGED <<clock, sent, dur, printed, connVars, histVars, faults>>

\* Mutated form: the deadline is forgotten.
TestNoDeadline ==
    /\ pc = "loop"
    /\ Goto("send")
    /\ off' = 0
    /\ UNCHANGED <<clock, sent, dur, printed, connVars, histVars, faults>>

\* The top of the loop reads the clock, and breaks or enters send().
TestDeadline ==
    /\ pc = "loop"
    /\ IF DeadlinePassed THEN Goto("finish") ELSE Goto("send")
    /\ off' = 0
    /\ UNCHANGED <<clock, sent, dur, printed, connVars, histVars, faults>>

\* Mutated form: the send() in progress takes a byte past the buffer.
TakeByteTooMany ==
    /\ pc = "send" /\ off <= Buf
    /\ ~rst /\ taken - got < SockBuf
    /\ taken < Rate * (clock + 1)
    /\ off' = off + 1
    /\ taken' = taken + 1
    /\ UNCHANGED <<pc, time, clock, sent, dur, printed, masked, got, rst,
                   histVars, faults>>

\* The blocking send() takes one more byte when there is room.
TakeByte ==
    /\ pc = "send" /\ off < Buf
    /\ ~rst /\ taken - got < SockBuf
    /\ taken < Rate * (clock + 1)
    /\ off' = off + 1
    /\ taken' = taken + 1
    /\ UNCHANGED <<pc, time, clock, sent, dur, printed, masked, got, rst,
                   histVars, faults>>

\* Mutated form: what is sent past the deadline is not counted.
CountInTime ==
    /\ sent' = IF DeadlinePassed THEN sent ELSE sent + Buf
    /\ late' = late + (IF DeadlinePassed THEN 1 ELSE 0)
    /\ Goto("loop")

\* `sent += buf_size`, whatever send() returned; back to the top.
Count ==
    /\ sent' = sent + Buf
    /\ late' = late + (IF DeadlinePassed THEN 1 ELSE 0)
    /\ Goto("loop")

\* send() has taken the whole buffer.
SendReturns ==
    /\ pc = "send" /\ off = Buf
    /\ Count
    /\ UNCHANGED <<clock, off, dur, printed, connVars, cuts, faults>>

\* send() returns less: a reset after part of the buffer was taken ...
SendCutByReset ==
    /\ pc = "send" /\ off \in 1..(Buf - 1)
    /\ rst
    /\ Count
    /\ cuts' = cuts + 1
    /\ UNCHANGED <<clock, off, dur, printed, connVars, faults>>

\* ... or a signal other than SIGINT (a job-control stop).
SendInterrupted ==
    /\ pc = "send" /\ off \in 1..(Buf - 1)
    /\ Fault("interrupt")
    /\ Count
    /\ cuts' = cuts + 1
    /\ UNCHANGED <<clock, off, dur, printed, connVars>>

\* send() on a reset connection: only KeyboardInterrupt is caught in the loop,
\* main() returns -1 (ECONNRESET) or SIGPIPE kills (EPIPE).
SendFails ==
    /\ pc = "send" /\ off = 0
    /\ rst
    /\ Goto("exit1") \/ Goto("killed")
    /\ UNCHANGED <<clock, loopVars, connVars, histVars, faults>>

\* Behind the loop: the clock is read again for the duration.
Finish ==
    /\ pc = "finish"
    /\ dur' = clock
    /\ Goto("print")
    /\ UNCHANGED <<clock, off, sent, printed, connVars, histVars, faults>>

PrintResult ==
    /\ pc = "print"
    /\ printed' = TRUE
    /\ Goto("exit")
    /\ UNCHANGED <<clock, off, sent, dur, connVars, histVars, faults>>

\* The socket is closed and main() returns 0.
Exit ==
    /\ pc = "exit"
    /\ Goto("exit0")
    /\ UNCHANGED <<clock, loopVars, connVars, histVars, faults>>
-----------------------------------------------------------------------------
(***************************************************************************)
(* Signals                                                                 *)
(***************************************************************************)
\* SIGINT before regist(): the default action kills.
SigintEarly ==
    /\ pc \in SetUp
    /\ Fault("sigint")
    /\ Goto("killed")
    /\ UNCHANGED <<clock, loopVars, connVars, histVars>>

\* Mutated form: the handler goes on with the loop.
SigintContinues ==
    /\ pc \in InTry /\ ~masked
    /\ Fault("sigint")
    /\ pc' = "loop"
    /\ masked' = TRUE
    /\ UNCHANGED <<time, clock, loopVars, connVars, histVars>>

\* SIGINT in the try block: the handler throws, `catch` breaks out of the loop.
\* It may hit send() with any part of the buffer taken, the whole of it
\* included: `sent` does not get to know.  Left by an exception, the handler
\* leaves SIGINT blocked.
SigintCaught ==
    /\ pc \in InTry /\ ~masked
    /\ Fault("sigint")
    /\ pc' = "finish"
    /\ masked' = TRUE
    /\ UNCHANGED <<time, clock, loopVars, connVars, histVars>>

\* Mutated form: SIGINT is not left blocked.
SigintOutsideAgain ==
    /\ pc \in Outside
    /\ Fault("sigint")
    /\ Goto("exit1") \/ Goto("aborted")
    /\ UNCHANGED <<clock, loopVars, connVars, histVars>>

\* SIGINT after regist() but outside the try block: the exception reaches the
\* handler of std::exception in main(), which returns -1, or std::terminate.
SigintOutside ==
    /\ pc \in Outside /\ ~masked
    /\ Fault("sigint")
    /\ Goto("exit1") \/ Goto("aborted")
    /\ UNCHANGED <<clock, loopVars, connVars, histVars>>

\* SIGINT in the try block, in a noexcept function or not at a call site.
SigintTerminates ==
    /\ pc \in InTry /\ ~masked
    /\ Fault("sigint")
    /\ Goto("aborted")
    /\ UNCHANGED <<clock, loopVars, connVars, histVars>>

\* SIGKILL or SIGTERM
Killed ==
    /\ pc \notin Ended
    /\ Fault("kill")
    /\ Goto("killed")
    /\ UNCHANGED <<clock, loopVars, connVars, histVars>>
-----------------------------------------------------------------------------
(***************************************************************************)
(* Clock, peer and network                                                 *)
(***************************************************************************)
\* Milliseconds pass.  That is an idealisation: high_resolution_clock is the
\* system clock in libstdc++, and a system clock may be set back or forward
\* between two readings.  OneLateCall and NotEarly speak of runs in which
\* nobody sets it.
Tick ==
    /\ pc \in InTry \cup {"finish", "print"}
    /\ clock < MaxClock
    /\ clock' = clock + 1
    /\ UNCHANGED <<pc, time, loopVars, masked, connVars, histVars, faults>>

PeerReads ==
    /\ ~rst /\ got < taken
    /\ \E n \in 1..(taken - got) : got' = got + n
    /\ UNCHANGED <<pc, time, clock, loopVars, masked, taken, rst, histVars,
                   faults>>

Reset ==
    /\ pc \notin SetUp \cup Ended /\ ~rst
    /\ Fault("reset")
    /\ rst' = TRUE
    /\ UNCHANGED <<pc, time, clock, loopVars, masked, taken, got, histVars>>

\* The process has ended, or waits in send() for a peer that does not read.
Quiet ==
    /\ pc \in Ended \/ (pc = "send" /\ off < Buf /\ ~rst)
    /\ UNCHANGED vars

ClientStep ==
    \/ OpenAndConnect \/ Regist \/ ReadBegin \/ TestDeadline \/ TakeByte
    \/ SendReturns \/ SendCutByReset \/ SendFails
    \/ Finish \/ PrintResult \/ Exit

Signal ==
    \/ SigintEarly \/ SigintCaught \/ SigintOutside \/ SigintTerminates
    \/ SendInterrupted \/ Killed

Next == ClientStep \/ Signal \/ Tick \/ PeerReads \/ Reset \/ Quiet

Spec == Init /\ [][Next]_vars

\* The scheduler runs the client, and time passes.
FairSpec == Spec /\ WF_vars(ClientStep) /\ WF_vars(Tick)
-----------------------------------------------------------------------------
(***************************************************************************)
(* Properties                                                              *)
(***************************************************************************)

\* Bytes the count may claim too many: less than a buffer per short send().
Allowance == cuts * (Buf - 1)

\* How far the printed count may be off.  It may miss bytes only after SIGINT,
\* and then at most the one buffer in progress; it may claim bytes that were
\* never taken only for send() calls that returned less than the buffer, and
\* then less than a buffer for each.
CountError ==
    printed =>
        /\ taken - sent <= (IF masked THEN Buf ELSE 0)
        /\ sent - taken <= Allowance

\* At most one send() returns after the deadline: the check at the top of the
\* loop is stale by the time of the send() it allows, and by no more than that.
OneLateCall == late <= 1

\* A run that was not interrupted is never shorter than the option asked for.
NotEarly == printed /\ time > 0 /\ ~masked => dur >= time

\* Once SIGINT has broken the loop no further SIGINT can lose the result by
\* sending the program into the error exit of main().
InterruptKeepsResult == masked => pc \notin {"exit1", "aborted"}

\* SIGINT caught in the loop leads to a printed result, even while the peer
\* has stopped reading, unless the process is killed.
InterruptGivesResult == masked ~> printed \/ pc = "killed"

\* A run with a deadline ends if the peer goes on reading, as the server does
\* once it has accepted the connection, and whatever else happens.
ServedRunEnds == WF_vars(PeerReads) => (time > 0 ~> pc \in Ended)

\* "sent duration(us)" (time_client.cxx:94): what is printed under "sent" was
\* sent.
SentWasSent == printed => sent <= taken
==============================================================================
