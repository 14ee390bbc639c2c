------------------------------- MODULE EcfClient -------------------------------
(***************************************************************************)
(* `ecfexp_client2`: the blocks of a file, one after the other over one    *)
(* connection, each with a pause before it and with scripts that run       *)
(* before and after it (ecfexp_client2.cxx, utils::run_cmd).               *)
(* `ecfexp_client` is the same program without scripts.                    *)
(*                                                                         *)
(* A script runs in a shell that popen() forks while the connection is     *)
(* open, so the shell and what it leaves in the background hold the        *)
(* connection too.  Bytes are counted; pauses are left out, as any step    *)
(* of the model may take any time.                                         *)
(***************************************************************************)
EXTENDS ChunkPlan, Sums, Sequences

CONSTANTS
    Files,      \* block files to try: sequences of Line and BadLine
    BadLine,    \* a line that does not parse
    Scripts,    \* number of option scripts given
    SendBuf,    \* option send_buffer
    SockBuf,    \* bytes the kernel buffers between send() and the peer
    Faults,     \* the kinds of fault the environment may inject
    MaxFaults   \* bound on the number of injected faults

\* size in KB, script numbers before and after, negative for none
Line == [size : Nat, before : Int, after : Int]

FaultKinds == {"kill", "reset", "interrupt", "fork", "background", "script"}

ASSUME EcfAssumption ==
    /\ Files \subseteq Seq(Line \cup {BadLine})
    /\ BadLine \notin Line
    /\ Scripts \in Nat
    /\ SendBuf \in Nat \ {0}
    /\ SockBuf \in Nat \ {0}
    /\ Faults \subseteq FaultKinds
    /\ MaxFaults \in Nat

VARIABLES
    pc,         \* control point, or how the process ended
    blocks,     \* what read_blocks() has made of the file
    i,          \* number of the block in hand
    call,       \* send() calls that have returned in this block
    off,        \* bytes taken by the send() call in progress
    rows,       \* rows printed
    chld,       \* disposition of SIGCHLD
    oldsig,     \* the disposition the process was started with
    shell,      \* the shell of the last run_cmd()
    left,       \* background processes left by scripts, not on the pipe
    piped,      \* background processes left by scripts that hold the pipe
    taken,      \* bytes the kernel has taken from the process
    got,        \* bytes the peer has read
    link,       \* the connection: none, up, or eof once the peer has read its end
    rst,        \* the connection has been reset
    cuts,       \* blocks in which a send() returned less than it was given
    faults      \* faults injected so far

blockVars  == <<blocks, i, call, off, rows>>
scriptVars == <<chld, oldsig, shell, left, piped>>
connVars   == <<taken, got, link, rst>>
vars == <<pc, blockVars, scriptVars, connVars, cuts, faults>>

Ended    == {"exit0", "exit1", "aborted", "crashed", "killed"}
InScript == {"runbefore", "runafter"}

TypeOK ==
    /\ pc \in {"start", "setup", "next", "before", "send", "after"}
              \cup InScript \cup Ended
    /\ blocks \in Seq(Line)
    /\ i \in Nat \ {0}
    /\ call \in Nat /\ off \in Nat /\ rows \in Nat
    /\ chld \in {"dfl", "ign"} /\ oldsig \in {"dfl", "ign"}
    /\ shell \in {"none", "running", "ok", "failed"}
    /\ left \in Nat /\ piped \in Nat
    /\ taken \in Nat /\ got \in Nat
    /\ link \in {"none", "up", "eof"} /\ rst \in BOOLEAN
    /\ cuts \subseteq 1..Len(blocks)
    /\ faults \in 0..MaxFaults

Init ==
    /\ pc = "start" /\ blocks = <<>> /\ i = 1
    /\ call = 0 /\ off = 0 /\ rows = 0
    /\ oldsig \in {"dfl", "ign"} /\ chld = oldsig
    /\ shell = "none" /\ left = 0 /\ piped = 0
    /\ taken = 0 /\ got = 0 /\ link = "none" /\ rst = FALSE
    /\ cuts = {} /\ faults = 0

Fault(f) == /\ f \in Faults
            /\ faults < MaxFaults
            /\ faults' = faults + 1
-----------------------------------------------------------------------------
(***************************************************************************)
(* main() and transfer()                                                   *)
(***************************************************************************)
\* Mutated form: the loop over `peek() != eof` takes the bad line for a block.
ReadBlocksToEnd ==
    /\ pc = "start"
    /\ \E file \in Files : blocks' = file
    /\ pc' = "setup"
    /\ UNCHANGED <<i, call, off, rows, scriptVars, connVars, cuts, faults>>

\* Extraction stops for good at the first line that does not parse: what
\* stands before it is the experiment.
ReadBlocks ==
    /\ pc = "start"
    /\ \E file \in Files : \E n \in 0..Len(file) :
          /\ \A m \in 1..n : file[m] # BadLine
          /\ n < Len(file) => file[n + 1] = BadLine
          /\ blocks' = SubSeq(file, 1, n)
    /\ pc' = "setup"
    /\ UNCHANGED <<i, call, off, rows, scriptVars, connVars, cuts, faults>>

\* The file cannot be opened: read_blocks() throws, main() returns -1.
NoBlockFile ==
    /\ pc = "start"
    /\ pc' = "exit1"
    /\ UNCHANGED <<blockVars, scriptVars, connVars, cuts, faults>>

\* Socket, options, bind, connect and buffer; an error ends main() with -1.
OpenAndConnect ==
    /\ pc = "setup"
    /\ \/ pc' = "next" /\ link' = "up"
       \/ pc' = "exit1" /\ UNCHANGED link
    /\ UNCHANGED <<blockVars, scriptVars, taken, got, rst, cuts, faults>>

\* Mutated form: the last block is left out.
NextButLast ==
    /\ pc = "next"
    /\ pc' = IF i < Len(blocks) THEN "before" ELSE "exit0"
    /\ UNCHANGED <<blockVars, scriptVars, connVars, cuts, faults>>

\* The loop over the blocks, the total behind it, and return 0.
NextBlock ==
    /\ pc = "next"
    /\ pc' = IF i <= Len(blocks) THEN "before" ELSE "exit0"
    /\ UNCHANGED <<blockVars, scriptVars, connVars, cuts, faults>>

\* No script is asked for here.
SkipScript(here, then, n) ==
    /\ pc = here /\ n < 0
    /\ pc' = then
    /\ UNCHANGED <<scriptVars, connVars, cuts, faults>>

\* scripts.at() throws std::out_of_range; main() returns -1.
NoSuchScript(here, n) ==
    /\ pc = here /\ n >= Scripts
    /\ pc' = "exit1"
    /\ UNCHANGED <<blockVars, scriptVars, connVars, cuts, faults>>

\* Mutated form: SIGCHLD is left as it was inherited.
StartScriptAsIs(here, run, n) ==
    /\ pc = here /\ n \in 0..(Scripts - 1)
    /\ \/ pc' = run /\ shell' = "running" /\ UNCHANGED <<chld, faults>>
       \/ pc' = "crashed" /\ Fault("fork") /\ UNCHANGED <<shell, chld>>
    /\ UNCHANGED <<blockVars, oldsig, left, piped, connVars, cuts>>

\* run_cmd() sets SIGCHLD to its default and calls popen(); when that fails,
\* fgets() is called with a null pointer.
StartScript(here, run, n) ==
    /\ pc = here /\ n \in 0..(Scripts - 1)
    /\ chld' = "dfl"
    /\ \/ pc' = run /\ shell' = "running" /\ UNCHANGED faults
       \/ pc' = "crashed" /\ Fault("fork") /\ UNCHANGED shell
    /\ UNCHANGED <<blockVars, oldsig, left, piped, connVars, cuts>>

\* Mutated form: every process the script has started is waited for.
ScriptAllDone(run) ==
    /\ pc = run
    /\ shell \in {"ok", "failed"} /\ piped = 0 /\ left = 0

\* Mutated form: the shell is waited for, the end of its output is not.
ScriptDoneWithShell(run) ==
    /\ pc = run
    /\ shell \in {"ok", "failed"}

\* fgets() has seen the end of the output, which nobody holds open any more,
\* and pclose() has found the shell ended.
ScriptDone(run) ==
    /\ pc = run
    /\ shell \in {"ok", "failed"} /\ piped = 0

\* pclose() gives the status of the shell, unless SIGCHLD is ignored and the
\* kernel has dropped it.
Succeeded == shell = "ok" /\ chld = "dfl"

\* run_cmd() returns true.
ScriptSucceeds(run, then) ==
    /\ ScriptDone(run) /\ Succeeded
    /\ chld' = oldsig
    /\ pc' = then
    /\ UNCHANGED <<oldsig, shell, left, piped, connVars, cuts, faults>>

\* run_cmd() returns false and the assert aborts.
ScriptFails(run) ==
    /\ ScriptDone(run) /\ ~Succeeded
    /\ chld' = oldsig
    /\ pc' = "aborted"
    /\ UNCHANGED <<blockVars, oldsig, shell, left, piped, connVars, cuts, faults>>

\* Mutated form: the counters of the loop are not reset.
BeginSendAgain == UNCHANGED blockVars

\* transfer_block() is entered.
BeginSend == /\ call' = 0 /\ off' = 0
             /\ UNCHANGED <<blocks, i, rows>>

\* The block is done with: the next one.
BlockDone == /\ i' = i + 1
             /\ UNCHANGED <<blocks, call, off, rows>>

ScriptBefore ==
    LET n == blocks[i].before IN
    \/ SkipScript("before", "send", n) /\ BeginSend
    \/ NoSuchScript("before", n)
    \/ StartScript("before", "runbefore", n)

ScriptAfter ==
    LET n == blocks[i].after IN
    \/ SkipScript("after", "next", n) /\ BlockDone
    \/ NoSuchScript("after", n)
    \/ StartScript("after", "runafter", n)

RunCmdReturns ==
    \/ ScriptSucceeds("runbefore", "send") /\ BeginSend
    \/ ScriptSucceeds("runafter", "next") /\ BlockDone
    \/ \E run \in InScript : ScriptFails(run)
-----------------------------------------------------------------------------
(***************************************************************************)
(* transfer_block(): the results of send() are not looked at.              *)
(***************************************************************************)
CallsNow == Calls(blocks[i].size, SendBuf)
LenNow == CallLen(blocks[i].size, SendBuf, call)
InCall == pc = "send" /\ call < CallsNow

\* The blocking send() takes one more byte; with the last one it returns.
TakeByte ==
    /\ InCall
    /\ ~rst /\ taken - got < SockBuf
    /\ taken' = taken + 1
    /\ IF off + 1 = LenNow THEN call' = call + 1 /\ off' = 0
                           ELSE off' = off + 1 /\ UNCHANGED call
    /\ UNCHANGED <<pc, blocks, i, rows, scriptVars, got, link, rst, cuts, faults>>

\* send() returns less than it was given, and nobody looks: after a reset ...
CutShort ==
    /\ InCall /\ off > 0
    /\ call' = call + 1 /\ off' = 0
    /\ cuts' = cuts \cup {i}
    /\ UNCHANGED <<pc, blocks, i, rows, scriptVars, connVars>>

SendCutByReset == rst /\ CutShort /\ UNCHANGED faults

\* ... or a signal (a job-control stop).
SendInterrupted == CutShort /\ Fault("interrupt")

\* send() on a reset connection throws, main() returns -1; or SIGPIPE kills.
SendFails ==
    /\ InCall /\ off = 0
    /\ rst
    /\ pc' \in {"exit1", "killed"}
    /\ UNCHANGED <<blockVars, scriptVars, connVars, cuts, faults>>

\* transfer_block() returns and the row of the block is printed.
PrintRow ==
    /\ pc = "send" /\ call = CallsNow
    /\ rows' = rows + 1
    /\ pc' = "after"
    /\ UNCHANGED <<blocks, i, call, off, scriptVars, connVars, cuts, faults>>

\* SIGINT, which this client leaves at its default, or another fatal signal.
Killed ==
    /\ pc \notin Ended
    /\ Fault("kill")
    /\ pc' = "killed"
    /\ UNCHANGED <<blockVars, scriptVars, connVars, cuts>>

ClientStep ==
    \/ ReadBlocks \/ NoBlockFile \/ OpenAndConnect \/ NextBlock
    \/ ScriptBefore \/ ScriptAfter \/ RunCmdReturns
    \/ TakeByte \/ SendCutByReset \/ SendFails \/ PrintRow
-----------------------------------------------------------------------------
(***************************************************************************)
(* Scripts, peer and network                                               *)
(***************************************************************************)
ShellEnds ==
    /\ shell = "running"
    /\ \/ shell' = "ok" /\ UNCHANGED faults
       \/ shell' = "failed" /\ Fault("script")
    /\ UNCHANGED <<pc, blockVars, chld, oldsig, left, piped, connVars, cuts>>

\* The script starts a process in the background, with its output redirected
\* or on the pipe.
LeavesProcess ==
    /\ shell = "running"
    /\ Fault("background")
    /\ \/ left' = left + 1 /\ UNCHANGED piped
       \/ piped' = piped + 1 /\ UNCHANGED left
    /\ UNCHANGED <<pc, blockVars, chld, oldsig, shell, connVars, cuts>>

\* Such a process ends, or not.
LeftEnds ==
    /\ \/ left > 0 /\ left' = left - 1 /\ UNCHANGED piped
       \/ piped > 0 /\ piped' = piped - 1 /\ UNCHANGED left
    /\ UNCHANGED <<pc, blockVars, chld, oldsig, shell, connVars, cuts, faults>>

\* The last descriptor of the connection is closed: the client has ended, and
\* so has every process that inherited the socket.
SocketClosed ==
    pc \in Ended /\ shell # "running" /\ left = 0 /\ piped = 0

PeerReads ==
    /\ ~rst /\ got < taken
    /\ \E n \in 1..(taken - got) : got' = got + n
    /\ UNCHANGED <<pc, blockVars, scriptVars, taken, link, rst, cuts, faults>>

PeerEof ==
    /\ link = "up" /\ ~rst /\ got = taken
    /\ SocketClosed
    /\ link' = "eof"
    /\ UNCHANGED <<pc, blockVars, scriptVars, taken, got, rst, cuts, faults>>

Reset ==
    /\ link = "up" /\ ~rst
    /\ Fault("reset")
    /\ rst' = TRUE
    /\ UNCHANGED <<pc, blockVars, scriptVars, taken, got, link, cuts>>

\* The run is over, or waits for a background process that holds the pipe.
Quiet ==
    /\ pc \in Ended \/ (pc \in InScript /\ piped > 0)
    /\ UNCHANGED vars

Next ==
    \/ ClientStep \/ SendInterrupted \/ Killed
    \/ ShellEnds \/ LeavesProcess \/ LeftEnds
    \/ PeerReads \/ PeerEof \/ Reset \/ Quiet

Spec == Init /\ [][Next]_vars

\* The client runs, its scripts end and the peer reads up to the end of the
\* stream; what scripts leave in the background need not end.
FairSpec ==
    /\ Spec
    /\ WF_vars(ClientStep) /\ WF_vars(ShellEnds)
    /\ WF_vars(PeerReads \/ PeerEof)
-----------------------------------------------------------------------------
(***************************************************************************)
(* Properties                                                              *)
(***************************************************************************)
\* The bytes the first n blocks plan to send.
PlannedUpTo(n) == SumOf([m \in Nat |-> Planned(blocks[m + 1].size, SendBuf)])[n]

\* No script runs in the middle of a block: the rows are those of the blocks
\* before the one in hand when its before script runs, and its own too when its
\* after script runs; and exactly the bytes of these blocks have been handed
\* over, as long as no send() was cut short.
ScriptsBetweenBlocks ==
    pc \in InScript => /\ rows = IF pc = "runbefore" THEN i - 1 ELSE i
                       /\ cuts = {} => taken = PlannedUpTo(rows)

\* Exit status 0 means one row for every line up to the first bad one, and
\* every byte of them handed over unless a send() was cut short.
ExitZeroComplete ==
    pc = "exit0" => /\ rows = Len(blocks)
                    /\ cuts = {} => taken = PlannedUpTo(rows)

\* The assert of a script aborts only if the script failed, also when the
\* process was started with SIGCHLD ignored.
AbortMeansFailure == pc = "aborted" => shell = "failed"

\* run_cmd() comes back only when the shell and every process on its output are
\* gone.  So while a block is sent, and after a run that was not killed, nobody
\* holds the connection beside the client but processes that a script has left
\* with their output redirected: run_cmd() does not look for these.
RunCmdWaits ==
    pc \notin InScript \cup {"killed"} => shell # "running" /\ piped = 0

\* The run ends, unless a script has left a process on its output; and after it
\* the peer sees the end of the connection, unless that was reset or a process
\* that a script has left still holds it: behind a run that was not killed only
\* one whose output was redirected.
RunEnds ==
    /\ <>(pc \in Ended \/ piped > 0)
    /\ pc \in Ended ~> \/ link # "up" \/ rst
                       \/ left > 0
                       \/ pc = "killed" /\ piped > 0
=============================================================================
