-------------------------------- MODULE ExpRun --------------------------------
(***************************************************************************)
(* One experiment script: a directory of experiments (blocks times         *)
(* repetitions), one client after the other.                               *)
(*   - exp_client_to_server2.py ("measure") stores the first line a client *)
(*     prints in a file of its own;                                        *)
(*   - exp_client_to_server.py ("capture") runs tcpdump around the client. *)
(* The script may be run again, with directories of earlier runs on disk.  *)
(* What a client prints and how it ends is FileTransfer's; here it ends    *)
(* with a row, with "send error!" (sock.h:170 prints it to the standard    *)
(* output), or silently.                                                   *)
(***************************************************************************)
EXTENDS Integers, Sequences

CONSTANTS
    Dirs,       \* names of experiment directories
    Count,      \* experiments per directory: len(gen_exps(flows, count))
    NoDir,      \* "no directory"
    Faults,     \* the kinds of fault the environment may inject
    MaxFaults   \* bound on the number of injected faults

Exps == Dirs \X (1..Count)

FaultKinds == {"sigint", "disk", "dump", "script", "stress", "clean",
               "killpg"}

ASSUME ExpAssumption ==
    /\ Count \in Nat
    /\ NoDir \notin Dirs
    /\ Faults \subseteq FaultKinds
    /\ MaxFaults \in Nat

VARIABLES
    kind,       \* which of the two scripts it is
    pc,         \* its control point, "idle" when it does not run
    dir,        \* exp_dir
    n,          \* number of the experiment in hand
    status,     \* exit status nobody has looked at yet
    client,     \* the last client: running, or how it ended
    made,       \* directories on disk
    file,       \* file[e]: what the file of experiment e holds
    dump,       \* dump[e]: the tcpdump of experiment e
    lost,       \* captures the script left without a signal (history)
    faults      \* faults injected so far

diskVars == <<made, file>>
dumpVars == <<dump, lost>>
expVars  == <<kind, pc, dir, n, status, client, diskVars, dumpVars>>

Finished == {"row", "error", "silent"}

ExpTypeOK ==
    /\ kind \in {"measure", "capture"}
    /\ pc \in {"idle", "check", "next", "read", "open", "write", "settle",
               "try", "wait", "linger", "except", "finally", "unwind"}
    /\ dir \in Dirs \cup {NoDir}
    /\ n \in 1..(Count + 1)
    /\ status \in {"none", "ok", "fail"}
    /\ client \in {"none", "running"} \cup Finished
    /\ made \subseteq Dirs
    /\ file \in [Exps -> {"none", "empty", "row", "error"}]
    /\ dump \in [Exps -> {"none", "on", "signalled", "gone", "dead"}]
    /\ lost \subseteq Exps
    /\ faults \in 0..MaxFaults

ExpInit ==
    /\ kind \in {"measure", "capture"}
    /\ pc = "idle" /\ dir = NoDir /\ n = 1 /\ status = "none"
    /\ client = "none"
    /\ made = {}
    /\ file = [e \in Exps |-> "none"]
    /\ dump = [e \in Exps |-> "none"]
    /\ lost = {}
    /\ faults = 0

Fault(f) == /\ f \in Faults
            /\ faults < MaxFaults
            /\ faults' = faults + 1

Current == <<dir, n>>

Goto(from, to) == pc = from /\ pc' = to /\ UNCHANGED status

\* The script ends; its caller gets the status.
Ends(s) == pc' = "idle" /\ status' = s

-----------------------------------------------------------------------------
(***************************************************************************)
(* What both scripts do first and last.                                    *)
(***************************************************************************)
\* The script is started for directory d.
StartExp(d) ==
    /\ pc = "idle" /\ status = "none"
    /\ pc' = "check" /\ dir' = d
    /\ UNCHANGED <<kind, n, status, client, diskVars, dumpVars, faults>>

\* Mutated form: the directory may exist.
MakeDirAnyway ==
    /\ Goto("check", "next")
    /\ made' = made \cup {dir} /\ n' = 1
    /\ UNCHANGED <<kind, dir, client, file, dumpVars, faults>>

\* Mutated form: the experiments are numbered from 0.
MakeDirFromZero ==
    /\ \/ dir \in made /\ pc = "check" /\ Ends("fail") /\ UNCHANGED <<made, n>>
       \/ dir \notin made /\ Goto("check", "next") /\ made' = made \cup {dir} /\ n' = 0
    /\ UNCHANGED <<kind, dir, client, file, dumpVars, faults>>

\* A directory that exists is refused, a new one is made.
MakeDir ==
    /\ \/ dir \in made /\ pc = "check" /\ Ends("fail") /\ UNCHANGED <<made, n>>
       \/ dir \notin made /\ Goto("check", "next") /\ made' = made \cup {dir} /\ n' = 1
    /\ UNCHANGED <<kind, dir, client, file, dumpVars, faults>>

\* os.mkdir() fails, or that of the output directory above it.
MakeDirFails ==
    /\ pc = "check" /\ Ends("fail")
    /\ Fault("disk")
    /\ UNCHANGED <<kind, dir, n, client, diskVars, dumpVars>>

\* The loop is over.
LoopEnds ==
    /\ pc = "next" /\ n > Count
    /\ Ends("ok")
    /\ UNCHANGED <<kind, dir, n, client, diskVars, dumpVars, faults>>

\* The client ends by itself.
ClientEnds ==
    /\ client = "running"
    /\ client' \in Finished
    /\ UNCHANGED <<kind, pc, dir, n, status, diskVars, dumpVars, faults>>

-----------------------------------------------------------------------------
(***************************************************************************)
(* exp_client_to_server2.py                                                *)
(***************************************************************************)
\* os.popen(cmd)
PopenClient ==
    /\ kind = "measure" /\ n <= Count
    /\ Goto("next", "read")
    /\ client' = "running"
    /\ UNCHANGED <<kind, dir, n, diskVars, dumpVars, faults>>

\* Mutated form: a client that prints nothing is skipped.
ReadLineOrSkip ==
    /\ client \in Finished
    /\ \/ client # "silent" /\ Goto("read", "open") /\ UNCHANGED n
       \/ client = "silent" /\ Goto("read", "next") /\ n' = n + 1
    /\ UNCHANGED <<kind, dir, client, diskVars, dumpVars, faults>>

\* readlines()[0] of a client that has ended; its status is not looked at, and
\* without a line there is an IndexError.
ReadLine ==
    /\ client \in Finished
    /\ \/ client # "silent" /\ Goto("read", "open")
       \/ client = "silent" /\ pc = "read" /\ Ends("fail")
    /\ UNCHANGED <<kind, dir, n, client, diskVars, dumpVars, faults>>

\* open(exp, 'w') creates the file, or empties it.
OpenFile ==
    /\ Goto("open", "write")
    /\ file' = [file EXCEPT ![Current] = "empty"]
    /\ UNCHANGED <<kind, dir, n, client, made, dumpVars, faults>>

\* f.write(result), close, and the next experiment.
WriteFile ==
    /\ Goto("write", "next")
    /\ file' = [file EXCEPT ![Current] = client]
    /\ n' = n + 1
    /\ UNCHANGED <<kind, dir, client, made, dumpVars, faults>>

\* The disk is full, or the directory gone: the file is missing or empty.
FileFails ==
    /\ pc \in {"open", "write"} /\ Ends("fail")
    /\ Fault("disk")
    /\ UNCHANGED <<kind, dir, n, client, diskVars, dumpVars>>

-----------------------------------------------------------------------------
(***************************************************************************)
(* exp_client_to_server.py                                                 *)
(***************************************************************************)
\* Popen(tcpdump), in a session of its own.
StartDump ==
    /\ kind = "capture" /\ n <= Count
    /\ Goto("next", "settle")
    /\ dump' = [dump EXCEPT ![Current] = "on"]
    /\ UNCHANGED <<kind, dir, n, client, diskVars, lost, faults>>

\* The sleep is over, the try block is entered.
EnterTry ==
    /\ Goto("settle", "try")
    /\ UNCHANGED <<kind, dir, n, client, diskVars, dumpVars, faults>>

\* os.system(cmd)
RunClient ==
    /\ Goto("try", "wait")
    /\ client' = "running"
    /\ UNCHANGED <<kind, dir, n, diskVars, dumpVars, faults>>

\* Mutated form: a failed client is run again.
ClientReturnsRetry ==
    /\ client \in Finished
    /\ \/ client = "row" /\ Goto("wait", "linger")
       \/ client # "row" /\ Goto("wait", "try")
    /\ UNCHANGED <<kind, dir, n, client, diskVars, dumpVars, faults>>

\* Mutated form: tcpdump is stopped on the successful path only.
ClientReturnsNoFinally ==
    /\ client \in Finished
    /\ \/ client = "row" /\ Goto("wait", "linger") /\ UNCHANGED n
       \/ client # "row" /\ Goto("wait", "next") /\ n' = n + 1
    /\ UNCHANGED <<kind, dir, client, diskVars, dumpVars, faults>>

\* A client that did not return 0 raises RuntimeError, which is printed.
ClientReturns ==
    /\ client \in Finished
    /\ \/ client = "row" /\ Goto("wait", "linger")
       \/ client # "row" /\ Goto("wait", "except")
    /\ UNCHANGED <<kind, dir, n, client, diskVars, dumpVars, faults>>

EnterFinally ==
    /\ Goto("linger", "finally") \/ Goto("except", "finally")
    /\ UNCHANGED <<kind, dir, n, client, diskVars, dumpVars, faults>>

\* os.killpg(tcp_dump_proc.pid, SIGINT).  The process is not waited for, so the
\* group is there even if tcpdump has died.
KillDump ==
    /\ \/ Goto("finally", "next") /\ n' = n + 1
       \/ pc = "unwind" /\ Ends("fail") /\ UNCHANGED n
    /\ dump' = [dump EXCEPT ![Current] = IF @ = "on" THEN "signalled" ELSE @]
    /\ UNCHANGED <<kind, dir, client, diskVars, lost, faults>>

\* killpg() raises an error (tcpdump runs under sudo, and a script without its
\* rights may not signal it): the finally clause is left by it, nobody catches
\* it, and tcpdump stays.
KillDumpFails ==
    /\ pc \in {"finally", "unwind"} /\ Ends("fail")
    /\ lost' = lost \cup {Current}
    /\ Fault("killpg")
    /\ UNCHANGED <<kind, dir, n, client, diskVars, dump>>

\* A tcpdump that got the signal ends, ...
DumpEnds(e) ==
    /\ dump[e] = "signalled"
    /\ dump' = [dump EXCEPT ![e] = "gone"]
    /\ UNCHANGED <<kind, pc, dir, n, status, client, diskVars, lost, faults>>

\* ... and one may end by itself, unnoticed: no such interface, disk full.
DumpDies(e) ==
    /\ dump[e] = "on"
    /\ Fault("dump")
    /\ dump' = [dump EXCEPT ![e] = "dead"]
    /\ UNCHANGED <<kind, pc, dir, n, status, client, diskVars, lost>>

-----------------------------------------------------------------------------
(***************************************************************************)
(* Ctrl-C at the terminal: SIGINT to the foreground processes, which are   *)
(* the scripts and the client, not tcpdump.                                *)
(***************************************************************************)
\* os.system() ignores SIGINT while it waits: only the client dies.
InterruptClient ==
    /\ pc = "wait" /\ client = "running"
    /\ client' = "silent"
    /\ Fault("sigint")
    /\ UNCHANGED <<kind, pc, dir, n, status, diskVars, dumpVars>>

\* os.popen() does not: both die.
InterruptRead ==
    /\ pc = "read" /\ Ends("fail")
    /\ client' = IF client = "running" THEN "silent" ELSE client
    /\ Fault("sigint")
    /\ UNCHANGED <<kind, dir, n, diskVars, dumpVars>>

\* KeyboardInterrupt outside the try block ends the script on the spot.  Out of
\* f.write() the file is closed, with or without its line.
InterruptPlain ==
    /\ pc \in {"check", "next", "open", "write"} /\ Ends("fail")
    /\ \/ UNCHANGED file
       \/ pc = "write" /\ file' = [file EXCEPT ![Current] = client]
    /\ Fault("sigint")
    /\ UNCHANGED <<kind, dir, n, client, made, dumpVars>>

\* The same between Popen() and try, or before killpg() in the finally clause:
\* tcpdump is left behind.
InterruptLosing ==
    /\ pc \in {"settle", "finally", "unwind"} /\ Ends("fail")
    /\ lost' = lost \cup {Current}
    /\ Fault("sigint")
    /\ UNCHANGED <<kind, dir, n, client, diskVars, dump>>

\* In the try block: KeyboardInterrupt is no Exception, but finally runs.
InterruptInTry ==
    /\ \E p \in {"try", "linger", "except"} : Goto(p, "unwind")
    /\ Fault("sigint")
    /\ UNCHANGED <<kind, dir, n, client, diskVars, dumpVars>>

ExpStep ==
    \/ MakeDir \/ LoopEnds \/ PopenClient \/ ReadLine \/ OpenFile \/ WriteFile
    \/ StartDump \/ EnterTry \/ RunClient \/ ClientReturns \/ EnterFinally
    \/ KillDump

ExpFault ==
    \/ MakeDirFails \/ FileFails \/ KillDumpFails
    \/ InterruptClient \/ InterruptRead \/ InterruptPlain \/ InterruptLosing
    \/ InterruptInTry
    \/ \E e \in Exps : DumpDies(e)
==============================================================================
