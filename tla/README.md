# A verification project for mptcp_transfer_pingpong

`mptcp_transfer_pingpong` measures how long it takes to move blocks of bytes
over TCP or MPTCP: a sequential `server` drains connections, several clients
fill them, Python scripts run the clients in series and capture the traffic.
The numbers it prints are only worth something if a client that reports a block
really transferred it, if the server really takes every connection to its end,
and if one broken client does not spoil the measurements of the others. This
directory states those promises in TLA+, model-checks them with TLC, and proves
the most important ones with TLAPS.

## 1. Inventory

All own code is in `src/src/*.{h,cpp,cxx}` and `src/scripts/*.py`; `src/ext/`
is a vendored Boost.

| component | code | state | operations |
|---|---|---|---|
| chunk plan | `file_transfer_client.cpp:15-21, 55-63`, `ecfexp_client*.cxx` `transfer_block` | `batch` (int), `res_size` | split a block into `send()` calls |
| file transfer client | `client.cxx`, `file_transfer_client.*` | position in the block list, `client_sock`, loop index, `sent` | socket, bind, connect, send, close, report, exit |
| file transfer server | `server.cxx`, `file_transfer_server.*` | listening socket, `client_sock`, control point | bind, listen, accept, recv, end of file, error handler, SIGINT |
| socket wrapper | `sock.h`, `in_sock.h` | one owned descriptor | every system call either succeeds or throws `system_error` |
| signals | `utils.h` `TermSignal` | registered handler, blocked signal | SIGINT becomes an exception |
| timed client | `time_client.cxx` | deadline, `sent` | send until a deadline or SIGINT |
| ECF clients | `ecfexp_client.cxx`, `ecfexp_client2.cxx`, `utils.cpp` | block file, one connection, scripts | pause, script, block, script |
| message client | `msg_client.cxx`, `file_msg_client.*` | message counter | per connection: `msg_num` messages of one size, results of `send()` dropped |
| measurement scripts | `exp_client_to_server.py`, `exp_client_to_server2.py`, `common.py` | output directory, experiment in hand, capture process | make the directory, run a client per experiment, store its output or capture its traffic |
| batch scripts | `exp_batch.py`, `exp_stress_batch.py` | set-up in the kernel, stress processes | clear, measure, set, measure, clear; load on, batch, load off |
| start-up | option parsing in every `main()`, socket kind by `use_mptcp` and `version` | configuration | validate, choose a socket |
| formatting | `common.h` | | numbers to text |

How they interact. Client and server are separate processes that share nothing
but TCP connections; everything between `send()` and `recv()` is the kernel's:
the accept queue (a client may send and even finish before `accept()`), socket
buffers, FIN and RST, ports that linger, and what happens to sockets of a
process that dies. Signals reach the server as C++ exceptions thrown out of the
handler. The ECF client's scripts are children that inherit its socket. The
Python scripts see exit statuses and standard output only.

What is hard in it. Two processes and the kernel interleave; `send()` may be
short; a reset may come at any point; a FIN looks the same after success and
after a kill; SIGINT may hit between any two steps of the server; one slow or
lost client blocks the sequential server; a restart finds connections of the
previous process; block sizes overflow an `int`.

What makes each part correct.

- chunk plan: the calls add up to the block, each within the buffer.
- client: the report is the truth, status 0 means everything was reported, one
  open connection at a time.
- server: end of file means all bytes, one connection at a time, in the order
  of acceptance, and no connection stops it.
- the pair: reported by the client and ended at the server means received whole.
- timed client: the deadline ends it, the count is what was taken, and neither
  is lost to a signal.
- ECF clients: every block between its scripts, in the order of the file, and
  the connection ends with the run.
- scripts: a measurement runs under the set-up and the load it is filed under,
  a capture brackets its client, results on disk are kept and have no gaps, and
  a batch that reports success is complete.
- start-up: a program works with the kind of socket it was asked for or ends, and a
  start that fails is noticed by nobody.

The hazards of all components, each at its line, are listed in `PROJECT.json`.

## 2. Modules

| module | what it is |
|---|---|
| `ChunkPlan` | operators for the arithmetic of a transfer |
| `Sums` | partial sums of a sequence, as a recursive function |
| `FileTransfer` | the pair: file and message clients, server, kernel, faults |
| `FileTransferProps` | its invariants, action property, liveness, and a statement the code does not keep |
| `Delivery` | the abstract service, without processes or sockets |
| `TransferRefinement` | the mapping from `FileTransfer` to `Delivery` |
| `TimeClient` | the timed client, its peer and its clock |
| `EcfClient` | the ECF clients, their scripts and what scripts leave behind |
| `ExpRun` | one run of an experiment script: directory, clients, files, captures |
| `Campaign` | the batch and stress scripts over `ExpRun`, started by an operator |
| `Startup` | every program from `main()` to its working loop |
| `ChunkPlanProofs`, `EnumerationProofs`, `FileTransferProofs`, `RefinementProofs`, `TimeClientProofs`, `EcfClientProofs`, `CampaignProofs`, `StartupProofs` | theorems |
| `MCChunkPlan`, `MCFileTransfer`, `MCTimeClient`, `MCEcfClient`, `MCCampaign`, `MCStartup` | instances for TLC |

`FileTransfer` and `EcfClient` extend `ChunkPlan` (`EcfClient` and
`MCChunkPlan` also `Sums`) and use `Calls` and `CallLen`
for the loop bounds and lengths of `transfer()` and `transfer_block()`.
`TimeClient` and `EcfClient` see the server as a peer that reads when it gets to
their connection; what it does meanwhile is `FileTransfer`. `Campaign` extends
`ExpRun` and runs one experiment script at a time, as `os.system()` does;
`ExpRun` sees a client by what it prints and how it ends. `Startup` ends where
the other modules begin: its `connect` step of a file client is the first
`Connect` of `FileTransfer`, its `listen` step the `ServerListen`.

### How `FileTransfer` corresponds to the code

A connection is named `<<client, block number>>`: the code makes one per block.
Bytes are counted. Each client has a control point `pc`:

| `pc` | place in the code |
|---|---|
| `idle` | head of the block loop, `client.cxx:97` |
| `connect` | after socket, options and bind, before `connect()`, `file_transfer_client.cpp:52` |
| `sending` | the send loop, lines 54-63; `call` counts calls that returned, `off` bytes taken by the one in progress, `sent` is the local variable |
| `report` | after the block that owned the socket, lines 65-69 |
| `ok` | `return 0` |
| `failed` | an exception caught by `main()`, status -1 |
| `inuse` | the same, for a `bind()` that met a port in use |
| `sigpipe`, `killed`, `vanished` | the process or its host is gone |

and the server has `spc`:

| `spc` | place in the code |
|---|---|
| `bound` | constructed, before `listen()` |
| `listening` | before `TermSignal::regist()` |
| `accept` | in the outer loop, waiting in `accept()` |
| `recv` | in the inner loop, `cur` is `client_sock` |
| `drop` | after `recv()` returned 0, before the destructor of `client_sock` |
| `catch` | in the `system_error` handler |
| `stop` | out of the loop |
| `exit0`, `exit1`, `aborted`, `killed` | how the process ended |

`cli[k]`, `srv[k]` are the two endpoints, `copied[k]` the bytes the client's
kernel took, `got[k]` those `recv()` returned, `rst[k]` whether it was reset.
`srv[k]` ends as `eof` (after `recv()` = 0), `err` (after a `recv()` error) or
`cut` (the server gave it up or died).

One action is one call or one control transfer, with everything the code does
along with it: `SendFails` includes the unwinding that closes the socket and
the end of `main()`, `ServerRecvFails` the destructor of `client_sock` and the
entry into the handler, `ServerDies` all sockets of the process. `Send` is one
byte of a blocking `send()`, so that the server reads, dies, resets or is
interrupted in the middle of a call.

What is modelled of the kernel, from how the code uses it, and marked external
in the map:

- the handshake completes without `accept()`; the queue holds `Backlog + 1`
  connections; a full queue or no listener makes `connect()` fail;
- a blocking `send()` returns less than asked only when a reset or a signal
  arrives after part was taken. The client installs no handler, but a stop and
  continue by job control has this effect on Linux;
- after a reset, bytes that arrived may still be read before the error;
- a process that ends closes its sockets: FIN, or RST if it left bytes unread
  or a connection unaccepted. Data to a closed endpoint is answered by RST;
- a write to a reset connection is ECONNRESET or EPIPE with SIGPIPE; the code
  neither ignores SIGPIPE nor passes MSG_NOSIGNAL, so both ends are there;
- a port whose connection was closed first on this side lingers for a time the
  model leaves open. A client does not set SO_REUSEADDR, the server does.

SIGINT in the server. The handler throws. Before `regist()` the default action
kills. In the `try` block the exception is caught, or the process terminates
(`noexcept` code, or an instruction without unwind information); in the
`system_error` handler it leaves the loop and reaches `main()`. The exception
never returns from the signal frame, so SIGINT stays blocked and a second one
has no effect: `stop` has no SIGINT action.

Several clients are separate processes on one host, as the scripts run them;
the only state they share is the port space.

A client in `MsgClients` is `msg_client`: its `Blocks` are the message counts of
its connections, `CallsOf` and `LenOf` are those of the loop in
`file_msg_client.cpp:50-53`, it never binds, and `Result` is the count it was
asked for rather than what the kernel took. All other steps, the faults and the
exit are the same code shape as `client.cxx` and the same actions.

A server that starts again finds the port of its predecessor in TIME-WAIT when
that one closed first (`PortLingers`); `ServerStart` succeeds because the
constructor sets SO_REUSEADDR.

### How `TimeClient` corresponds to the code

`pc` follows `time_client.cxx`: `setup` and `connected` up to
`TermSignal::regist()`, `start` before `begin` is read, `loop` at line 53,
`send` in line 59, `finish` behind the loop, `print` before line 98, `exit`
after it. The clock counts milliseconds from `begin`, since the code compares
truncated milliseconds. `time` is chosen at the start, from `Times`; a value of
0 or below means no deadline, as in line 54.

SIGINT hits anywhere. In the `try` block it breaks out of the loop, with any
part of the buffer taken, including the whole of it when it arrives as `send()`
returns; the bytes of that call are not counted. Outside, after `regist()`, the
exception reaches `main()` and the result is lost. Once caught it stays blocked
(`masked`), because the handler was left by an exception. `cuts` and `late` only
record what happened, for the properties.

### How `EcfClient` corresponds to the code

`pc` follows `main()` and the loop of `ecfexp_client2.cxx`: `start` before
`read_blocks()`, `setup`, `next` at the head of the loop, `before`, `send` in
`transfer_block()`, `after`; `runbefore` and `runafter` are inside `run_cmd()`.
`ecfexp_client.cxx` is the case in which no block names a script.

`popen()` forks with the connection open, so the shell holds it, and so do the
processes a script leaves in the background (`left`; `piped` when they also kept
the output pipe, on which `run_cmd()` then waits). The peer sees the end of the
stream when the client and all of these are gone (`SocketClosed`). `RunCmdWaits`
and the second half of `RunEnds` say who that can be: behind a run that was not
killed, only processes whose output was redirected keep the connection open, and
with it the sequential server. `chld` is the
disposition of SIGCHLD that `run_cmd()` sets and restores: inherited as ignored,
it would lose the status that `pclose()` asks for. A script that fails aborts in
`assert`; the modelled build keeps assertions, as `CMakeLists.txt` sets no build
type.

### How `ExpRun` and `Campaign` correspond to the code

`kind` says which of the two experiment scripts is installed: `measure` is
`exp_client_to_server2.py`, `capture` is `exp_client_to_server.py`. Their loop
over flows and repetitions (`gen_exps`) is a count `n`.

| `pc` | place in the code |
|---|---|
| `idle` | no experiment script runs; `status` is what it returned |
| `check` | before `os.path.exists` and `os.mkdir` |
| `next` | head of the loop |
| `read`, `open`, `write` | measure: in `readlines()[0]`, before `open()`, before `f.write()` |
| `settle` | capture: between `Popen(tcpdump)` and `try` |
| `try`, `wait`, `linger` | before, in and after `os.system(client)` |
| `except`, `finally`, `unwind` | the handler, before `killpg()`, and the same on the way out of an interrupt |

`bpc` is the stage of `exp_batch.py` (`clear`, `tcp`, `normal`, `set`, `xdp`,
`unset`) and `spc` that of `exp_stress_batch.py` (`next`, `warm`, `run`, `cool`,
`rest`). Which results are looked at follows the code: the first `clear`, the
first two measurements and `set` end a batch, the third measurement and the last
`clear` do not, and the stress script looks at nothing.

Ctrl-C goes to the foreground processes. A Python script waiting in
`os.system()` ignores it, one in `os.popen().readlines()` does not, and tcpdump
and the stress process run in sessions of their own and do not get it. So one
Ctrl-C ends the client and its script goes on, or ends the innermost script and
the caller goes on. `InterruptLosing` is the window between `Popen` and `try`,
and the one before `killpg()`; `KillDumpFails` leaves tcpdump in the same state,
for `killpg()` may raise (tcpdump runs under sudo). `lost` and `stray` record such
cases for the properties.

Two scripts are never started at the same time: the model has one operator, who
waits for what was started. Directories, files and loads stay between the runs.

### How `Startup` corresponds to the code

`Order` is the order in which each program takes its resources, read from
`transfer()` of each client and from the server's constructor and
`listen_and_transfer()`. Each step succeeds or ends the program: `failed` is an
exception that `main()` turns into -1, `aborted` an assertion, `trapped` the
division by a buffer of zero. The five programs share `main()`'s parsing and the
table from `use_mptcp` and `version` to a socket; what differs is `Order`, the
file client's `bind()` that is left out without an address, and the assertion on
the file option of the ECF clients. The kernel is a parameter: which versions of
MPTCP it knows, and whether one of version 0 makes MPTCP of plain sockets.

## 3. Runs

| run | question | result |
|---|---|---|
| `chunk_plan` | do the calls add up exactly when the block fits both widths, and stay within the buffer, around both wrap-arounds? | holds |
| `transfer_safety` | do all invariants and the action property hold, is nobody stuck behind somebody stuck, and does the pair implement `Delivery`, with a file and a message client, two faults of any kind and a restart? | holds |
| `transfer_progress` | does everybody get on? | holds |
| `timed` | how far off may a timed result be, who may lose it, and does the run end? | holds |
| `ecf` | do scripts, blocks and status keep their order, what does `run_cmd()` leave behind, and do the run and its connection end? | holds |
| `campaign` | do measurements run under their set-up and load, are results kept and captures bracketed, and does every script end? | holds |
| `startup` | does a program work only with the kind of socket it was asked for, and is a failed start harmless? | holds |
| `plan_is_request` | is every accepted block planned whole? | no: `int batch` |
| `next_block` | does a client with a fixed port get past its first block? | no: `EADDRINUSE` |
| `time_sent` | is what is printed as sent no more than was sent? | no: short `send()` |
| `stress_measures` | does the stress script measure anything? | no: `--exp` is missing |
| `result_rows` | is what is stored as a result one? | no: "send error!" |

The last five check one statement of the repository each; the counterexample is
what the code does (section 6).

### Bounds, and why they are enough

- `KB = 3` and a send buffer of 2 make a block of 1 one full call and a residue
  of one byte; block 0 makes no call at all. The code's 1024 is the same
  arithmetic, which is proved for every `KB`.
- `SockBuf = 2` (1 in the progress run) is smaller than a block, so that
  `send()` blocks on the server; `RecvBuf = 2` lets one `recv()` take bytes of
  two calls.
- Two clients are enough for one to wait behind the other; one has two blocks,
  so that it can fail after a success; in the safety run it has a fixed port.
- `Backlog = 1` in the safety run: the accept queue holds two connections, both
  blocks of `b` while the server is busy with `a`, so that their order can go
  wrong (the first block of `b` makes no call, so `b` gets past it without being
  accepted); with both queued it is full. `Backlog = 0` in the progress run: one
  connection fills the queue, and `connect()` fails next to a healthy server.
- `MaxFaults = 2` allows a fault during the recovery from another; the faults
  are resets, kills of either side, SIGINT, failing `accept()` and `socket()`,
  an interrupted `send()` and the loss of a client's host.
- In the safety run client `a` sends two messages on one connection and `b` two
  blocks from its fixed port, so that both kinds compete for the server. The
  progress run has a file client on either side, since liveness does not depend
  on who drops the result of `send()`.
- `MaxStarts = 2` is one restart of the server, with connections of the first
  process left in every state.
- `Word` and `IntRange` (64 and 16 in the plan's runs) let the plan wrap around
  in both widths; the blocks of the other runs stay below them.
- Timed client: a deadline of 2 and none, `Buf = SockBuf = 2`, so that a call
  can be cut or interrupted in the middle and blocks when the peer pauses.
  `Rate = 2` bounds the bytes per millisecond; `MaxClock = 4` leaves two
  milliseconds, and room for a whole buffer, after the deadline. Three faults
  allow a cut, a SIGINT and a second SIGINT.
- ECF client: three block files: one with both scripts, a second block and a bad
  line, one whose second block and one whose first names a script that is not
  there; three faults, so that a script may leave two processes and fail.
- Scripts: two experiments per directory, so that one can fail behind another; a
  load and no load behind it, so that a load that stays would be seen; two runs
  of the operator, so that the second finds what the first left; two mode sets,
  `tcp` with `xdp` (with and without the set-up) and `normal` alone; two faults
  or interrupts anywhere, so that a clean-up can fail too; both scripts, with
  either set-up in the kernel at the start.
- Start-up: no bounds but three versions (0, 1, unknown) and two buffers (zero
  and not): every program, kernel and combination of options is enumerated.

Deadlock is checked in every run but those of the plan. In `FileTransfer`
`Quiet` names the only states in which the system may stop: all clients ended and the server down or in
`accept()`, or the server in `recv()` for a vanished client. `TimeClient` and
`EcfClient` have a `Quiet` of their own: ended, or blocked in `send()` on a peer
that does not read, or in `run_cmd()` on a pipe somebody holds. `Campaign` is
quiet when nothing runs and the operator is done, `Startup` (`Over`) when the
program has ended or works. `MCChunkPlan` just runs out of inputs.

### Fairness

`FairSpec` assumes that a client that can take a step takes one, and the same
of the server (the scheduler, and system calls that return when they can), and
that data to a closed socket is eventually answered. Nothing is assumed of
faults, signals or restarts: a server that is down may stay down, and the
clients end because their `connect()` is refused. Under that fairness
`ServerReleased` and `ClientsEnd` still need the exception for a vanished host:
the code sets no timeout and no keepalive.

`TimeClient!FairSpec` assumes that the client runs and the clock advances;
`ServedRunEnds` adds, as a premise, that the peer keeps reading, which the
server does only once it has accepted the connection; without it the run need
not end, deadline or not, because `send()` blocks. `InterruptGivesResult` does
without. `EcfClient!FairSpec` assumes that the client runs, the peer reads, the
end of the stream included, and scripts end, but not what they leave in the
background. `Campaign!FairSpec`
assumes that the scripts run and that the clients and set-up scripts they wait
for end. For clients that is what `ClientsEnd` and `ServedRunEnds` show, under
their conditions; the Python scripts have no timeout, so they cannot do better.
Nothing is assumed of tcpdump, of the operator or of faults.

## 4. Proofs

`ChunkPlanProofs`: for every block, buffer and width, each call is within its
buffer (`CallInBuffer`), the plan is the block when it fits both widths
(`PlanExact`), and less when it does not (`PlanShortUnlessFits`). The last is
not obvious: after a wrap-around of the 64-bit count the number of calls and the
residue are those of a smaller block, and the `int` can only drop calls
(`ToIntAtMost`, `FewerCalls`), never add any. `CallsAddUp` shows that the calls,
added up one by one, give the closed form `Prefix`, from which all other modules
reckon. A sum is a recursive function (`Sums`), and its recursion is a theorem,
`SumOfRecursion`. Both need induction. The library states induction with an
operator parameter, which the provers cannot instantiate; `Induction` states it
for a set of numbers instead, and follows from `<` being well founded on `Nat`.

`EnumerationProofs`: of every request the enumeration of `chunk_plan` can reach,
for any bound on it and any widths, the calls stay in the buffer and add up to
the block exactly when it fits (`CallsAddUpIffFits`).

`FileTransferProofs`: for any clients of both kinds, blocks, buffers, faults and
restarts, `Invariance` proves an inductive invariant `IInv`, and from it follow
the invariants of the safety run and the action property `OnlyFaultsStopServer`.
The safety properties are not inductive alone. The parts of `IInv` and what they
are for:

- `OnBlock`, `Untouched`, `Started`: a connection is untouched until its turn,
  so `connect()` starts from nothing and every transfer from zero;
- `Accounted`: while sending, `copied = sent + off`, and `sent` is on plan
  (`Prefix`) as long as nothing was cut. This is what `ReportIsTruth` rests on;
- `Closed`: between `close()` and the report the count is final;
- `Whole`: a finished transfer carried its plan unless a signal cut it short or
  it was reset before the server saw the end. The last clause matters: a reset
  after the end of file does not undo the transfer;
- `EofBehindClose`: the end of file lies behind the client's close and the last
  byte. `Whole` and this give `EndToEnd`: were the transfer cut by a reset, the
  server could not have reached the end, as the client still had it open;
- `OneAtATime`: the server owns what it serves, and the queue holds distinct
  connections nobody accepted;
- `QueueOrder`: in the queue, and between the queue and what is served, the
  connections of a client are in command-line order. `InOrder` needs it, since
  what is overtaken in the queue is served out of order later;
- `ClientHoldsOne`, `PastReported`, `OkDone`: the block loop.

The proofs split a step by side. `ServerSideFrame` and `ServerEffect` say what
any step of server, kernel or network can do to a connection, `Control` and
`ClientFrame` what a client's step can do to itself and must leave to the
others; each part of the invariant is then preserved by the few actions that
touch it.

`DeadlockFree` proves `NoDeadlock`, of any number of clients behind the one
server: whoever is blocked in `send()` is behind somebody who can go on, or will
hear of a reset, or waits for a lost host. The guards it is stated with
(`ClientCan`, `ServerCan`, `ResetComes`) are those of the steps: put next to the
invariants of the safety run, `ClientCan(c) <=> ENABLED ClientStep(c)` and its
likes hold (TLC can evaluate ENABLED, the prover cannot use it). `WInv` adds to
`IInv` what the argument needs: a sending client's connection has reached the
server's host (`Reached`), nobody queues at a server that does not listen
(`Deaf`), and the server gives up only what was reset (`Heard`). So a blocked client's connection is queued, and then the server is up
and either can go on or serves another client, who holds only that connection
and is not blocked unless the server can read; or it is served; or it is over,
and bytes in it were reset or soon will be.

`NeverSetBack` is the other half of termination. `Remaining` is the way a client
has to go: blocks, stages of the block, `send()` calls, bytes of the call. Every
change of a client, by its own step, a short call, a reset, a signal or the end
of its host, makes it smaller in lexicographic order, and `RemainingCounts` says
that its parts are natural numbers. With `DeadlockFree` this is the safety half
of `ClientsEnd`; what stays with TLC is that a step which is possible is taken,
and that the server is through with a connection after finitely many steps.

Assumptions: `WidthAssumption` and `TransferAssumption` only (types of the
parameters, buffers of at least one byte). A buffer of 0 is accepted by the
options and ends the program before its first connection; that is `Startup`'s.

`RefinementProofs`: `Refinement` states that `Spec` implements `Delivery` under
the mapping of `TransferRefinement`. The invariant is `IInv` with `Opened` (no
server endpoint without a client's, from `FileTransferProofs`). `PhaseAt` reads
the abstract phase of a connection off its two endpoints; a step that changes no phase and no count is a
stutter, and one that ends several connections at once (the server dies, a
process is killed) maps to the break of a set of connections in one abstract
step (`BreakStep`). Then each action of either side is taken in turn. `EndIsFinal`
is proved of `Delivery` alone and holds of the pair because of the refinement: a
delivered or broken connection stays so whatever restarts, resets or signals
follow, its counts are final, and a client is told once.

`TimeClientProofs`: `Invariance` proves an inductive invariant for every time,
buffer, rate and fault budget, and from it all safety properties of
`TimeClient`. Its parts: `Ledger` (outside `send()` the count is what was taken
plus at most `Buf - 1` for each short call; inside, the bytes in progress are
still missing; after SIGINT at most a buffer is missing for good),
`MaskedBehindLoop`, `LateIsLast` (a late call is followed by the break),
`LeftByDeadline` and `PrintedAtEnd`. The assumption is `TimeAssumption`.

`EcfClientProofs`: an inductive invariant for every set of block files, buffer,
number of scripts and fault budget. `RowsOfBlocks` ties the rows printed to the
block in hand, `HandedOver` says that, as long as no call was cut short, the
bytes taken are the plans of all rows (`PlannedUpTo`, a sum over the file) plus
the calls of the block in hand. `FileIsDelivered` goes from the file to the peer:
a run that ends with 0, with no call cut short and every block within the
widths, has delivered the sum of the sizes in the file, times `KB`, before the
peer sees the end of the stream (`EofBehindEnd`). `RunCmdLeavesNothing` proves
`RunCmdWaits`: a process joins a script's output only while the shell runs, and
`run_cmd()` waits for both. `DeadlockFree` lists what the client may wait
for, `NeverSetBack` says as for the pair that every change of the client leaves
it less to do: no block is sent twice and no script run again.

`CampaignProofs`: an inductive invariant for any loads, modes, counts, numbers of
runs and faults. `Position`, `Fresh`, `FilesSoFar` and `DumpsSoFar` describe the
files and captures of the directory in hand up to the control point;
`Complete` of a directory is kept by every later run because a directory that
exists is refused; `StagesBehind` says that the stages a batch has passed are
complete, and `SetupOfStage` what is in the kernel at each stage, whatever was
there before.

There too `DeadlockFree` and `NeverSetBack` are the safety half of liveness
(`CampaignEnds`): the innermost script goes on or waits for a client that runs,
and every change, failures and interrupts included, leaves less to do
(`Remaining`: scripts the operator may start, loads, stages of stress script,
batch and experiment script, experiments). The first needs the fact that the
stress script has a mode to call its batches with.

`StartupProofs`: `SocketKind` says when the socket has become what was asked for
(at `socket()`, or with version 0 at `setsockopt()`), `Noticed` at which step of
`Order` others can see the program.

Only model-checked: liveness (`ServerReleased`, `ClientsEnd`, `ReportArrives`,
`InterruptGivesResult`, `ServedRunEnds`, `RunEnds`, `CampaignEnds`), because the
prover knows neither ENABLED nor fairness. Every safety invariant and action
property of the passing runs is the statement of a theorem.

## 5. What is not modelled

- Boost and the parsing of options: a command line is good, bad or asks for help;
  an address is good, bad or empty.
- The text of results (`common.h`), logging, `create_align_buffer` (not called)
  and `clean.sh` (one `kill -9`, called by no other script).
- MPTCP subflows: they are in the kernel, the program sees one stream. For the
  same reason the path faults the experiments are about show here only as
  resets, pauses and lost hosts.
- The copy, move, `reset` and view members of `SockAddr` and `SocketView` that
  the programs do not use.
- Two campaigns at a time on one host. The scripts have no lock; `kill -9
  $(pidof stress)` and the set-up in the kernel are global, so a second campaign
  would spoil the first, and nothing in the code claims otherwise.
- Clocks other than that of the timed client: durations that are only printed.
  The clock of the timed client only advances, at any speed. The code reads
  `high_resolution_clock`, which libstdc++ makes the system clock, and that may be
  set while the program runs: a step back keeps the loop past its deadline, a
  step forward ends it early, and the printed duration is off by the step.
  `OneLateCall`, `NotEarly` and `ServedRunEnds` hold of runs in which nobody sets
  the clock. A `steady_clock` would make that assumption true.

The map has one place for each definition. Where several programs repeat the same
lines (the socket table, the option parsing, the block loop) it names one of
them; the sections above say which programs the definition stands for.

## 6. Disagreements found

- `file_transfer_client.cpp:18`: the number of full calls is stored in an
  `int`. A block of 3 TB with the default buffer of 1500, or of 2 GB with a buffer of
  one byte, is silently not transferred.
- `file_transfer_client.cpp:56`: a short `send()` is not completed: a transfer on
  a connection that was never reset may carry less than its block. The report
  tells (`ShortOnlyIfBroken`), the program does not.
- `file_transfer_client.cpp:46`: `--bind_port` is ignored without
  `--bind_address`.
- `file_transfer_client.cpp:47`: with both, the second block of a command line
  fails in `bind()` while the first connection is in TIME-WAIT.
- `time_client.cxx:54`: the deadline is not looked at while `send()` blocks.
- `time_client.cxx:61`: a connection that breaks ends the run without the result
  of what was sent so far.
- `time_client.cxx:60`: the count adds the buffer, not the result of `send()`.
- `ecfexp_client2.cxx:74`: the results of `send()` are dropped.
- `file_msg_client.cpp:52`: the same in the message client, which reports the
  number of messages asked for.
- `client.cxx:27`: with `-t` and the default version 1, MPTCP is not switched off
  on a kernel of version 0 where it is on by default, and a measurement filed as
  TCP is one of MPTCP (the exception in `AskedProtocol`).
- `client.cxx:65`: a send buffer of 0 is accepted and divides by zero.
- `exp_stress_batch.py:39`: the batch is called without `--exp`, fails at its
  first command, and the stress script goes on through all loads.
- `exp_client_to_server2.py:69` with `sock.h:170`: "send error!" is printed to the
  standard output and stored as the result.
- `exp_client_to_server.py:87`: an interrupt between `Popen` and `try` leaves
  tcpdump running.
- `exp_batch.py:91`: a failure of the last measurement does not end in the exit
  status (`BatchOkIsComplete` speaks of the others only).
