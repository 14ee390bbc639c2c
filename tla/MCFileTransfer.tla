--------------------------- MODULE MCFileTransfer ---------------------------
(***************************************************************************)
(* Values for the constants of FileTransfer.                               *)
(***************************************************************************)
EXTENDS TransferRefinement

CONSTANTS a, b        \* two client processes

Pair(x, y) == [c \in {a, b} |-> IF c = a THEN x ELSE y]

\* a sends two messages on its connection, b transfers blocks.  The first of
\* b makes no call, so that while the server is with a both connections of b
\* can complete and wait in the accept queue, the second with bytes to come.
MessagesAndBlocks == Pair(<<2>>, <<0, 1>>)

\* With KB = 3 and send buffers of 2 a block of 1 KB is one full call and a
\* residue of one byte; a block of 0 KB makes no call at all.
OneAndTwo == Pair(<<1>>, <<1, 0>>)
OneEach == Pair(<<1>>, <<1>>)
Bufs == Pair(2, 2)

\* b asks for the fixed local port 7; a has no bind address
OnlyB == Pair(FALSE, TRUE)
PortOfB == Pair(7, 7)
NoBind == Pair(FALSE, FALSE)
NoPort == Pair(0, 0)
DistinctPorts == Pair(8, 7)

AllFaults == FaultKinds
\* every fault but the loss of a host, an interrupted send() and a failing
\* socket(), which do not bear on progress
LiveFaults == {"sigint", "kill", "accept", "reset", "clientkill", "vanish"}
==============================================================================
