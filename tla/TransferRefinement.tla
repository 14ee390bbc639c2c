-------------------------- MODULE TransferRefinement --------------------------
(***************************************************************************)
(* The file-transfer pair implements Delivery.  A connection is delivered  *)
(* from the recv() that returned 0 on, and broken as soon as it is reset   *)
(* or the server gave it up before that.                                   *)
(***************************************************************************)
EXTENDS FileTransferProps

AtEof(k) == srv[k] = "eof" \/ (spc = "drop" /\ k = cur)
Broken(k) == rst[k] \/ srv[k] \in {"cut", "err"}

PhaseOf == [k \in Conn |-> CASE AtEof(k) -> "delivered"
                             [] ~AtEof(k) /\ Broken(k) -> "broken"
                             [] ~AtEof(k) /\ ~Broken(k) /\ cli[k] = "closed" -> "ended"
                             [] ~AtEof(k) /\ ~Broken(k) /\ cli[k] = "open" -> "live"
                             [] OTHER -> "new"]

Serving == IF spc = "recv" THEN cur ELSE NoConn

Abstract == INSTANCE Delivery WITH
                Unit <- KB, Unseen <- {k \in Conn : IsMsg(k)},
                Request <- [k \in Conn |-> Size(k)],
                phase <- PhaseOf, put <- copied, taken <- got,
                serving <- Serving, told <- report

\* Every behaviour of clients, server, kernel and faults is, seen through the
\* mapping, a behaviour of Delivery: one reader, every connection delivered
\* whole or broken for good, every report the number of bytes put.
ImplementsDelivery == Abstract!Spec
==============================================================================
