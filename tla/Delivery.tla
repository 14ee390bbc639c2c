------------------------------- MODULE Delivery -------------------------------
(***************************************************************************)
(* What the file-transfer pair promises of its connections, without        *)
(* sockets, queues, signals or processes: bytes are put into a connection, *)
(* a single reader takes them, and a connection ends in exactly one of two *)
(* ways.  It is delivered, which takes its writer's end and the last byte, *)
(* or it is broken, and then it is never taken for delivered.  What the    *)
(* writer is told is what was put, or what it asked for where nobody       *)
(* looks.                                                                  *)
(***************************************************************************)
EXTENDS Integers

CONSTANTS Conn,     \* the connections
          NoConn,   \* "no connection"
          Unit,     \* bytes per unit of the writer's report
          Unseen,   \* connections whose writer does not look at what was put
          Request   \* Request[k]: what the writer of k asked for

VARIABLES phase,    \* phase[k]: how far connection k has come
          put,      \* put[k]: bytes put into k
          taken,    \* taken[k]: bytes taken from k
          serving,  \* the connection the reader takes from
          told      \* told[k]: what the writer of k was told, -1 before

vars == <<phase, put, taken, serving, told>>

Init == /\ phase = [k \in Conn |-> "new"]
        /\ put = [k \in Conn |-> 0]
        /\ taken = [k \in Conn |-> 0]
        /\ serving = NoConn
        /\ told = [k \in Conn |-> -1]

Begin(k) == /\ phase[k] = "new"
            /\ phase' = [phase EXCEPT ![k] = "live"]
            /\ UNCHANGED <<put, taken, serving, told>>

\* A writer learns late that its connection is broken.
Put(k) == /\ phase[k] \in {"live", "broken"} /\ told[k] = -1
          /\ put' = [put EXCEPT ![k] = @ + 1]
          /\ UNCHANGED <<phase, taken, serving, told>>

End(k) == /\ phase[k] = "live"
          /\ phase' = [phase EXCEPT ![k] = "ended"]
          /\ UNCHANGED <<put, taken, serving, told>>

\* The reader takes on a connection only when it has let go of the last one.
Serve(k) == /\ serving = NoConn
            /\ phase[k] \in {"live", "ended", "broken"}
            /\ serving' = k
            /\ UNCHANGED <<phase, put, taken, told>>

Take(k) == /\ serving = k
           /\ \E n \in 1..(put[k] - taken[k]) :
                 taken' = [taken EXCEPT ![k] = @ + n]
           /\ UNCHANGED <<phase, put, serving, told>>

Deliver(k) == /\ serving = k
              /\ phase[k] = "ended" /\ taken[k] = put[k]
              /\ phase' = [phase EXCEPT ![k] = "delivered"]
              /\ serving' = NoConn
              /\ UNCHANGED <<put, taken, told>>

\* The connections in K break.  The reader may let go of a broken one.
Break(K) == /\ \A k \in K : phase[k] \in {"live", "ended", "broken"}
            /\ phase' = [k \in Conn |-> IF k \in K THEN "broken" ELSE phase[k]]
            /\ \/ serving' = serving
               \/ serving \in K /\ serving' = NoConn
            /\ UNCHANGED <<put, taken, told>>

Tell(k) == /\ phase[k] \in {"ended", "delivered", "broken"} /\ told[k] = -1
           /\ told' = [told EXCEPT ![k] =
                          IF k \in Unseen THEN Request[k] ELSE put[k] \div Unit]
           /\ UNCHANGED <<phase, put, taken, serving>>

Next == \/ \E k \in Conn : \/ Begin(k) \/ Put(k) \/ End(k) \/ Serve(k)
                           \/ Take(k) \/ Deliver(k) \/ Tell(k)
        \/ \E K \in SUBSET Conn : Break(K)

Spec == Init /\ [][Next]_vars
-----------------------------------------------------------------------------
Phases == {"new", "live", "ended", "broken", "delivered"}

\* What is delivered has been taken to the last byte, and the reader has let
\* go of it.
Settled ==
    /\ phase \in [Conn -> Phases]
    /\ put \in [Conn -> Nat] /\ taken \in [Conn -> Nat]
    /\ told = [k \in Conn |-> told[k]]
    /\ \A k \in Conn : phase[k] = "delivered" => serving # k /\ taken[k] = put[k]

\* Delivered and broken are for good; nothing is put into a connection behind
\* its end or after its writer was told, and nothing is taken after delivery;
\* a writer is told once.
Final ==
    [][\A k \in Conn :
          /\ phase[k] \in {"delivered", "broken"} => phase'[k] = phase[k]
          /\ phase[k] \in {"ended", "delivered"} => put'[k] = put[k]
          /\ phase[k] = "delivered" => taken'[k] = taken[k]
          /\ told[k] # -1 => told'[k] = told[k] /\ put'[k] = put[k]]_vars
==============================================================================
