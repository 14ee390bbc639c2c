----------------------------- MODULE MCChunkPlan -----------------------------
(***************************************************************************)
(* Enumerates requests (kb, b) for the chunk plan: every buffer size up to *)
(* MaxBuf, and the block sizes 0, 1, 2, ... up to MaxKb, the last of which *)
(* are beyond both widths.                                                 *)
(***************************************************************************)
EXTENDS ChunkPlan, Sums

CONSTANTS MaxKb, MaxBuf

ASSUME BoundAssumption == MaxKb \in Nat /\ MaxBuf \in Nat

VARIABLES kb, b

vars == <<kb, b>>

Init == kb = 0 /\ b \in 1..MaxBuf

LargerBlock == /\ kb < MaxKb
               /\ kb' = kb + 1
               /\ UNCHANGED b

Next == LargerBlock

Spec == Init /\ [][Next]_vars

\* The length arguments of all calls of the plan, added up one call at a time.
SumOfCalls == SumOf([n \in Nat |-> CallLen(kb, b, n)])[Calls(kb, b)]

\* Every send() call asks for at least one byte and for no more than the
\* buffer holds (batch_data and res_data are exactly that long), whatever the
\* wrap-around did to the number of calls.
CallsStayInBuffer ==
    \A n \in 0..(Calls(kb, b) - 1) : CallLen(kb, b, n) \in 1..b

\* The calls add up to the block, one by one, exactly when neither width is
\* exceeded: no byte is lost at the boundary between the full calls and the
\* residue, and what wraps around asks for less, never for more and never by
\* luck for the block.
PlanExactIffFits ==
    /\ SumOfCalls <= kb * KB
    /\ SumOfCalls = kb * KB <=> Fits(kb, b)

\* "start transfer kbytes data(fix)" (file_transfer_client.h:38): the plan
\* transfers the requested kilobytes, for every block the option accepts.
PlanIsRequest == kb * KB < Word => SumOfCalls = kb * KB
==============================================================================
