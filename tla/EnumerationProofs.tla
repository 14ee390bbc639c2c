--------------------------- MODULE EnumerationProofs ---------------------------
(***************************************************************************)
(* What holds of every request the enumeration of MCChunkPlan reaches,     *)
(* however far it goes.                                                    *)
(***************************************************************************)
EXTENDS MCChunkPlan, ChunkPlanProofs

Request == kb \in Nat /\ b \in Nat \ {0}

LEMMA Requests == Spec => []Request
<1>1. Init => Request
  BY BoundAssumption DEF Init, Request
<1>2. Request /\ [Next]_vars => Request'
  BY DEF Request, Next, LargerBlock, vars
<1>3. QED
  BY <1>1, <1>2, PTL DEF Spec

\* No send() call of a plan is empty or reads beyond the buffer, for every
\* block, buffer and width (file_transfer_client.cpp:18-21 and 54-63).
THEOREM CallsInBuffer == Spec => []CallsStayInBuffer
<1>1. Request => CallsStayInBuffer
  BY CallInBuffer DEF Request, CallsStayInBuffer
<1>2. QED
  BY <1>1, Requests, PTL

\* The calls of the request add up to its plan.
LEMMA SumIsPlanned == Request => SumOfCalls = Planned(kb, b)
<1> SUFFICES ASSUME Request PROVE SumOfCalls = Planned(kb, b)
  OBVIOUS
<1>1. kb \in Nat /\ b \in Nat \ {0}
  BY DEF Request
<1>2. Calls(kb, b) \in 0..Calls(kb, b)
  BY <1>1, PlanParts
<1> QED
  BY <1>1, <1>2, CallsAddUp, PrefixEnds DEF SumOfCalls

\* The calls add up to the block, byte for byte, exactly when neither width is
\* exceeded, and to less otherwise (file_transfer_client.cpp:18-21 and 54-63).
THEOREM CallsAddUpIffFits == Spec => []PlanExactIffFits
<1>1. Request => PlanExactIffFits
  <2> SUFFICES ASSUME Request PROVE PlanExactIffFits
    OBVIOUS
  <2>1. kb \in Nat /\ b \in Nat \ {0} /\ kb * KB \in Nat
    BY WidthAssumption DEF Request
  <2>2. /\ SumOfCalls \in Nat
        /\ SumOfCalls <= kb * KB
        /\ Fits(kb, b) => SumOfCalls = kb * KB
        /\ ~Fits(kb, b) => SumOfCalls < kb * KB
    BY <2>1, SumIsPlanned, PlanOfBytes, PlanExact, PlanShortUnlessFits
  <2> QED BY <2>1, <2>2 DEF PlanExactIffFits
<1>2. QED
  BY <1>1, Requests, PTL
=============================================================================
