--------------------------- MODULE TimeClientProofs ---------------------------
(***************************************************************************)
(* Proofs about TimeClient, for every time, buffer, rate and fault budget. *)
(***************************************************************************)
EXTENDS TimeClient, TLAPS

\* Outside send() the count is what was taken, plus what short calls left out;
\* inside, the bytes of the call in progress are not counted yet.
Ledger ==
    /\ pc \notin Ended \cup {"send"} /\ ~masked =>
           taken <= sent /\ sent <= taken + Allowance
    /\ pc = "send" => taken <= sent + off /\ sent + off <= taken + Allowance
    /\ masked => taken <= sent + Buf /\ sent <= taken + Allowance

\* Only the break after the handler leaves the loop with SIGINT blocked.
MaskedBehindLoop ==
    masked => pc \in {"finish", "print", "exit", "exit0", "killed"}

\* A late call is the last one.
LateIsLast ==
    /\ late = 0 \/ (late = 1 /\ DeadlinePassed)
    /\ pc = "send" => late = 0

\* Without SIGINT the way out of the loop is the deadline.
LeftByDeadline ==
    /\ pc = "finish" /\ ~masked => DeadlinePassed
    /\ pc = "print" /\ ~masked => time > 0 /\ dur >= time

PrintedAtEnd == printed => pc \in Ended \cup {"exit"}

IInv ==
    /\ TypeOK
    /\ Ledger
    /\ MaskedBehindLoop
    /\ LateIsLast
    /\ LeftByDeadline
    /\ PrintedAtEnd
    /\ CountError
    /\ NotEarly


\* Arithmetic of the allowance.
LEMMA AllowanceNat == TypeOK => Allowance \in Nat
  <1>1. \A m, d \in Nat : m * d \in Nat
    OBVIOUS
  <1>2. TypeOK => cuts \in Nat /\ Buf - 1 \in Nat
    BY TimeAssumption DEF TypeOK
  <1> QED BY <1>1, <1>2 DEF Allowance

\* One more short call raises the allowance by a buffer less one byte.
LEMMA AllowanceGrows ==
    ASSUME TypeOK, cuts' = cuts + 1
    PROVE  Allowance' = Allowance + (Buf - 1)
  <1>1. \A m, d \in Nat : (m + 1) * d = m * d + d
    OBVIOUS
  <1>2. cuts \in Nat /\ Buf - 1 \in Nat
    BY TimeAssumption DEF TypeOK
  <1> QED BY <1>1, <1>2 DEF Allowance

LEMMA AllowanceKept == cuts' = cuts => Allowance' = Allowance
  BY DEF Allowance

LEMMA InitIInv == Init => IInv
  <1> SUFFICES ASSUME Init PROVE IInv
    OBVIOUS
  <1>1. TypeOK
    <2>1. printed \in BOOLEAN /\ masked \in BOOLEAN /\ rst \in BOOLEAN
      BY Zenon DEF Init
    <2>2. pc \in SetUp
      BY DEF Init, SetUp
    <2>3. clock \in 0..MaxClock /\ off \in 0..Buf /\ faults \in 0..MaxFaults
      BY TimeAssumption DEF Init
    <2>4. sent \in Nat /\ dur \in Nat /\ taken \in Nat /\ got \in Nat
          /\ cuts \in Nat /\ late \in Nat
      BY DEF Init
    <2> QED BY <2>1, <2>2, <2>3, <2>4, Zenon DEF Init, TypeOK
  <1>2. Allowance \in Nat
    BY <1>1, AllowanceNat
  <1> QED
    BY <1>1, <1>2, TimeAssumption, SMTT(30)
       DEF Init, IInv, Ledger, MaskedBehindLoop, LateIsLast, LeftByDeadline,
           PrintedAtEnd, CountError, NotEarly

-----------------------------------------------------------------------------
(***************************************************************************)
(* Each part of the invariant is preserved by each kind of step.           *)
(***************************************************************************)

\* Every step keeps the types.
LEMMA TypeStep == TypeOK /\ [Next]_vars => TypeOK'
  <1> SUFFICES ASSUME TypeOK, [Next]_vars PROVE TypeOK'
    OBVIOUS
  <1> USE TimeAssumption
      DEF TypeOK, SetUp, InTry, Outside, Ended, loopVars, connVars, histVars,
          Goto, Fault
  <1>1. ASSUME ClientStep PROVE TypeOK'
    <2>1. CASE OpenAndConnect BY <2>1 DEF OpenAndConnect
    <2>2. CASE Regist BY <2>2 DEF Regist
    <2>3. CASE ReadBegin BY <2>3 DEF ReadBegin
    <2>4. CASE TestDeadline BY <2>4 DEF TestDeadline
    <2>5. CASE TakeByte BY <2>5 DEF TakeByte
    <2>6. CASE SendReturns BY <2>6 DEF SendReturns, Count
    <2>7. CASE SendCutByReset BY <2>7 DEF SendCutByReset, Count
    <2>8. CASE SendFails BY <2>8 DEF SendFails
    <2>9. CASE Finish BY <2>9 DEF Finish
    <2>10. CASE PrintResult BY <2>10 DEF PrintResult
    <2>11. CASE Exit BY <2>11 DEF Exit
    <2> QED BY <1>1, <2>1, <2>2, <2>3, <2>4, <2>5, <2>6, <2>7, <2>8, <2>9,
               <2>10, <2>11 DEF ClientStep
  <1>2. ASSUME Signal PROVE TypeOK'
    <2>1. CASE SigintEarly BY <2>1 DEF SigintEarly
    <2>2. CASE SigintCaught BY <2>2 DEF SigintCaught
    <2>3. CASE SigintOutside BY <2>3 DEF SigintOutside
    <2>4. CASE SigintTerminates BY <2>4 DEF SigintTerminates
    <2>5. CASE SendInterrupted BY <2>5 DEF SendInterrupted, Count
    <2>6. CASE Killed BY <2>6 DEF Killed
    <2> QED BY <1>2, <2>1, <2>2, <2>3, <2>4, <2>5, <2>6 DEF Signal
  <1>3. CASE Tick BY <1>3 DEF Tick
  <1>4. CASE PeerReads BY <1>4 DEF PeerReads
  <1>5. CASE Reset BY <1>5 DEF Reset
  <1>6. CASE Quiet \/ UNCHANGED vars BY <1>6 DEF Quiet, vars
  <1> QED BY <1>1, <1>2, <1>3, <1>4, <1>5, <1>6 DEF Next

\* The count is moved by send() calls that return, and by nothing else.
LEMMA LedgerStep ==
    TypeOK /\ TypeOK' /\ Ledger /\ MaskedBehindLoop /\ [Next]_vars => Ledger'
  <1> SUFFICES ASSUME TypeOK, TypeOK', Ledger, MaskedBehindLoop, [Next]_vars
               PROVE  Ledger'
    OBVIOUS
  <1>1. /\ Allowance \in Nat
        /\ sent \in Nat /\ taken \in Nat /\ off \in 0..Buf /\ Buf \in Nat
        /\ sent' \in Nat /\ taken' \in Nat /\ off' \in 0..Buf
    BY AllowanceNat, TimeAssumption DEF TypeOK
  <1>2. CASE UNCHANGED cuts
    <2>1. Allowance' = Allowance
      BY <1>2, AllowanceKept
    <2> USE <1>1, <2>1
    \* a step outside send(), one that ends the process, and one that is
    \* somebody else's
    <2>2. ASSUME UNCHANGED <<masked, sent, taken>>,
                 pc \notin Ended \cup {"send"}, pc' # "send"
          PROVE  Ledger'
      BY <2>2 DEF Ledger
    <2>3. ASSUME UNCHANGED <<masked, sent, taken>>,
                 pc' \in Ended, masked => pc # "send"
          PROVE  Ledger'
      BY <2>3 DEF Ledger, Ended
    <2>4. ASSUME UNCHANGED <<pc, masked, sent, taken, off>> PROVE Ledger'
      BY <2>4 DEF Ledger
    <2> USE DEF Goto, loopVars, connVars, histVars, Ended
    <2>5. CASE OpenAndConnect BY <2>2, <2>5 DEF OpenAndConnect
    <2>6. CASE Regist BY <2>2, <2>6 DEF Regist
    <2>7. CASE ReadBegin BY <2>2, <2>7 DEF ReadBegin
    <2>8. CASE TestDeadline
      <3>1. /\ pc = "loop" /\ ~masked /\ UNCHANGED <<masked, sent, taken>>
            /\ off' = 0 /\ pc' \in {"finish", "send"}
        BY <2>8 DEF TestDeadline, MaskedBehindLoop
      <3> QED BY <3>1 DEF Ledger
    <2>9. CASE TakeByte
      <3>1. /\ pc = "send" /\ UNCHANGED <<pc, masked, sent>> /\ ~masked
            /\ off' = off + 1 /\ taken' = taken + 1
        BY <2>9 DEF TakeByte, MaskedBehindLoop
      <3> QED BY <3>1 DEF Ledger
    <2>10. CASE SendReturns
      <3>1. /\ pc = "send" /\ pc' = "loop" /\ ~masked /\ masked' = masked
            /\ off = Buf /\ sent' = sent + Buf /\ taken' = taken
        BY <2>10 DEF SendReturns, Count, MaskedBehindLoop
      <3> QED BY <3>1 DEF Ledger
    <2>11. CASE SendFails BY <2>3, <2>11 DEF SendFails, MaskedBehindLoop
    <2>12. CASE Finish BY <2>2, <2>12 DEF Finish
    <2>13. CASE PrintResult BY <2>2, <2>13 DEF PrintResult
    <2>14. CASE Exit BY <2>2, <2>14 DEF Exit
    <2>15. CASE SigintEarly BY <2>2, <2>15 DEF SigintEarly, SetUp
    <2>16. CASE SigintCaught
      <3>1. /\ pc \in {"loop", "send"} /\ pc' = "finish" /\ ~masked /\ masked'
            /\ UNCHANGED <<sent, taken>>
        BY <2>16 DEF SigintCaught, InTry
      <3> QED BY <3>1 DEF Ledger
    <2>17. CASE SigintOutside BY <2>2, <2>17 DEF SigintOutside, Outside
    <2>18. CASE SigintTerminates BY <2>3, <2>18 DEF SigintTerminates
    <2>19. CASE Killed BY <2>3, <2>19 DEF Killed, MaskedBehindLoop
    <2>20. CASE Tick \/ PeerReads \/ Reset \/ Quiet \/ UNCHANGED vars
      BY <2>4, <2>20 DEF Tick, PeerReads, Reset, Quiet, vars
    <2>21. ~SendCutByReset /\ ~SendInterrupted
      BY <1>2 DEF SendCutByReset, SendInterrupted, TypeOK
    <2> QED BY <2>5, <2>6, <2>7, <2>8, <2>9, <2>10, <2>11, <2>12, <2>13,
               <2>14, <2>15, <2>16, <2>17, <2>18, <2>19, <2>20, <2>21
            DEF Next, ClientStep, Signal
  <1>3. CASE SendCutByReset \/ SendInterrupted
    <2>1. /\ pc = "send" /\ pc' = "loop" /\ masked' = masked /\ ~masked
          /\ sent' = sent + Buf /\ taken' = taken /\ off >= 1
          /\ cuts' = cuts + 1
      BY <1>1, <1>3
         DEF SendCutByReset, SendInterrupted, Count, Goto, connVars,
             MaskedBehindLoop
    <2>2. Allowance' = Allowance + (Buf - 1)
      BY <2>1, AllowanceGrows
    <2> QED BY <1>1, <2>1, <2>2 DEF Ledger
  <1>4. UNCHANGED cuts \/ SendCutByReset \/ SendInterrupted
    BY DEF Next, ClientStep, Signal, OpenAndConnect, Regist, ReadBegin,
           TestDeadline, TakeByte, SendReturns, SendFails, Finish, PrintResult,
           Exit, SigintEarly, SigintCaught, SigintOutside, SigintTerminates,
           Killed, Tick, PeerReads, Reset, Quiet, histVars, vars
  <1> QED BY <1>2, <1>3, <1>4

\* SIGINT is blocked only by the handler that leaves the loop, for good.
LEMMA MaskedStep ==
    MaskedBehindLoop /\ [Next]_vars => MaskedBehindLoop'
  <1> SUFFICES ASSUME MaskedBehindLoop, [Next]_vars PROVE MaskedBehindLoop'
    OBVIOUS
  <1> USE DEF MaskedBehindLoop, Goto, SetUp, InTry, Outside, Ended
  <1>1. CASE ClientStep
    BY <1>1 DEF ClientStep, OpenAndConnect, Regist, ReadBegin, TestDeadline,
                TakeByte, SendReturns, SendCutByReset, SendFails, Finish,
                PrintResult, Exit, Count
  <1>2. CASE Signal
    BY <1>2 DEF Signal, SigintEarly, SigintCaught, SigintOutside,
                SigintTerminates, SendInterrupted, Killed, Count
  <1>3. CASE Tick \/ PeerReads \/ Reset \/ Quiet \/ UNCHANGED vars
    BY <1>3 DEF Tick, PeerReads, Reset, Quiet, vars
  <1> QED BY <1>1, <1>2, <1>3 DEF Next

\* The clock does not go back, the option does not change.
LEMMA DeadlineStays ==
    TypeOK /\ [Next]_vars /\ DeadlinePassed => DeadlinePassed'
  <1> SUFFICES ASSUME TypeOK, [Next]_vars, DeadlinePassed PROVE DeadlinePassed'
    OBVIOUS
  <1>1. time' = time
    BY DEF Next, ClientStep, Signal, OpenAndConnect, Regist, ReadBegin,
           TestDeadline, TakeByte, SendReturns, SendCutByReset, SendFails,
           Finish, PrintResult, Exit, SigintEarly, SigintCaught, SigintOutside,
           SigintTerminates, SendInterrupted, Killed, Tick, PeerReads, Reset,
           Quiet, Goto, Count, vars
  <1>2. clock' = clock \/ clock' = clock + 1
    BY DEF Next, ClientStep, Signal, OpenAndConnect, Regist, ReadBegin,
           TestDeadline, TakeByte, SendReturns, SendCutByReset, SendFails,
           Finish, PrintResult, Exit, SigintEarly, SigintCaught, SigintOutside,
           SigintTerminates, SendInterrupted, Killed, Tick, PeerReads, Reset,
           Quiet, vars
  <1>3. time \in Int /\ clock \in Nat
    BY TimeAssumption DEF TypeOK
  <1> QED BY <1>1, <1>2, <1>3 DEF DeadlinePassed

\* What returns late is counted once, and the loop ends with it.
LEMMA LateStep == TypeOK /\ LateIsLast /\ [Next]_vars => LateIsLast'
  <1> SUFFICES ASSUME TypeOK, LateIsLast, [Next]_vars PROVE LateIsLast'
    OBVIOUS
  <1>1. late \in Nat
    BY DEF TypeOK
  <1>2. DeadlinePassed => DeadlinePassed'
    BY DeadlineStays
  <1>3. CASE SendReturns \/ SendCutByReset \/ SendInterrupted
    <2>1. /\ pc = "send" /\ pc' = "loop"
          /\ late' = late + (IF DeadlinePassed THEN 1 ELSE 0)
      BY <1>3 DEF SendReturns, SendCutByReset, SendInterrupted, Count, Goto
    <2> QED BY <1>1, <1>2, <2>1 DEF LateIsLast
  <1>4. CASE TestDeadline
    <2>1. /\ late' = late
          /\ DeadlinePassed => pc' = "finish"
      BY <1>4 DEF TestDeadline, Goto, histVars
    <2> QED BY <1>1, <1>2, <2>1 DEF LateIsLast
  <1>5. ASSUME late' = late, pc' = pc \/ pc' # "send" PROVE LateIsLast'
    BY <1>1, <1>2, <1>5 DEF LateIsLast
  <1>6. CASE ClientStep /\ ~SendReturns /\ ~SendCutByReset /\ ~TestDeadline
    <2>1. late' = late /\ (pc' = pc \/ pc' # "send")
      BY <1>6 DEF ClientStep, OpenAndConnect, Regist, ReadBegin, TakeByte,
                  SendFails, Finish, PrintResult, Exit, Goto, histVars
    <2> QED BY <1>5, <2>1
  <1>7. CASE Signal /\ ~SendInterrupted
    <2>1. late' = late /\ pc' # "send"
      BY <1>7 DEF Signal, SigintEarly, SigintCaught, SigintOutside,
                  SigintTerminates, Killed, Goto, histVars
    <2> QED BY <1>5, <2>1
  <1>8. CASE Tick \/ PeerReads \/ Reset \/ Quiet \/ UNCHANGED vars
    <2>1. late' = late /\ pc' = pc
      BY <1>8 DEF Tick, PeerReads, Reset, Quiet, histVars, vars
    <2> QED BY <1>5, <2>1
  <1> QED BY <1>3, <1>4, <1>6, <1>7, <1>8 DEF Next

\* The duration is read behind the break, so it covers the deadline.
LEMMA DurationStep ==
    TypeOK /\ LeftByDeadline /\ [Next]_vars => LeftByDeadline'
  <1> SUFFICES ASSUME TypeOK, LeftByDeadline, [Next]_vars PROVE LeftByDeadline'
    OBVIOUS
  <1>1. DeadlinePassed => DeadlinePassed'
    BY DeadlineStays
  <1>2. ASSUME pc' \notin {"finish", "print"} PROVE LeftByDeadline'
    BY <1>2 DEF LeftByDeadline
  <1>3. CASE TestDeadline
    <2>1. pc' = "send" \/ (pc' = "finish" /\ DeadlinePassed)
      BY <1>3 DEF TestDeadline, Goto
    <2> QED BY <1>1, <2>1 DEF LeftByDeadline
  <1>4. CASE Finish
    <2>1. /\ pc = "finish" /\ pc' = "print" /\ masked' = masked
          /\ time' = time /\ dur' = clock
      BY <1>4 DEF Finish, Goto
    <2> QED BY <2>1 DEF LeftByDeadline, DeadlinePassed
  <1>5. CASE SigintCaught
    BY <1>5 DEF SigintCaught, LeftByDeadline
  <1>6. CASE ClientStep /\ ~TestDeadline /\ ~Finish
    <2>1. pc' \notin {"finish", "print"}
      BY <1>6 DEF ClientStep, OpenAndConnect, Regist, ReadBegin, TakeByte,
                  SendReturns, SendCutByReset, SendFails, PrintResult, Exit,
                  Goto, Count
    <2> QED BY <1>2, <2>1
  <1>7. CASE Signal /\ ~SigintCaught
    <2>1. pc' \notin {"finish", "print"}
      BY <1>7 DEF Signal, SigintEarly, SigintOutside, SigintTerminates,
                  SendInterrupted, Killed, Goto, Count
    <2> QED BY <1>2, <2>1
  <1>8. CASE Tick \/ PeerReads \/ Reset \/ Quiet \/ UNCHANGED vars
    <2>1. UNCHANGED <<pc, masked, time, dur>>
      BY <1>8 DEF Tick, PeerReads, Reset, Quiet, loopVars, vars
    <2> QED BY <1>1, <2>1 DEF LeftByDeadline
  <1> QED BY <1>3, <1>4, <1>5, <1>6, <1>7, <1>8 DEF Next

\* The result is printed once, from what the loop left, and then stands.
LEMMA ResultStep ==
    TypeOK /\ Ledger /\ LeftByDeadline /\ PrintedAtEnd /\ CountError /\ NotEarly
        /\ [Next]_vars
    => PrintedAtEnd' /\ CountError' /\ NotEarly'
  <1> SUFFICES ASSUME TypeOK, Ledger, LeftByDeadline, PrintedAtEnd, CountError,
                      NotEarly, [Next]_vars
               PROVE  PrintedAtEnd' /\ CountError' /\ NotEarly'
    OBVIOUS
  <1>1. /\ Allowance \in Nat
        /\ sent \in Nat /\ taken \in Nat /\ Buf \in Nat
    BY AllowanceNat, TimeAssumption DEF TypeOK
  <1>2. CASE PrintResult
    <2>1. /\ pc = "print" /\ pc' = "exit" /\ printed'
          /\ UNCHANGED <<masked, time, dur, sent, taken, cuts>>
      BY <1>2 DEF PrintResult, Goto, connVars, histVars
    <2>2. Allowance' = Allowance
      BY <2>1, AllowanceKept
    <2>3. PrintedAtEnd' /\ NotEarly'
      BY <2>1 DEF PrintedAtEnd, NotEarly, LeftByDeadline
    <2>4. CASE masked
      <3>1. taken <= sent + Buf /\ sent <= taken + Allowance
        BY <2>4 DEF Ledger
      <3>2. taken - sent <= Buf /\ sent - taken <= Allowance
        BY <1>1, <3>1
      <3>3. taken' - sent' <= Buf /\ sent' - taken' <= Allowance' /\ masked'
        BY <2>1, <2>2, <2>4, <3>2
      <3> QED BY <2>3, <3>3 DEF CountError
    <2>5. CASE ~masked
      <3>1. taken <= sent /\ sent <= taken + Allowance
        BY <2>1, <2>5 DEF Ledger, Ended
      <3>2. taken - sent <= 0 /\ sent - taken <= Allowance
        BY <1>1, <3>1
      <3>3. taken' - sent' <= 0 /\ sent' - taken' <= Allowance' /\ ~masked'
        BY <2>1, <2>2, <2>5, <3>2
      <3> QED BY <2>3, <3>3 DEF CountError
    <2> QED BY <2>3, <2>4, <2>5
  <1>3. CASE ~PrintResult
    <2>1. printed' = printed
      BY <1>3 DEF Next, ClientStep, Signal, OpenAndConnect, Regist, ReadBegin,
           TestDeadline, TakeByte, SendReturns, SendCutByReset, SendFails,
           Finish, Exit, SigintEarly, SigintCaught, SigintOutside,
           SigintTerminates, SendInterrupted, Killed, Tick, PeerReads, Reset,
           Quiet, loopVars, vars
    <2>2. CASE ~printed
      BY <2>1, <2>2 DEF PrintedAtEnd, CountError, NotEarly
    <2>3. CASE printed
      <3>1. pc \in Ended \cup {"exit"}
        BY <2>3 DEF PrintedAtEnd
      <3>2. Exit \/ SigintOutside \/ Killed \/ PeerReads \/ Reset \/ Quiet
            \/ UNCHANGED vars
        BY <1>3, <3>1
           DEF Next, ClientStep, Signal, OpenAndConnect, Regist, ReadBegin,
               TestDeadline, TakeByte, SendReturns, SendCutByReset, SendFails,
               Finish, SigintEarly, SigintCaught, SigintTerminates,
               SendInterrupted, Tick, SetUp, InTry, Ended
      <3>3. /\ UNCHANGED <<masked, time, dur, sent, taken, cuts>>
            /\ pc' \in Ended \cup {"exit"}
        BY <3>1, <3>2 DEF Exit, SigintOutside, Killed, PeerReads, Reset, Quiet,
                          Goto, loopVars, connVars, histVars, vars, Ended
      <3>4. Allowance' = Allowance
        BY <3>3, AllowanceKept
      <3> QED BY <2>1, <3>3, <3>4 DEF PrintedAtEnd, CountError, NotEarly
    <2> QED BY <2>2, <2>3
  <1> QED BY <1>2, <1>3

-----------------------------------------------------------------------------
(***************************************************************************)
(* The theorems.                                                           *)
(***************************************************************************)

\* The inductive invariant holds in every reachable state.
THEOREM Invariance == Spec => []IInv
  <1>1. Init => IInv
    BY InitIInv
  <1>2. IInv /\ [Next]_vars => IInv'
    BY TypeStep, LedgerStep, MaskedStep, LateStep, DurationStep, ResultStep
       DEF IInv
  <1> QED BY <1>1, <1>2, PTL DEF Spec

\* The variables keep their types.
THEOREM TypeCorrect == Spec => []TypeOK
  <1>1. IInv => TypeOK
    BY DEF IInv
  <1> QED BY <1>1, Invariance, PTL

\* The printed count misses at most the interrupted buffer, and overstates by
\* less than a buffer for each send() that returned less than it was given.
THEOREM CountIsClose == Spec => []CountError
  <1>1. IInv => CountError
    BY DEF IInv
  <1> QED BY <1>1, Invariance, PTL

\* The deadline is overrun by at most one send() call.
THEOREM OverrunByOneCall == Spec => []OneLateCall
  <1>1. IInv => OneLateCall
    BY DEF IInv, TypeOK, LateIsLast, OneLateCall
  <1> QED BY <1>1, Invariance, PTL

\* A run that was not interrupted lasts at least as long as it was asked to.
THEOREM NeverEarly == Spec => []NotEarly
  <1>1. IInv => NotEarly
    BY DEF IInv
  <1> QED BY <1>1, Invariance, PTL

\* After a SIGINT that was caught no other SIGINT can lose the result.
THEOREM SecondInterruptHarmless == Spec => []InterruptKeepsResult
  <1>1. IInv => InterruptKeepsResult
    BY DEF IInv, MaskedBehindLoop, InterruptKeepsResult
  <1> QED BY <1>1, Invariance, PTL
==============================================================================
