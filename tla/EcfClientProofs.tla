---------------------------- MODULE EcfClientProofs ----------------------------
(***************************************************************************)
(* Proofs about EcfClient, for every set of block files, every buffer,     *)
(* number of scripts and fault budget.                                     *)
(***************************************************************************)
EXTENDS EcfClient, ChunkPlanProofs, SequenceTheorems

\* The client is between two blocks, or in one of them.
InBlock == {"before", "send", "after"} \cup InScript
InLoop == {"next"} \cup InBlock

\* Before the loop nothing has happened.
AtStart ==
    pc \in {"start", "setup"} => /\ i = 1 /\ rows = 0
                                 /\ taken = 0 /\ cuts = {}

\* The rows are those of the blocks before the one in hand, and its own once
\* it is sent.
RowsOfBlocks ==
    /\ pc \in InBlock => i <= Len(blocks)
    /\ pc = "next" => i <= Len(blocks) + 1
    /\ pc \in {"next", "before", "runbefore", "send"} => rows = i - 1
    /\ pc \in {"after", "runafter"} => rows = i
    /\ pc = "exit0" => rows = Len(blocks)

\* The bytes of the blocks whose rows are printed.
Due == PlannedUpTo(rows)

\* The bytes of all rows have been handed over; in transfer_block() those of
\* the calls that have returned too, and some of the call in progress.
HandedOver ==
    /\ pc = "send" => /\ call <= CallsNow
                      /\ IF InCall THEN off < LenNow ELSE off = 0
    /\ cuts = {} =>
        /\ pc \in (InLoop \ {"send"}) \cup {"exit0"} => taken = Due
        /\ pc = "send" =>
              taken = Due + Prefix(blocks[i].size, SendBuf, call) + off

\* run_cmd() runs with SIGCHLD at its default.
DefaultInScript == pc \in InScript => chld = "dfl"

\* The end of the stream lies behind the end of the process and the last byte.
EofBehindEnd == link = "eof" => pc \in Ended /\ got = taken

IInv ==
    /\ TypeOK
    /\ AtStart
    /\ RowsOfBlocks
    /\ HandedOver
    /\ DefaultInScript
    /\ AbortMeansFailure
    /\ EofBehindEnd
    /\ RunCmdWaits

-----------------------------------------------------------------------------
\* What a prefix without a bad line consists of.
LEMMA PrefixIsBlocks ==
    ASSUME NEW file \in Files, NEW n \in 0..Len(file),
           \A m \in 1..n : file[m] # BadLine
    PROVE  SubSeq(file, 1, n) \in Seq(Line)
<1>1. file \in Seq(Line \cup {BadLine})
  BY EcfAssumption
<1>2. Len(file) \in Nat /\ \A m \in 1..Len(file) : file[m] \in Line \cup {BadLine}
  BY <1>1
<1>3. \A m \in 1..n : file[m] \in Line
  BY <1>2
<1> QED
  BY <1>2, <1>3, SubSeqProperties

\* The block in hand and its plan.
LEMMA BlockFacts ==
    ASSUME TypeOK, pc \in InBlock => i <= Len(blocks), pc \in InBlock
    PROVE  /\ i \in 1..Len(blocks)
           /\ blocks[i].size \in Nat
           /\ blocks[i].before \in Int /\ blocks[i].after \in Int
           /\ CallsNow \in Nat
           /\ Planned(blocks[i].size, SendBuf) \in Nat
<1>1. blocks \in Seq(Line) /\ i \in Nat \ {0} /\ Len(blocks) \in Nat
  BY DEF TypeOK
<1>2. i \in 1..Len(blocks)
  BY <1>1
<1>3. blocks[i] \in Line
  BY <1>1, <1>2
<1>4. blocks[i].size \in Nat /\ blocks[i].before \in Int /\ blocks[i].after \in Int
  BY <1>3 DEF Line
<1>5. SendBuf \in Nat \ {0}
  BY EcfAssumption
<1> QED
  BY <1>2, <1>4, <1>5, PlanParts, PrefixEnds DEF CallsNow

\* The call in progress asks for a byte at least and takes the running total
\* one step further.
LEMMA CallFacts ==
    ASSUME TypeOK, pc \in InBlock => i <= Len(blocks), InCall
    PROVE  /\ LenNow \in 1..SendBuf
           /\ Prefix(blocks[i].size, SendBuf, call) \in Nat
           /\ Prefix(blocks[i].size, SendBuf, call + 1) =
                 Prefix(blocks[i].size, SendBuf, call) + LenNow
<1> DEFINE kb == blocks[i].size
<1>1. kb \in Nat /\ CallsNow = Calls(kb, SendBuf) /\ CallsNow \in Nat
  BY BlockFacts DEF InCall, InBlock, CallsNow
<1>7. LenNow = CallLen(kb, SendBuf, call)
  BY DEF LenNow
<1> HIDE DEF kb
<1>2. SendBuf \in Nat \ {0} /\ call \in Nat /\ call < Calls(kb, SendBuf)
  BY <1>1, EcfAssumption DEF TypeOK, InCall
<1>3. call \in 0..(Calls(kb, SendBuf) - 1)
  BY <1>1, <1>2
<1>4. FullCalls(kb, SendBuf) \in Nat /\ Residue(kb, SendBuf) \in Nat
  <2>1. FullCalls(kb, SendBuf) \in Nat /\ Residue(kb, SendBuf) \in 0..(SendBuf - 1)
    BY <1>1, <1>2, PlanParts
  <2> QED BY <1>2, <2>1
<1>5. call * SendBuf \in Nat /\ FullCalls(kb, SendBuf) * SendBuf \in Nat
  <2>1. \A m, d \in Nat : m * d \in Nat
    OBVIOUS
  <2> QED BY <1>2, <1>4, <2>1
<1>6. Prefix(kb, SendBuf, call) \in Nat
  BY <1>4, <1>5 DEF Prefix
<1>8. CallLen(kb, SendBuf, call) \in 1..SendBuf
  BY <1>1, <1>2, <1>3, CallInBuffer
<1>9. Prefix(kb, SendBuf, call + 1) =
         Prefix(kb, SendBuf, call) + CallLen(kb, SendBuf, call)
  BY <1>1, <1>2, <1>3, PrefixStep
<1> QED
  BY <1>6, <1>7, <1>8, <1>9 DEF kb

-----------------------------------------------------------------------------
\* What the rows add up to: nothing at first, then block after block.
LEMMA PlannedSteps ==
    /\ PlannedUpTo(0) = 0
    /\ \A n \in Nat : PlannedUpTo(n + 1) =
          PlannedUpTo(n) + Planned(blocks[n + 1].size, SendBuf)
<1> DEFINE a == [m \in Nat |-> Planned(blocks[m + 1].size, SendBuf)]
<1>1. \A n : PlannedUpTo(n) = SumOf(a)[n]
  BY DEF PlannedUpTo
<1>2. \A n \in Nat : a[n] = Planned(blocks[n + 1].size, SendBuf)
  OBVIOUS
<1> HIDE DEF a
<1> QED
  BY <1>1, <1>2, SumOfRecursion

LEMMA PlannedUpToNat ==
    ASSUME TypeOK
    PROVE  \A n \in 0..Len(blocks) : PlannedUpTo(n) \in Nat
<1> DEFINE S == {n \in Nat : n <= Len(blocks) => PlannedUpTo(n) \in Nat}
<1>1. blocks \in Seq(Line) /\ Len(blocks) \in Nat
  BY DEF TypeOK
<1>2. 0 \in S
  BY PlannedSteps
<1>3. ASSUME NEW n \in Nat, n \in S PROVE n + 1 \in S
  <2>1. SUFFICES ASSUME n + 1 <= Len(blocks) PROVE PlannedUpTo(n + 1) \in Nat
    OBVIOUS
  <2>2. n + 1 \in 1..Len(blocks) /\ PlannedUpTo(n) \in Nat
    BY <1>1, <1>3, <2>1
  <2>3. blocks[n + 1].size \in Nat
    <3>1. blocks[n + 1] \in Line
      BY <1>1, <2>2
    <3> QED BY <3>1 DEF Line
  <2>4. Planned(blocks[n + 1].size, SendBuf) \in Nat
    BY <2>3, PrefixEnds, EcfAssumption
  <2>5. PlannedUpTo(n + 1) = PlannedUpTo(n) + Planned(blocks[n + 1].size, SendBuf)
    BY PlannedSteps
  <2> QED BY <2>2, <2>4, <2>5
<1>4. Nat \subseteq S
  <2> HIDE DEF S
  <2> QED BY <1>2, <1>3, Induction
<1> QED
  BY <1>1, <1>4

\* In the loop the rows are blocks of the file.
LEMMA DueNat ==
    ASSUME TypeOK, RowsOfBlocks, pc \in InLoop
    PROVE  Due \in Nat
<1>1. rows \in Nat /\ i \in Nat /\ Len(blocks) \in Nat
  BY DEF TypeOK
<1>2. rows \in 0..Len(blocks)
  BY <1>1 DEF RowsOfBlocks, InLoop, InBlock, InScript
<1> QED
  BY <1>2, PlannedUpToNat DEF Due

LEMMA SameDue ==
    ASSUME UNCHANGED <<blocks, rows>>
    PROVE  Due' = Due
  BY DEF Due, PlannedUpTo

-----------------------------------------------------------------------------
LEMMA InitIInv == Init => IInv
<1> SUFFICES ASSUME Init PROVE IInv
  OBVIOUS
<1>1. TypeOK
  <2>0. rst \in BOOLEAN
    BY Zenon DEF Init
  <2>1. blocks \in Seq(Line) /\ cuts \subseteq 1..Len(blocks)
    BY DEF Init
  <2>2. chld \in {"dfl", "ign"} /\ oldsig \in {"dfl", "ign"}
    BY DEF Init
  <2>3. faults \in 0..MaxFaults
    BY EcfAssumption DEF Init
  <2> QED BY <2>0, <2>1, <2>2, <2>3 DEF Init, TypeOK
<1> QED
  BY <1>1 DEF Init, IInv, AtStart, RowsOfBlocks, HandedOver, DefaultInScript,
              AbortMeansFailure, EofBehindEnd, RunCmdWaits, InLoop, InBlock, InScript,
              InCall, Ended

LEMMA MaxFaultsNat == MaxFaults \in Nat
  BY EcfAssumption

\* Every step keeps the types.
LEMMA TypeStep ==
    TypeOK /\ AtStart /\ RowsOfBlocks /\ [Next]_vars => TypeOK'
<1> SUFFICES ASSUME TypeOK, AtStart, RowsOfBlocks, [Next]_vars PROVE TypeOK'
  OBVIOUS
<1>0. pc \in InBlock => /\ i \in 1..Len(blocks)
                        /\ Planned(blocks[i].size, SendBuf) \in Nat
  BY BlockFacts DEF RowsOfBlocks
<1> USE DEF TypeOK, InScript, Ended, blockVars, scriptVars, connVars, Fault
<1>1. CASE ReadBlocks
  <2>1. blocks' \in Seq(Line)
    BY <1>1, PrefixIsBlocks DEF ReadBlocks
  <2>2. cuts' = {}
    BY <1>1 DEF ReadBlocks, AtStart
  <2> QED BY <1>1, <2>1, <2>2 DEF ReadBlocks
<1>2. CASE NoBlockFile
  BY <1>2 DEF NoBlockFile
<1>3. CASE OpenAndConnect
  BY <1>3 DEF OpenAndConnect
<1>4. CASE NextBlock
  BY <1>4 DEF NextBlock
<1>5. ASSUME NEW here, NEW then \in {"send", "next"}, NEW n, SkipScript(here, then, n),
             BeginSend \/ BlockDone
      PROVE  TypeOK'
  <2>1. CASE BeginSend BY <1>5, <2>1 DEF SkipScript, BeginSend
  <2>2. CASE BlockDone BY <1>5, <2>2 DEF SkipScript, BlockDone
  <2> QED BY <1>5, <2>1, <2>2
<1>6. ASSUME NEW here, NEW n, NoSuchScript(here, n) PROVE TypeOK'
  BY <1>6 DEF NoSuchScript
<1>7. ASSUME NEW here, NEW run \in InScript, NEW n, StartScript(here, run, n)
      PROVE  TypeOK'
  BY <1>7, MaxFaultsNat DEF StartScript
<1>8. CASE ScriptBefore
  BY <1>5, <1>6, <1>7, <1>8 DEF ScriptBefore
<1>9. CASE ScriptAfter
  BY <1>5, <1>6, <1>7, <1>9 DEF ScriptAfter
<1>10. ASSUME NEW run, NEW then \in {"send", "next"}, ScriptSucceeds(run, then),
              BeginSend \/ BlockDone
       PROVE  TypeOK'
  <2>1. CASE BeginSend BY <1>10, <2>1 DEF ScriptSucceeds, BeginSend
  <2>2. CASE BlockDone BY <1>10, <2>2 DEF ScriptSucceeds, BlockDone
  <2> QED BY <1>10, <2>1, <2>2
<1>11. ASSUME NEW run, ScriptFails(run) PROVE TypeOK'
  BY <1>11 DEF ScriptFails
<1>12. CASE RunCmdReturns
  BY <1>10, <1>11, <1>12 DEF RunCmdReturns
<1>13. CASE TakeByte
  BY <1>13 DEF TakeByte
<1>14. ASSUME CutShort, faults' \in 0..MaxFaults PROVE TypeOK'
  <2>1. i \in 1..Len(blocks)
    BY <1>0, <1>14 DEF CutShort, InCall, InBlock
  <2> QED BY <1>14, <2>1 DEF CutShort
<1>15. CASE SendCutByReset
  BY <1>14, <1>15 DEF SendCutByReset
<1>16. CASE SendInterrupted
  BY <1>14, <1>16, MaxFaultsNat DEF SendInterrupted
<1>17. CASE SendFails
  BY <1>17 DEF SendFails
<1>18. CASE PrintRow
  <2>1. rows' \in Nat /\ UNCHANGED <<blocks, i, call, off, cuts, faults>>
    BY <1>18 DEF PrintRow
  <2>2. UNCHANGED <<scriptVars, connVars>> /\ pc' = "after"
    BY <1>18 DEF PrintRow
  <2> QED BY <2>1, <2>2
<1>19. CASE Killed
  BY <1>19, MaxFaultsNat DEF Killed
<1>20. CASE ShellEnds
  BY <1>20, MaxFaultsNat DEF ShellEnds
<1>21. CASE LeavesProcess
  BY <1>21, MaxFaultsNat DEF LeavesProcess
<1>22. CASE LeftEnds
  BY <1>22 DEF LeftEnds
<1>23. CASE PeerReads
  BY <1>23 DEF PeerReads
<1>24. CASE PeerEof
  BY <1>24 DEF PeerEof
<1>25. CASE Reset
  BY <1>25, MaxFaultsNat DEF Reset
<1>26. CASE UNCHANGED vars
  BY <1>26 DEF vars
<1>27. CASE Quiet
  BY <1>26, <1>27 DEF Quiet
<1> QED
  BY <1>1, <1>2, <1>3, <1>4, <1>8, <1>9, <1>12, <1>13, <1>15, <1>16, <1>17,
     <1>18, <1>19, <1>20, <1>21, <1>22, <1>23, <1>24, <1>25, <1>26, <1>27
     DEF Next, ClientStep

\* The block in hand, and its plan, are the same as long as nobody moves on.
LEMMA SameBlock ==
    ASSUME UNCHANGED <<blocks, i>>
    PROVE  /\ CallsNow' = CallsNow
           /\ blocks'[i'] = blocks[i]
  BY DEF CallsNow

\* The position in the file.
LEMMA PositionStep ==
    TypeOK /\ AtStart /\ RowsOfBlocks /\ [Next]_vars => (AtStart /\ RowsOfBlocks)'
<1> SUFFICES ASSUME TypeOK, AtStart, RowsOfBlocks, [Next]_vars
             PROVE  AtStart' /\ RowsOfBlocks'
  OBVIOUS
<1>0. i \in Nat \ {0} /\ rows \in Nat /\ Len(blocks) \in Nat
  BY DEF TypeOK
<1> USE DEF AtStart, RowsOfBlocks, InBlock, InScript, Ended, blockVars, connVars
<1>1. CASE ReadBlocks
  <2>1. pc' = "setup" /\ pc = "start" /\ UNCHANGED <<i, rows, taken, cuts>>
    BY <1>1 DEF ReadBlocks
  <2> QED BY <2>1
<1>2. CASE NoBlockFile
  BY <1>2 DEF NoBlockFile
<1>3. CASE OpenAndConnect
  <2>1. pc = "setup" /\ pc' \in {"next", "exit1"} /\ UNCHANGED <<i, rows, blocks>>
    BY <1>3 DEF OpenAndConnect
  <2>2. i' = 1 /\ rows' = 0 /\ Len(blocks') \in Nat
    BY <1>0, <2>1
  <2> QED BY <2>1, <2>2
<1>4. CASE NextBlock
  <2>1. pc = "next" /\ UNCHANGED <<i, rows, blocks>>
    BY <1>4 DEF NextBlock
  <2>2. pc' = IF i <= Len(blocks) THEN "before" ELSE "exit0"
    BY <1>4 DEF NextBlock
  <2>3. CASE i <= Len(blocks)
    BY <2>1, <2>2, <2>3
  <2>4. CASE ~(i <= Len(blocks))
    <3>1. rows' = Len(blocks') /\ pc' = "exit0"
      BY <1>0, <2>1, <2>2, <2>4
    <3> QED BY <3>1
  <2> QED BY <2>3, <2>4
\* what begins or ends a block, whichever way its scripts come out
<1>5. ASSUME pc \in {"before", "runbefore"}, pc' \in {"runbefore", "send"} \cup Ended,
             pc' # "exit0", UNCHANGED <<blocks, i, rows>>
      PROVE  AtStart' /\ RowsOfBlocks'
  BY <1>5
<1>6. ASSUME pc \in {"after", "runafter"}, pc' = "runafter" \/ pc' \in Ended,
             pc' # "exit0", UNCHANGED <<blocks, i, rows>>
      PROVE  AtStart' /\ RowsOfBlocks'
  BY <1>6
<1>7. ASSUME pc \in {"after", "runafter"}, pc' = "next", BlockDone
      PROVE  AtStart' /\ RowsOfBlocks'
  <2>1. i' = i + 1 /\ UNCHANGED <<blocks, rows>>
    BY <1>7 DEF BlockDone
  <2>2. i' <= Len(blocks') + 1 /\ rows' = i' - 1
    BY <1>0, <1>7, <2>1
  <2> QED BY <1>7, <2>2
<1>8. CASE ScriptBefore
  BY <1>5, <1>8 DEF ScriptBefore, SkipScript, NoSuchScript, StartScript, BeginSend
<1>9. CASE ScriptAfter
  BY <1>6, <1>7, <1>9 DEF ScriptAfter, SkipScript, NoSuchScript, StartScript
<1>10. CASE RunCmdReturns
  <2>1. CASE ScriptSucceeds("runbefore", "send") /\ BeginSend
    BY <1>5, <2>1 DEF ScriptSucceeds, ScriptDone, BeginSend
  <2>2. CASE ScriptSucceeds("runafter", "next") /\ BlockDone
    BY <1>7, <2>2 DEF ScriptSucceeds, ScriptDone
  <2>3. ASSUME NEW run \in InScript, ScriptFails(run)
        PROVE  AtStart' /\ RowsOfBlocks'
    BY <1>5, <1>6, <2>3 DEF ScriptFails, ScriptDone
  <2> QED BY <1>10, <2>1, <2>2, <2>3 DEF RunCmdReturns
<1>11. CASE PrintRow
  <2>1. /\ pc = "send" /\ pc' = "after" /\ rows' = rows + 1
        /\ UNCHANGED <<blocks, i>>
    BY <1>11 DEF PrintRow
  <2>2. rows' = i'
    BY <1>0, <2>1
  <2> QED BY <2>1, <2>2
\* the rest stays in its block or ends the process
<1>12. ASSUME pc = "send", pc' = "send" \/ pc' \in {"exit1", "killed"},
              UNCHANGED <<blocks, i, rows>>
       PROVE  AtStart' /\ RowsOfBlocks'
  BY <1>12
<1>13. CASE TakeByte
  BY <1>12, <1>13 DEF TakeByte, InCall
<1>14. CASE SendCutByReset \/ SendInterrupted
  BY <1>12, <1>14 DEF SendCutByReset, SendInterrupted, CutShort, InCall
<1>15. CASE SendFails
  BY <1>12, <1>15 DEF SendFails, InCall
<1>16. CASE Killed
  BY <1>16 DEF Killed
<1>17. ASSUME UNCHANGED <<pc, blocks, i, rows, taken, cuts>>
       PROVE  AtStart' /\ RowsOfBlocks'
  BY <1>17
<1>18. CASE ShellEnds \/ LeavesProcess \/ LeftEnds
  BY <1>17, <1>18 DEF ShellEnds, LeavesProcess, LeftEnds
<1>19. CASE PeerReads \/ PeerEof \/ Reset
  BY <1>17, <1>19 DEF PeerReads, PeerEof, Reset
<1>20. CASE Quiet \/ UNCHANGED vars
  BY <1>17, <1>20 DEF Quiet, vars
<1> QED
  BY <1>1, <1>2, <1>3, <1>4, <1>8, <1>9, <1>10, <1>11, <1>13, <1>14, <1>15,
     <1>16, <1>18, <1>19, <1>20
     DEF Next, ClientStep

\* The account of the bytes: send() calls move it, a row settles it.
LEMMA HandedStep ==
    /\ TypeOK /\ TypeOK' /\ AtStart /\ RowsOfBlocks /\ HandedOver
    /\ [Next]_vars
    => HandedOver'
<1> SUFFICES ASSUME TypeOK, TypeOK', AtStart, RowsOfBlocks, HandedOver,
                    [Next]_vars
             PROVE  HandedOver'
  OBVIOUS
<1>0. call \in Nat /\ off \in Nat /\ taken \in Nat /\ i \in Nat
  BY DEF TypeOK
<1>a. pc \in InLoop => Due \in Nat
  BY DueNat
\* a step to a control point at which nothing is owed
<1>1. ASSUME pc \in InLoop \ {"send"}, pc' # "send",
             UNCHANGED <<blocks, rows, taken, cuts>>
      PROVE  HandedOver'
  BY <1>1, SameDue DEF HandedOver
<1>2. ASSUME pc' \in Ended \ {"exit0"} PROVE HandedOver'
  BY <1>2 DEF HandedOver, InLoop, InBlock, InScript, Ended
\* transfer_block() is entered with nothing sent
<1>3. ASSUME pc \in {"before", "runbefore"}, pc' = "send", BeginSend,
             UNCHANGED <<taken, cuts>>
      PROVE  HandedOver'
  <2>1. call' = 0 /\ off' = 0 /\ UNCHANGED <<blocks, i, rows>>
    BY <1>3 DEF BeginSend
  <2>2. pc \in InBlock /\ SendBuf \in Nat \ {0} /\ blocks[i].size \in Nat
    BY <1>3, BlockFacts, EcfAssumption DEF InBlock, InScript, RowsOfBlocks
  <2>3. Prefix(blocks[i].size, SendBuf, 0) = 0
    BY <2>2, PrefixEnds
  <2>4. CallsNow \in Nat
    BY <2>2, BlockFacts DEF RowsOfBlocks
  <2>5. CallsNow' = CallsNow /\ blocks'[i'] = blocks[i]
    BY <2>1, SameBlock
  <2>6. call' <= CallsNow'
    BY <2>1, <2>4, <2>5
  <2>7. InCall' => off' < LenNow'
    <3> SUFFICES ASSUME InCall' PROVE off' < LenNow'
      OBVIOUS
    <3>1. 0 < CallsNow
      BY <2>1, <2>4, <2>5 DEF InCall
    <3>2. CallLen(blocks[i].size, SendBuf, 0) \in 1..SendBuf
      <4> DEFINE kb == blocks[i].size
      <4>1. kb \in Nat /\ 0 \in 0..(Calls(kb, SendBuf) - 1)
        BY <2>2, <2>4, <3>1 DEF CallsNow
      <4> HIDE DEF kb
      <4>2. CallLen(kb, SendBuf, 0) \in 1..SendBuf
        BY <2>2, <4>1, CallInBuffer
      <4> QED BY <4>2 DEF kb
    <3>3. LenNow' = CallLen(blocks[i].size, SendBuf, 0)
      BY <2>1 DEF LenNow
    <3> QED BY <2>1, <2>2, <3>2, <3>3
  <2>8. cuts = {} => taken = Due
    BY <1>3 DEF HandedOver, InLoop, InBlock, InScript
  <2>9. cuts' = {} =>
           taken' = Due' + Prefix(blocks'[i'].size, SendBuf, call') + off'
    <3>1. Due' = Due /\ Due \in Nat
      BY <1>3, <1>a, <2>1, SameDue DEF InLoop, InBlock, InScript
    <3> QED BY <1>0, <1>3, <2>1, <2>3, <2>5, <2>8, <3>1
  <2> QED BY <1>3, <2>1, <2>6, <2>7, <2>9
          DEF HandedOver, InLoop, InBlock, InScript
\* a send() call goes on, returns with everything, or is cut short
<1>4. CASE TakeByte
  <2>1. /\ InCall /\ taken' = taken + 1
        /\ UNCHANGED <<pc, blocks, i, rows, cuts>>
    BY <1>4 DEF TakeByte
  <2>7. Due' = Due /\ Due \in Nat
    BY <1>a, <2>1, SameDue DEF InCall, InLoop, InBlock
  <2>2. /\ LenNow \in 1..SendBuf
        /\ Prefix(blocks[i].size, SendBuf, call) \in Nat
        /\ Prefix(blocks[i].size, SendBuf, call + 1) =
              Prefix(blocks[i].size, SendBuf, call) + LenNow
    BY <2>1, CallFacts DEF RowsOfBlocks
  <2>3. CallsNow' = CallsNow /\ blocks'[i'] = blocks[i] /\ pc = "send"
    BY <2>1, SameBlock DEF InCall
  <2>4. /\ CallsNow \in Nat /\ call < CallsNow /\ off < LenNow
        /\ cuts = {} => taken = Due + Prefix(blocks[i].size, SendBuf, call) + off
    BY <2>1, <2>3, BlockFacts DEF HandedOver, InCall, InBlock, RowsOfBlocks
  <2>5. CASE off + 1 = LenNow
    <3>1. call' = call + 1 /\ off' = 0
      BY <1>4, <2>5 DEF TakeByte
    <3>2. call' <= CallsNow'
      BY <1>0, <2>3, <2>4, <3>1
    <3>3. cuts' = {} =>
             taken' = Due' + Prefix(blocks'[i'].size, SendBuf, call') + off'
      BY <1>0, <2>1, <2>2, <2>3, <2>4, <2>5, <2>7, <3>1
    <3>4. InCall' => off' < LenNow'
      <4> SUFFICES ASSUME InCall' PROVE off' < LenNow'
        OBVIOUS
      <4>1. LenNow' \in 1..SendBuf
        <5> DEFINE kb == blocks[i].size
        <5>1. kb \in Nat /\ SendBuf \in Nat \ {0}
          BY <2>1, BlockFacts, EcfAssumption DEF InCall, InBlock, RowsOfBlocks
        <5>2. CallsNow = Calls(kb, SendBuf)
          BY DEF CallsNow
        <5>3. LenNow' = CallLen(kb, SendBuf, call + 1)
          BY <2>1, <3>1 DEF LenNow
        <5> HIDE DEF kb
        <5>4. call + 1 \in 0..(Calls(kb, SendBuf) - 1)
          BY <1>0, <2>3, <2>4, <3>1, <5>2 DEF InCall
        <5> QED BY <5>1, <5>3, <5>4, CallInBuffer
      <4> QED BY <3>1, <4>1, EcfAssumption
    <3> QED BY <2>1, <2>3, <3>1, <3>2, <3>3, <3>4
            DEF HandedOver, InLoop, InBlock, InScript
  <2>6. CASE off + 1 # LenNow
    <3>1. off' = off + 1 /\ UNCHANGED call
      BY <1>4, <2>6 DEF TakeByte
    <3>2. off' < LenNow' /\ LenNow' = LenNow /\ InCall'
      BY <1>0, <2>1, <2>2, <2>3, <2>4, <2>6, <3>1, EcfAssumption DEF LenNow, InCall
    <3>3. cuts' = {} =>
             taken' = Due' + Prefix(blocks'[i'].size, SendBuf, call') + off'
      BY <1>0, <2>1, <2>2, <2>3, <2>4, <2>7, <3>1
    <3> QED BY <1>0, <2>1, <2>3, <2>4, <3>1, <3>2, <3>3
            DEF HandedOver, InLoop, InBlock, InScript
  <2> QED BY <2>5, <2>6
<1>5. ASSUME CutShort PROVE HandedOver'
  <2>1. /\ InCall /\ call' = call + 1 /\ off' = 0 /\ cuts' # {}
        /\ UNCHANGED <<pc, blocks, i>>
    BY <1>5 DEF CutShort
  <2>2. CallsNow' = CallsNow /\ blocks'[i'] = blocks[i] /\ pc = "send"
    BY <2>1, SameBlock DEF InCall
  <2>3. CallsNow \in Nat /\ call < CallsNow
    BY <2>1, <2>2, BlockFacts DEF InCall, InBlock, RowsOfBlocks
  <2>4. call' <= CallsNow'
    BY <1>0, <2>1, <2>2, <2>3
  <2>5. InCall' => off' < LenNow'
    <3> SUFFICES ASSUME InCall' PROVE off' < LenNow'
      OBVIOUS
    <3> DEFINE kb == blocks[i].size
    <3>1. kb \in Nat /\ SendBuf \in Nat \ {0}
      BY <2>1, BlockFacts, EcfAssumption DEF InCall, InBlock, RowsOfBlocks
    <3>2. CallsNow = Calls(kb, SendBuf)
      BY DEF CallsNow
    <3>3. LenNow' = CallLen(kb, SendBuf, call + 1)
      BY <2>1 DEF LenNow
    <3> HIDE DEF kb
    <3>4. call + 1 \in 0..(Calls(kb, SendBuf) - 1)
      BY <1>0, <2>1, <2>2, <2>3, <3>2 DEF InCall
    <3>5. LenNow' \in 1..SendBuf
      BY <3>1, <3>3, <3>4, CallInBuffer
    <3> QED BY <2>1, <3>1, <3>5
  <2> QED BY <2>1, <2>2, <2>4, <2>5 DEF HandedOver, InLoop, InBlock, InScript
\* the row: all calls have returned, and what they took was planned
<1>6. CASE PrintRow
  <2>1. /\ pc = "send" /\ pc' = "after" /\ call = CallsNow
        /\ rows' = rows + 1
        /\ UNCHANGED <<blocks, taken, cuts>>
    BY <1>6 DEF PrintRow, connVars
  <2>7. Due \in Nat /\ Due' = Due + Planned(blocks[i].size, SendBuf)
    <3>1. rows \in Nat /\ rows + 1 = i /\ rows = i - 1
      BY <2>1 DEF TypeOK, RowsOfBlocks
    <3>2. Due' = PlannedUpTo(rows + 1)
      BY <2>1 DEF Due, PlannedUpTo
    <3>3. PlannedUpTo(rows + 1) = PlannedUpTo(rows) + Planned(blocks[i].size, SendBuf)
      BY <3>1, PlannedSteps
    <3> QED BY <1>a, <2>1, <3>2, <3>3 DEF Due, InLoop, InBlock
  <2>2. SendBuf \in Nat \ {0} /\ blocks[i].size \in Nat /\ CallsNow \in Nat
    BY <2>1, BlockFacts, EcfAssumption DEF InBlock, RowsOfBlocks
  <2>3. /\ Prefix(blocks[i].size, SendBuf, call) = Planned(blocks[i].size, SendBuf)
        /\ Planned(blocks[i].size, SendBuf) \in Nat
    BY <2>1, <2>2, PrefixEnds DEF CallsNow
  <2>4. ~InCall
    BY <2>1, <2>2 DEF InCall
  <2>5. off = 0 /\ (cuts = {} =>
           taken = Due + Prefix(blocks[i].size, SendBuf, call) + off)
    BY <2>1, <2>4 DEF HandedOver
  <2>6. cuts' = {} => taken' = Due'
    BY <1>0, <2>1, <2>3, <2>5, <2>7
  <2> QED BY <2>1, <2>6 DEF HandedOver
\* nothing the account speaks of
<1>7. ASSUME UNCHANGED <<pc, blocks, i, call, off, rows, taken, cuts>>
      PROVE  HandedOver'
  <2>1. CallsNow' = CallsNow /\ LenNow' = LenNow /\ (InCall' <=> InCall)
    BY <1>7 DEF CallsNow, LenNow, InCall
  <2> QED BY <1>7, <2>1, SameDue DEF HandedOver
<1> USE DEF blockVars, connVars
<1>8. CASE ReadBlocks
  BY <1>8 DEF ReadBlocks, HandedOver, InLoop, InBlock, InScript
<1>9. CASE OpenAndConnect
  <2>1. pc' \in {"next", "exit1"} /\ taken' = 0 /\ rows' = 0
    BY <1>9 DEF OpenAndConnect, AtStart
  <2>2. Due' = 0
    <3>1. Due' = PlannedUpTo(rows)'
      BY DEF Due
    <3>2. rows = 0 /\ UNCHANGED <<blocks, rows>>
      BY <1>9 DEF OpenAndConnect, AtStart
    <3> QED BY <3>2, SameDue, PlannedSteps DEF Due
  <2> QED BY <2>1, <2>2 DEF HandedOver, InLoop, InBlock, InScript
<1>10. CASE NextBlock
  BY <1>1, <1>10 DEF NextBlock, InLoop
<1>11. CASE ScriptBefore
  <2>1. ASSUME NEW n, SkipScript("before", "send", n), BeginSend PROVE HandedOver'
    BY <1>3, <2>1 DEF SkipScript
  <2>2. ASSUME NEW n, NoSuchScript("before", n) PROVE HandedOver'
    BY <1>2, <2>2 DEF NoSuchScript, Ended
  <2>3. ASSUME NEW n, StartScript("before", "runbefore", n) PROVE HandedOver'
    BY <1>1, <1>2, <2>3 DEF StartScript, Ended, InLoop, InBlock
  <2> QED BY <1>11, <2>1, <2>2, <2>3 DEF ScriptBefore
<1>12. CASE ScriptAfter
  <2>1. ASSUME NEW n, SkipScript("after", "next", n), BlockDone PROVE HandedOver'
    BY <1>1, <2>1 DEF SkipScript, BlockDone, InLoop, InBlock
  <2>2. ASSUME NEW n, NoSuchScript("after", n) PROVE HandedOver'
    BY <1>2, <2>2 DEF NoSuchScript, Ended
  <2>3. ASSUME NEW n, StartScript("after", "runafter", n) PROVE HandedOver'
    BY <1>1, <1>2, <2>3 DEF StartScript, Ended, InLoop, InBlock
  <2> QED BY <1>12, <2>1, <2>2, <2>3 DEF ScriptAfter
<1>13. CASE RunCmdReturns
  <2>1. CASE ScriptSucceeds("runbefore", "send") /\ BeginSend
    BY <1>3, <2>1 DEF ScriptSucceeds, ScriptDone
  <2>2. CASE ScriptSucceeds("runafter", "next") /\ BlockDone
    BY <1>1, <2>2 DEF ScriptSucceeds, ScriptDone, BlockDone, InLoop, InBlock, InScript
  <2>3. ASSUME NEW run, ScriptFails(run) PROVE HandedOver'
    BY <1>2, <2>3 DEF ScriptFails, Ended
  <2> QED BY <1>13, <2>1, <2>2, <2>3 DEF RunCmdReturns
<1>14. CASE SendCutByReset \/ SendInterrupted
  BY <1>5, <1>14 DEF SendCutByReset, SendInterrupted
<1>15. CASE NoBlockFile \/ SendFails \/ Killed
  BY <1>2, <1>15 DEF NoBlockFile, SendFails, Killed, Ended
<1>16. CASE ShellEnds \/ LeavesProcess \/ LeftEnds
  BY <1>7, <1>16 DEF ShellEnds, LeavesProcess, LeftEnds
<1>17. CASE PeerReads \/ PeerEof \/ Reset
  BY <1>7, <1>17 DEF PeerReads, PeerEof, Reset
<1>18. CASE Quiet \/ UNCHANGED vars
  BY <1>7, <1>18 DEF Quiet, vars
<1> QED
  BY <1>4, <1>6, <1>8, <1>9, <1>10, <1>11, <1>12, <1>13, <1>14, <1>15, <1>16,
     <1>17, <1>18
     DEF Next, ClientStep

\* Scripts: run_cmd() looks at the status of a shell that has ended, with
\* SIGCHLD at its default, and the assert stops the process.
LEMMA ScriptStep ==
    /\ DefaultInScript /\ AbortMeansFailure /\ [Next]_vars
    => (DefaultInScript /\ AbortMeansFailure)'
<1> SUFFICES ASSUME DefaultInScript, AbortMeansFailure, [Next]_vars
             PROVE  DefaultInScript' /\ AbortMeansFailure'
  OBVIOUS
<1> USE DEF DefaultInScript, AbortMeansFailure, InScript, scriptVars
<1>1. ASSUME pc' \notin InScript \cup {"aborted"}
      PROVE  DefaultInScript' /\ AbortMeansFailure'
  BY <1>1
<1>2. ASSUME UNCHANGED <<pc, chld>>,
             pc = "aborted" => UNCHANGED shell
      PROVE  DefaultInScript' /\ AbortMeansFailure'
  BY <1>2
<1>3. ASSUME NEW here, NEW run \in InScript, NEW n, StartScript(here, run, n)
      PROVE  DefaultInScript' /\ AbortMeansFailure'
  BY <1>3 DEF StartScript
<1>4. CASE ReadBlocks \/ NoBlockFile \/ OpenAndConnect \/ NextBlock
  BY <1>1, <1>4 DEF ReadBlocks, NoBlockFile, OpenAndConnect, NextBlock
<1>5. CASE ScriptBefore
  <2>1. ASSUME NEW n, SkipScript("before", "send", n) \/ NoSuchScript("before", n)
        PROVE  DefaultInScript' /\ AbortMeansFailure'
    BY <1>1, <2>1 DEF SkipScript, NoSuchScript
  <2> QED BY <1>3, <1>5, <2>1 DEF ScriptBefore
<1>6. CASE ScriptAfter
  <2>1. ASSUME NEW n, SkipScript("after", "next", n) \/ NoSuchScript("after", n)
        PROVE  DefaultInScript' /\ AbortMeansFailure'
    BY <1>1, <2>1 DEF SkipScript, NoSuchScript
  <2> QED BY <1>3, <1>6, <2>1 DEF ScriptAfter
<1>7. CASE RunCmdReturns
  <2>1. ASSUME NEW run, NEW then \in {"send", "next"}, ScriptSucceeds(run, then)
        PROVE  DefaultInScript' /\ AbortMeansFailure'
    BY <1>1, <2>1 DEF ScriptSucceeds
  <2>2. ASSUME NEW run \in InScript, ScriptFails(run)
        PROVE  DefaultInScript' /\ AbortMeansFailure'
    BY <2>2 DEF ScriptFails, ScriptDone, Succeeded
  <2> QED BY <1>7, <2>1, <2>2 DEF RunCmdReturns
<1>8. CASE TakeByte \/ SendCutByReset \/ SendInterrupted
  BY <1>2, <1>8 DEF TakeByte, SendCutByReset, SendInterrupted, CutShort
<1>9. CASE SendFails \/ PrintRow \/ Killed
  BY <1>1, <1>9 DEF SendFails, PrintRow, Killed
<1>10. CASE ShellEnds
  BY <1>2, <1>10 DEF ShellEnds
<1>11. CASE LeavesProcess \/ LeftEnds
  BY <1>2, <1>11 DEF LeavesProcess, LeftEnds
<1>12. CASE PeerReads \/ PeerEof \/ Reset
  BY <1>2, <1>12 DEF PeerReads, PeerEof, Reset
<1>13. CASE Quiet \/ UNCHANGED vars
  BY <1>2, <1>13 DEF Quiet, vars
<1> QED
  BY <1>4, <1>5, <1>6, <1>7, <1>8, <1>9, <1>10, <1>11, <1>12, <1>13
     DEF Next, ClientStep

\* Once the process has ended it stays so and hands nothing over.
LEMMA EndedStays ==
    ASSUME [Next]_vars, pc \in Ended
    PROVE  pc' = pc /\ taken' = taken
<1> USE DEF Ended, InScript, connVars
<1>1. CASE ClientStep
  <2>1. pc \in {"start", "setup", "next", "before", "after", "send",
                "runbefore", "runafter"}
    BY <1>1 DEF ClientStep, ReadBlocks, NoBlockFile, OpenAndConnect, NextBlock,
         ScriptBefore, ScriptAfter, RunCmdReturns, SkipScript, NoSuchScript,
         StartScript, ScriptSucceeds, ScriptFails, ScriptDone, TakeByte,
         SendCutByReset, CutShort, SendFails, PrintRow, InCall
  <2> QED BY <2>1
<1>2. CASE SendInterrupted \/ Killed
  BY <1>2 DEF SendInterrupted, CutShort, InCall, Killed
<1>3. CASE ShellEnds \/ LeavesProcess \/ LeftEnds
  BY <1>3 DEF ShellEnds, LeavesProcess, LeftEnds
<1>4. CASE PeerReads \/ PeerEof \/ Reset
  BY <1>4 DEF PeerReads, PeerEof, Reset
<1>5. CASE Quiet \/ UNCHANGED vars
  BY <1>5 DEF Quiet, vars
<1> QED
  BY <1>1, <1>2, <1>3, <1>4, <1>5 DEF Next

\* The end of the connection.
LEMMA EofStep ==
    TypeOK /\ AtStart /\ EofBehindEnd /\ [Next]_vars => EofBehindEnd'
<1> SUFFICES ASSUME TypeOK, EofBehindEnd, [Next]_vars, link' = "eof"
             PROVE  pc' \in Ended /\ got' = taken'
  BY DEF EofBehindEnd
<1>1. CASE link = "eof"
  <2>1. pc \in Ended /\ got = taken
    BY <1>1 DEF EofBehindEnd
  <2>2. pc' = pc /\ taken' = taken
    BY <2>1, EndedStays
  <2>3. taken \in Nat /\ ~(got < taken)
    BY <2>1 DEF TypeOK
  <2>4. got' = got
    <3> USE DEF connVars
    <3>1. CASE ClientStep
      BY <3>1 DEF ClientStep, ReadBlocks, NoBlockFile, OpenAndConnect, NextBlock,
         ScriptBefore, ScriptAfter, RunCmdReturns, SkipScript, NoSuchScript,
         StartScript, ScriptSucceeds, ScriptFails, TakeByte,
         SendCutByReset, CutShort, SendFails, PrintRow
    <3>2. CASE SendInterrupted \/ Killed
      BY <3>2 DEF SendInterrupted, CutShort, Killed
    <3>3. CASE ShellEnds \/ LeavesProcess \/ LeftEnds
      BY <3>3 DEF ShellEnds, LeavesProcess, LeftEnds
    <3>4. CASE PeerReads \/ PeerEof \/ Reset
      BY <2>3, <3>4 DEF PeerReads, PeerEof, Reset
    <3>5. CASE Quiet \/ UNCHANGED vars
      BY <3>5 DEF Quiet, vars
    <3> QED BY <3>1, <3>2, <3>3, <3>4, <3>5 DEF Next
  <2> QED BY <2>1, <2>2, <2>4
<1>2. CASE link # "eof"
  <2> USE DEF connVars
  <2>1. CASE PeerEof
    BY <2>1 DEF PeerEof, SocketClosed
  <2>2. CASE ClientStep
    BY <1>2, <2>2 DEF ClientStep, ReadBlocks, NoBlockFile, OpenAndConnect,
       NextBlock, ScriptBefore, ScriptAfter, RunCmdReturns, SkipScript,
       NoSuchScript, StartScript, ScriptSucceeds, ScriptFails, TakeByte,
       SendCutByReset, CutShort, SendFails, PrintRow
  <2>3. CASE SendInterrupted \/ Killed
    BY <1>2, <2>3 DEF SendInterrupted, CutShort, Killed
  <2>4. CASE ShellEnds \/ LeavesProcess \/ LeftEnds
    BY <1>2, <2>4 DEF ShellEnds, LeavesProcess, LeftEnds
  <2>5. CASE PeerReads \/ Reset
    BY <1>2, <2>5 DEF PeerReads, Reset
  <2>6. CASE Quiet \/ UNCHANGED vars
    BY <1>2, <2>6 DEF Quiet, vars
  <2> QED BY <2>1, <2>2, <2>3, <2>4, <2>5, <2>6 DEF Next
<1> QED BY <1>1, <1>2

\* A process joins the output of a script only while its shell runs, and the
\* shell only while run_cmd() does; the way out of run_cmd() is behind both.
LEMMA WaitStep ==
    TypeOK /\ RunCmdWaits /\ [Next]_vars => RunCmdWaits'
<1> SUFFICES ASSUME TypeOK, RunCmdWaits, [Next]_vars PROVE RunCmdWaits'
  OBVIOUS
<1> USE DEF RunCmdWaits, InScript, scriptVars
<1>1. CASE ScriptBefore \/ ScriptAfter
  BY <1>1 DEF ScriptBefore, ScriptAfter, SkipScript, NoSuchScript, StartScript
<1>2. CASE RunCmdReturns
  BY <1>2 DEF RunCmdReturns, ScriptSucceeds, ScriptFails, ScriptDone
<1>3. CASE ReadBlocks \/ NoBlockFile \/ OpenAndConnect \/ NextBlock
           \/ TakeByte \/ SendCutByReset \/ SendFails \/ PrintRow
  BY <1>3 DEF ReadBlocks, NoBlockFile, OpenAndConnect, NextBlock, TakeByte,
     SendCutByReset, CutShort, SendFails, PrintRow, InCall
<1>4. CASE SendInterrupted \/ Killed
  BY <1>4 DEF SendInterrupted, CutShort, Killed
<1>5. CASE ShellEnds \/ LeavesProcess
  BY <1>5 DEF ShellEnds, LeavesProcess
<1>6. CASE LeftEnds
  BY <1>6 DEF LeftEnds
<1>7. CASE PeerReads \/ PeerEof \/ Reset \/ Quiet \/ UNCHANGED vars
  BY <1>7 DEF PeerReads, PeerEof, Reset, Quiet, vars
<1> QED
  BY <1>1, <1>2, <1>3, <1>4, <1>5, <1>6, <1>7 DEF Next, ClientStep

-----------------------------------------------------------------------------
LEMMA NextIInv == IInv /\ [Next]_vars => IInv'
  BY TypeStep, PositionStep, HandedStep, ScriptStep, EofStep, WaitStep DEF IInv

\* The inductive invariant of the ECF clients.
THEOREM Invariance == Spec => []IInv
  BY InitIInv, NextIInv, PTL DEF Spec

\* Type correctness (ecfexp_client2.cxx, transfer and transfer_block).
THEOREM TypeCorrect == Spec => []TypeOK
  BY Invariance, PTL DEF IInv

\* No script runs in the middle of a block: rows and bytes are those of whole
\* blocks whenever run_cmd() is (ecfexp_client2.cxx:112-124).
THEOREM ScriptsStayBetween == Spec => []ScriptsBetweenBlocks
<1>1. IInv => ScriptsBetweenBlocks
  BY DEF IInv, RowsOfBlocks, HandedOver, Due, ScriptsBetweenBlocks, InLoop, InBlock,
         InScript
<1> QED BY Invariance, <1>1, PTL

\* Exit status 0 means all rows of the file's good prefix and all their bytes,
\* unless a send() was cut short (ecfexp_client2.cxx:112-128).
THEOREM ExitZeroIsComplete == Spec => []ExitZeroComplete
<1>1. IInv => ExitZeroComplete
  BY DEF IInv, RowsOfBlocks, HandedOver, Due, ExitZeroComplete, InLoop
<1> QED BY Invariance, <1>1, PTL

\* Only a script that failed aborts, whatever SIGCHLD was (utils.cpp:37-54).
THEOREM AbortIsFailure == Spec => []AbortMeansFailure
  BY Invariance, PTL DEF IInv

\* run_cmd() waits for all that holds its output (utils.cpp:42-46): outside of
\* it, and after a run that was not killed, only what gave up the output holds
\* the connection.
THEOREM RunCmdLeavesNothing == Spec => []RunCmdWaits
  BY Invariance, PTL DEF IInv
-----------------------------------------------------------------------------
(***************************************************************************)
(* From the block file to the peer.                                        *)
(***************************************************************************)
\* End to end: with status 0, no call cut short and every block within the
\* widths, the peer has read the kilobytes of the file when it sees the end.
FileDelivered ==
    /\ pc = "exit0" /\ link = "eof" /\ cuts = {}
    /\ \A m \in 1..Len(blocks) : Fits(blocks[m].size, SendBuf)
    => got = SumOf([m \in Nat |-> blocks[m + 1].size])[Len(blocks)] * KB

\* Blocks within the widths add up to their kilobytes.
LEMMA PlannedIsAsked ==
    ASSUME TypeOK, \A m \in 1..Len(blocks) : Fits(blocks[m].size, SendBuf)
    PROVE  PlannedUpTo(Len(blocks)) =
              SumOf([m \in Nat |-> blocks[m + 1].size])[Len(blocks)] * KB
<1> DEFINE a == [m \in Nat |-> blocks[m + 1].size]
           S == {n \in Nat : n <= Len(blocks) =>
                    SumOf(a)[n] \in Nat /\ PlannedUpTo(n) = SumOf(a)[n] * KB}
<1>1. blocks \in Seq(Line) /\ Len(blocks) \in Nat /\ KB \in Nat
  BY WidthAssumption DEF TypeOK
<1>2. 0 \in S
  <2>1. SumOf(a)[0] = 0 /\ PlannedUpTo(0) = 0
    <3> HIDE DEF a
    <3> QED BY SumOfRecursion, PlannedSteps
  <2> HIDE DEF a
  <2> QED BY <1>1, <2>1
<1>3. ASSUME NEW n \in Nat, n \in S PROVE n + 1 \in S
  <2> SUFFICES ASSUME n + 1 <= Len(blocks)
               PROVE  /\ SumOf(a)[n + 1] \in Nat
                      /\ PlannedUpTo(n + 1) = SumOf(a)[n + 1] * KB
    <3> HIDE DEF a
    <3> QED OBVIOUS
  <2>1. n + 1 <= Len(blocks)
    OBVIOUS
  <2>2. n + 1 \in 1..Len(blocks)
    BY <1>1, <2>1
  <2>3. SumOf(a)[n] \in Nat /\ PlannedUpTo(n) = SumOf(a)[n] * KB
    BY <1>1, <1>3, <2>1
  <2>4. a[n] = blocks[n + 1].size
    OBVIOUS
  <2>5. SumOf(a)[n + 1] = SumOf(a)[n] + a[n]
    <3> HIDE DEF a
    <3> QED BY SumOfRecursion
  <2>6. blocks[n + 1].size \in Nat
    <3>1. blocks[n + 1] \in Line
      BY <1>1, <2>2
    <3> QED BY <3>1 DEF Line
  <2>7. Planned(blocks[n + 1].size, SendBuf) = blocks[n + 1].size * KB
    BY <2>2, <2>6, PlanExact, EcfAssumption
  <2>8. PlannedUpTo(n + 1) = PlannedUpTo(n) + Planned(blocks[n + 1].size, SendBuf)
    BY PlannedSteps
  <2> DEFINE s == SumOf(a)[n]
             z == blocks[n + 1].size
  <2>9. s \in Nat /\ z \in Nat /\ PlannedUpTo(n + 1) = s * KB + z * KB
    BY <2>3, <2>6, <2>7, <2>8
  <2>10. SumOf(a)[n + 1] = s + z
    BY <2>4, <2>5
  <2> HIDE DEF a, s, z
  <2>11. (s + z) * KB = s * KB + z * KB
    BY <1>1, <2>9
  <2> QED BY <2>9, <2>10, <2>11
<1>4. Nat \subseteq S
  <2> HIDE DEF S
  <2> QED BY <1>2, <1>3, Induction
<1>5. Len(blocks) \in S
  <2> HIDE DEF S
  <2> QED BY <1>1, <1>4
<1>6. PlannedUpTo(Len(blocks)) = SumOf(a)[Len(blocks)] * KB
  <2> HIDE DEF a
  <2> QED BY <1>1, <1>5
<1> QED
  BY <1>6

\* The kilobytes of the file are what the peer has read, from read_blocks() to
\* the end of the connection (ecfexp_client2.cxx:51-126).
THEOREM FileIsDelivered == Spec => []FileDelivered
<1>1. ASSUME IInv PROVE FileDelivered
  <2> SUFFICES ASSUME pc = "exit0", link = "eof", cuts = {},
                      \A m \in 1..Len(blocks) : Fits(blocks[m].size, SendBuf)
               PROVE  got = SumOf([m \in Nat |-> blocks[m + 1].size])[Len(blocks)] * KB
    BY DEF FileDelivered
  <2>1. got = taken /\ taken = PlannedUpTo(rows) /\ rows = Len(blocks)
    BY <1>1 DEF IInv, EofBehindEnd, HandedOver, Due, RowsOfBlocks
  <2> QED BY <1>1, <2>1, PlannedIsAsked DEF IInv
<1> QED
  BY <1>1, Invariance, PTL

-----------------------------------------------------------------------------
(***************************************************************************)
(* The end of the run.                                                     *)
(***************************************************************************)
\* Whoever waits waits for a peer that has something to read, a shell that
\* runs, or a process that a script has left on its output.
CanGoOn ==
    \/ pc \in {"start", "setup", "next", "before", "after"}
    \/ pc \in InScript /\ shell \in {"ok", "failed"} /\ piped = 0
    \/ pc = "send" /\ (call = CallsNow \/ rst \/ taken - got < SockBuf)
NoDeadlock ==
    \/ pc \in Ended \/ CanGoOn
    \/ pc \in InScript /\ (shell = "running" \/ piped > 0)
    \/ pc = "send" /\ ~rst /\ got < taken

\* A script that is waited for has a shell.
HasShell == pc \in InScript => shell # "none"

LEMMA HasShellStep ==
    ASSUME TypeOK, HasShell, [Next]_vars
    PROVE  HasShell'
<1> USE DEF HasShell, InScript, Ended, scriptVars
<1>1. ASSUME pc' \notin InScript PROVE HasShell'
  BY <1>1
<1>2. ASSUME pc' = pc, shell # "none" => shell' # "none" PROVE HasShell'
  BY <1>2
<1>3. ASSUME NEW here, NEW run \in InScript, NEW n, StartScript(here, run, n)
      PROVE  HasShell'
  BY <1>3 DEF StartScript
<1>4. CASE ReadBlocks \/ NoBlockFile \/ OpenAndConnect \/ NextBlock
  BY <1>1, <1>4 DEF ReadBlocks, NoBlockFile, OpenAndConnect, NextBlock
<1>5. CASE ScriptBefore
  BY <1>1, <1>3, <1>5 DEF ScriptBefore, SkipScript, NoSuchScript
<1>6. CASE ScriptAfter
  BY <1>1, <1>3, <1>6 DEF ScriptAfter, SkipScript, NoSuchScript
<1>7. CASE RunCmdReturns
  BY <1>1, <1>7 DEF RunCmdReturns, ScriptSucceeds, ScriptFails
<1>8. CASE TakeByte \/ SendCutByReset \/ SendInterrupted
  BY <1>2, <1>8 DEF TakeByte, SendCutByReset, SendInterrupted, CutShort
<1>9. CASE SendFails \/ PrintRow \/ Killed
  BY <1>1, <1>9 DEF SendFails, PrintRow, Killed
<1>10. CASE ShellEnds \/ LeavesProcess \/ LeftEnds
  BY <1>2, <1>10 DEF ShellEnds, LeavesProcess, LeftEnds
<1>11. CASE PeerReads \/ PeerEof \/ Reset
  BY <1>2, <1>11 DEF PeerReads, PeerEof, Reset
<1>12. CASE Quiet \/ UNCHANGED vars
  BY <1>2, <1>12 DEF Quiet, vars
<1> QED
  BY <1>4, <1>5, <1>6, <1>7, <1>8, <1>9, <1>10, <1>11, <1>12 DEF Next, ClientStep

\* The client is never stuck for another reason than those of NoDeadlock
\* (ecfexp_client2.cxx:67-126, utils.cpp:37-54).
THEOREM DeadlockFree == Spec => []NoDeadlock
<1>1. Init => HasShell
  BY DEF Init, HasShell, InScript
<1>2. ASSUME IInv, HasShell PROVE NoDeadlock
  <2>1. CASE pc \in InScript
    BY <1>2, <2>1 DEF IInv, TypeOK, HasShell, NoDeadlock, CanGoOn
  <2>2. CASE pc = "send"
    <3>1. call <= CallsNow /\ taken \in Nat /\ got \in Nat /\ SockBuf \in Nat \ {0}
      BY <1>2, <2>2, EcfAssumption DEF IInv, HandedOver, TypeOK
    <3>2. rst \in BOOLEAN
      BY <1>2 DEF IInv, TypeOK
    <3>3. CASE rst \/ call = CallsNow \/ taken - got < SockBuf
      BY <2>2, <3>3 DEF NoDeadlock, CanGoOn
    <3>4. CASE ~(rst \/ call = CallsNow \/ taken - got < SockBuf)
      <4>1. got < taken
        BY <3>1, <3>4
      <4> QED BY <2>2, <3>4, <4>1 DEF NoDeadlock
    <3> QED BY <3>3, <3>4
  <2>3. CASE pc \notin InScript \cup {"send"}
    BY <1>2, <2>3 DEF IInv, TypeOK, NoDeadlock, CanGoOn
  <2> QED BY <2>1, <2>2, <2>3
<1>3. IInv /\ HasShell /\ [Next]_vars => HasShell'
  BY HasShellStep DEF IInv
<1> QED
  BY <1>1, <1>2, <1>3, Invariance, PTL DEF Spec

\* The way still to go: the file to read, blocks, stages of a block, send()
\* calls, bytes of a call.
Stage(p) == CASE p = "setup" -> 7 [] p = "next" -> 6 [] p = "before" -> 5
              [] p = "runbefore" -> 4 [] p = "send" -> 3 [] p = "after" -> 2
              [] p = "runafter" -> 1 [] OTHER -> 0
Remaining ==
    << IF pc = "start" THEN 1 ELSE 0,
       Len(blocks) + 1 - i,
       Stage(pc),
       IF pc = "send" THEN CallsNow - call ELSE 0,
       IF InCall THEN LenNow - off ELSE 0 >>

\* Less to go: in lexicographic order.
Precedes(r, s) == \E n \in 1..5 : r[n] < s[n] /\ \A m \in 1..(n - 1) : r[m] = s[m]

\* Nothing sets the client back, and no script, reset or short call makes it
\* repeat a block: with NoDeadlock the run ends unless somebody it waits for
\* does not.
OnlyForward ==
    [][Precedes(Remaining', Remaining) \/ UNCHANGED <<pc, blocks, i, call, off, rows>>]_vars
CanCount == Remaining \in Nat \X Nat \X Nat \X Nat \X Nat

\* The client goes at most one block beyond its file.
Within == i <= Len(blocks) + 1

LEMMA WithinStep ==
    ASSUME TypeOK, TypeOK', AtStart, RowsOfBlocks, Within, [Next]_vars
    PROVE  Within'
<1>1. i \in Nat \ {0} /\ Len(blocks) \in Nat /\ Len(blocks') \in Nat
  BY DEF TypeOK
<1>2. CASE ReadBlocks
  <2>1. i' = 1
    BY <1>2 DEF ReadBlocks, AtStart
  <2> QED BY <1>1, <2>1 DEF Within
<1>3. ASSUME pc \in InBlock, BlockDone PROVE Within'
  <2>1. i <= Len(blocks) /\ i' = i + 1 /\ blocks' = blocks
    BY <1>3 DEF RowsOfBlocks, BlockDone
  <2> QED BY <1>1, <2>1 DEF Within
<1>4. ASSUME UNCHANGED <<i, blocks>> PROVE Within'
  BY <1>4 DEF Within
<1> USE DEF blockVars, InBlock, InScript
<1>5. CASE NoBlockFile \/ OpenAndConnect \/ NextBlock
  BY <1>4, <1>5 DEF NoBlockFile, OpenAndConnect, NextBlock
<1>6. CASE ScriptBefore
  BY <1>4, <1>6 DEF ScriptBefore, SkipScript, NoSuchScript, StartScript, BeginSend
<1>7. CASE ScriptAfter
  BY <1>3, <1>4, <1>7 DEF ScriptAfter, SkipScript, NoSuchScript, StartScript
<1>8. CASE RunCmdReturns
  BY <1>3, <1>4, <1>8 DEF RunCmdReturns, ScriptSucceeds, ScriptFails, ScriptDone,
     BeginSend
<1>9. CASE TakeByte \/ SendCutByReset \/ SendInterrupted \/ SendFails
  BY <1>4, <1>9 DEF TakeByte, SendCutByReset, SendInterrupted, CutShort, SendFails
<1>10. CASE PrintRow \/ Killed
  BY <1>4, <1>10 DEF PrintRow, Killed
<1>11. CASE ShellEnds \/ LeavesProcess \/ LeftEnds
  BY <1>4, <1>11 DEF ShellEnds, LeavesProcess, LeftEnds
<1>12. CASE PeerReads \/ PeerEof \/ Reset
  BY <1>4, <1>12 DEF PeerReads, PeerEof, Reset
<1>13. CASE Quiet \/ UNCHANGED vars
  BY <1>4, <1>13 DEF Quiet, vars
<1> QED
  BY <1>2, <1>5, <1>6, <1>7, <1>8, <1>9, <1>10, <1>11, <1>12, <1>13
     DEF Next, ClientStep

\* The numbers of Remaining are natural.
LEMMA Counts ==
    ASSUME IInv, Within
    PROVE  CanCount
<1>1. /\ i \in Nat /\ Len(blocks) \in Nat /\ call \in Nat /\ off \in Nat
      /\ Len(blocks) + 1 - i \in Nat
  BY DEF IInv, TypeOK, Within
<1>2. Stage(pc) \in Nat
  BY DEF Stage
<1>3. (IF pc = "send" THEN CallsNow - call ELSE 0) \in Nat
  <2>1. ASSUME pc = "send" PROVE CallsNow - call \in Nat
    <3>1. CallsNow \in Nat /\ call <= CallsNow
      BY <2>1, BlockFacts DEF IInv, RowsOfBlocks, InBlock, HandedOver
    <3> QED BY <1>1, <3>1
  <2> QED BY <2>1
<1>4. (IF InCall THEN LenNow - off ELSE 0) \in Nat
  <2>1. ASSUME InCall PROVE LenNow - off \in Nat
    <3>1. LenNow \in 1..SendBuf /\ SendBuf \in Nat
      BY <2>1, CallFacts, EcfAssumption DEF IInv, RowsOfBlocks
    <3>2. off < LenNow
      BY <2>1 DEF IInv, HandedOver, InCall
    <3> QED BY <1>1, <3>1, <3>2
  <2> QED BY <2>1
<1> QED
  BY <1>1, <1>2, <1>3, <1>4 DEF CanCount, Remaining

\* What the first difference decides.
LEMMA First ==
    ASSUME NEW r, NEW s, NEW n \in 1..5, r[n] < s[n],
           \A m \in 1..(n - 1) : r[m] = s[m]
    PROVE  Precedes(r, s)
  BY DEF Precedes

LEMMA RemainingParts ==
    /\ Remaining[1] = IF pc = "start" THEN 1 ELSE 0
    /\ Remaining[2] = Len(blocks) + 1 - i
    /\ Remaining[3] = Stage(pc)
    /\ Remaining[4] = IF pc = "send" THEN CallsNow - call ELSE 0
    /\ Remaining[5] = IF InCall THEN LenNow - off ELSE 0
    /\ Remaining'[1] = IF pc' = "start" THEN 1 ELSE 0
    /\ Remaining'[2] = Len(blocks') + 1 - i'
    /\ Remaining'[3] = Stage(pc')
    /\ Remaining'[4] = IF pc' = "send" THEN CallsNow' - call' ELSE 0
    /\ Remaining'[5] = IF InCall' THEN LenNow' - off' ELSE 0
  BY DEF Remaining

\* Every change of the client's position leaves it less to do.
LEMMA ForwardStep ==
    ASSUME IInv, [Next]_vars
    PROVE  Precedes(Remaining', Remaining) \/ UNCHANGED <<pc, blocks, i, call, off, rows>>
<1> DEFINE Less == Precedes(Remaining', Remaining)
           Same == UNCHANGED <<pc, blocks, i, call, off, rows>>
<1>0. /\ i \in Nat /\ Len(blocks) \in Nat /\ call \in Nat /\ off \in Nat
  BY DEF IInv, TypeOK
<1> USE DEF InBlock, InScript, Ended, blockVars
\* the file is read, or is not
<1>1. ASSUME pc = "start", pc' # "start" PROVE Less
  <2>1. Remaining'[1] < Remaining[1]
    BY <1>1, RemainingParts
  <2> QED BY <2>1, First
\* another block
<1>2. ASSUME pc \in {"after", "runafter"}, pc' = "next", BlockDone PROVE Less
  <2>1. i' = i + 1 /\ blocks' = blocks
    BY <1>2 DEF BlockDone
  <2>2. Remaining'[1] = Remaining[1] /\ Remaining'[2] < Remaining[2]
    BY <1>0, <1>2, <2>1, RemainingParts
  <2>3. \A m \in 1..(2 - 1) : m = 1
    OBVIOUS
  <2> QED BY <2>2, <2>3, First
\* another stage, or the end of the process
<1>3. ASSUME pc # "start", Stage(pc') < Stage(pc), pc' # "start",
             UNCHANGED <<blocks, i>>
      PROVE  Less
  <2>1. /\ Remaining'[1] = Remaining[1] /\ Remaining'[2] = Remaining[2]
        /\ Remaining'[3] < Remaining[3]
    BY <1>3, RemainingParts
  <2>2. \A m \in 1..(3 - 1) : m = 1 \/ m = 2
    OBVIOUS
  <2> QED BY <2>1, <2>2, First
<1>4. ASSUME pc \notin Ended, pc' \in Ended, UNCHANGED <<blocks, i>> PROVE Less
  <2>1. CASE pc = "start"
    BY <1>1, <1>4, <2>1
  <2>2. CASE pc # "start"
    <3>1. pc \in {"setup", "next", "before", "runbefore", "send", "after", "runafter"}
      BY <1>4, <2>2 DEF IInv, TypeOK
    <3>2. Stage(pc') < Stage(pc)
      BY <1>4, <3>1 DEF Stage
    <3> QED BY <1>3, <1>4, <2>2, <3>2
  <2> QED BY <2>1, <2>2
\* another call
<1>5. ASSUME InCall, pc' = pc, UNCHANGED <<blocks, i>>, call' = call + 1 PROVE Less
  <2>1. pc = "send" /\ CallsNow \in Nat
    BY <1>5, BlockFacts DEF InCall, IInv, RowsOfBlocks
  <2>2. CallsNow' = CallsNow
    BY <1>5, SameBlock
  <2>3. /\ Remaining'[1] = Remaining[1] /\ Remaining'[2] = Remaining[2]
        /\ Remaining'[3] = Remaining[3] /\ Remaining'[4] < Remaining[4]
    BY <1>0, <1>5, <2>1, <2>2, RemainingParts
  <2>4. \A m \in 1..(4 - 1) : m = 1 \/ m = 2 \/ m = 3
    OBVIOUS
  <2> QED BY <2>3, <2>4, First
<1>6. CASE TakeByte
  <2>1. InCall /\ UNCHANGED <<pc, blocks, i>>
    BY <1>6 DEF TakeByte
  <2>2. CASE off + 1 = LenNow
    BY <1>5, <1>6, <2>1, <2>2 DEF TakeByte
  <2>3. CASE off + 1 # LenNow
    <3>1. off' = off + 1 /\ call' = call
      BY <1>6, <2>3 DEF TakeByte
    <3>2. LenNow \in Nat
      <4>1. LenNow \in 1..SendBuf /\ SendBuf \in Nat
        BY <2>1, CallFacts, EcfAssumption DEF IInv, RowsOfBlocks
      <4> QED BY <4>1
    <3>3. CallsNow' = CallsNow /\ LenNow' = LenNow /\ (InCall' <=> InCall)
      BY <2>1, <3>1 DEF CallsNow, LenNow, InCall
    <3>4. /\ Remaining'[1] = Remaining[1] /\ Remaining'[2] = Remaining[2]
          /\ Remaining'[3] = Remaining[3] /\ Remaining'[4] = Remaining[4]
      BY <2>1, <3>1, <3>3, RemainingParts
    <3>5. Remaining'[5] < Remaining[5]
      BY <1>0, <2>1, <3>1, <3>2, <3>3, RemainingParts
    <3>6. \A m \in 1..(5 - 1) : m = 1 \/ m = 2 \/ m = 3 \/ m = 4
      OBVIOUS
    <3> QED BY <3>4, <3>5, <3>6, First
  <2> QED BY <2>2, <2>3
<1>7. CASE SendCutByReset \/ SendInterrupted
  BY <1>5, <1>7 DEF SendCutByReset, SendInterrupted, CutShort
<1>8. CASE ReadBlocks \/ NoBlockFile
  BY <1>1, <1>8 DEF ReadBlocks, NoBlockFile
<1>9. CASE OpenAndConnect \/ NextBlock \/ PrintRow
  <2>1. /\ UNCHANGED <<blocks, i>> /\ pc # "start" /\ pc' # "start"
        /\ \/ pc = "setup" /\ pc' \in {"next", "exit1"}
           \/ pc = "next" /\ pc' \in {"before", "exit0"}
           \/ pc = "send" /\ pc' = "after"
    BY <1>9 DEF OpenAndConnect, NextBlock, PrintRow
  <2>2. Stage(pc') < Stage(pc)
    BY <2>1 DEF Stage
  <2> QED BY <1>3, <2>1, <2>2
\* scripts
<1>11. CASE ScriptBefore
  <2>1. /\ pc = "before" /\ UNCHANGED <<blocks, i>>
        /\ pc' \in {"runbefore", "send"} \/ pc' \in Ended
    BY <1>11 DEF ScriptBefore, SkipScript, NoSuchScript, StartScript, BeginSend
  <2>2. CASE pc' \in Ended
    BY <1>4, <2>1, <2>2
  <2>3. CASE pc' \in {"runbefore", "send"}
    <3>1. Stage(pc') < Stage(pc)
      BY <2>1, <2>3 DEF Stage
    <3> QED BY <1>3, <2>1, <2>3, <3>1
  <2> QED BY <2>1, <2>2, <2>3
<1>12. CASE ScriptAfter
  <2>1. CASE pc' = "next" /\ BlockDone
    BY <1>2, <1>12, <2>1 DEF ScriptAfter, SkipScript, NoSuchScript, StartScript
  <2>2. CASE ~(pc' = "next" /\ BlockDone)
    <3>1. pc = "after" /\ UNCHANGED <<blocks, i>> /\ (pc' = "runafter" \/ pc' \in Ended)
      BY <1>12, <2>2 DEF ScriptAfter, SkipScript, NoSuchScript, StartScript
    <3>2. pc' = "runafter" => Stage(pc') < Stage(pc)
      BY <3>1 DEF Stage
    <3> QED BY <1>3, <1>4, <3>1, <3>2
  <2> QED BY <2>1, <2>2
<1>13. CASE RunCmdReturns
  <2>1. CASE ScriptSucceeds("runbefore", "send") /\ BeginSend
    <3>1. pc = "runbefore" /\ pc' = "send" /\ UNCHANGED <<blocks, i>>
      BY <2>1 DEF ScriptSucceeds, ScriptDone, BeginSend
    <3>2. Stage(pc') < Stage(pc)
      BY <3>1 DEF Stage
    <3> QED BY <1>3, <3>1, <3>2
  <2>2. CASE ScriptSucceeds("runafter", "next") /\ BlockDone
    BY <1>2, <2>2 DEF ScriptSucceeds, ScriptDone
  <2>3. ASSUME NEW run \in InScript, ScriptFails(run) PROVE Less
    BY <1>4, <2>3 DEF ScriptFails, ScriptDone
  <2> QED BY <1>13, <2>1, <2>2, <2>3 DEF RunCmdReturns
<1>14. CASE SendFails \/ Killed
  BY <1>4, <1>14 DEF SendFails, Killed, InCall
<1>15. CASE ShellEnds \/ LeavesProcess \/ LeftEnds
  BY <1>15 DEF ShellEnds, LeavesProcess, LeftEnds
<1>16. CASE PeerReads \/ PeerEof \/ Reset
  BY <1>16 DEF PeerReads, PeerEof, Reset
<1>17. CASE Quiet \/ UNCHANGED vars
  BY <1>17 DEF Quiet, vars
<1> QED
  BY <1>6, <1>7, <1>8, <1>9, <1>11, <1>12, <1>13, <1>14, <1>15, <1>16, <1>17
     DEF Next, ClientStep

\* The order on Remaining is one on natural numbers in every reachable state.
THEOREM RemainingCounts == Spec => []CanCount
<1>1. Init => Within
  BY DEF Init, Within
<1>2. IInv /\ IInv' /\ Within /\ [Next]_vars => Within'
  BY WithinStep DEF IInv
<1>3. IInv /\ Within => CanCount
  BY Counts
<1> QED
  BY <1>1, <1>2, <1>3, Invariance, PTL DEF Spec

\* No block is sent twice, no script is run again and no call repeated,
\* however scripts, calls and the connection fare (ecfexp_client2.cxx:67-126).
THEOREM NeverSetBack == Spec => OnlyForward
<1>1. IInv /\ [Next]_vars =>
         [Precedes(Remaining', Remaining) \/ UNCHANGED <<pc, blocks, i, call, off, rows>>]_vars
  BY ForwardStep
<1> QED
  BY <1>1, Invariance, PTL DEF Spec, OnlyForward
=============================================================================
