---------------------------- MODULE CampaignProofs ----------------------------
(***************************************************************************)
(* Proofs about Campaign: for any number of experiments, loads, modes,     *)
(* faults and scripts an operator starts.                                  *)
(***************************************************************************)
EXTENDS Campaign, TLAPS

InMeasure == {"read", "open", "write"}
InCapture == {"settle", "try", "wait", "linger", "except", "finally", "unwind"}
InRun == {"next"} \cup InMeasure \cup InCapture

\* Where a script can be, and what it holds there.
Position ==
    /\ pc \in InMeasure => kind = "measure"
    /\ pc \in InCapture => kind = "capture"
    /\ pc # "idle" => dir \in Dirs
    /\ pc \in InRun => dir \in made
    /\ pc \in InMeasure \cup InCapture => n <= Count
    /\ pc \in {"open", "write"} => client \in {"row", "error"}
    /\ status # "none" => pc = "idle"

\* Nothing is on disk of a directory that was not made.
Fresh == \A e \in Exps : e[1] \notin made => file[e] = "none" /\ dump[e] = "none"

\* The files of the directory in hand, and those of all others.
FilesSoFar ==
    /\ kind = "capture" => \A e \in Exps : file[e] = "none"
    /\ kind = "measure" /\ pc \in InRun => \A e \in Exps : e[1] = dir =>
          /\ e[2] < n => Done(e)
          /\ e[2] > n => file[e] = "none"
          /\ e[2] = n => file[e] = IF pc = "write" THEN "empty" ELSE "none"
    /\ \A e, f \in Exps :
          e[1] = f[1] /\ f[2] < e[2] /\ file[e] # "none" => Done(f)

\* The same of the captures.
DumpsSoFar ==
    /\ kind = "measure" => \A e \in Exps : dump[e] = "none"
    /\ kind = "capture" /\ pc \in InRun => \A e \in Exps : e[1] = dir =>
          /\ e[2] < n => dump[e] \notin {"none", "on"}
          /\ e[2] > n => dump[e] = "none"
          /\ e[2] = n => IF pc = "next" THEN dump[e] = "none"
                                        ELSE dump[e] \in {"on", "dead"}
    /\ \A e \in Exps : dump[e] = "on" => e \in lost \/ (e = Current /\ pc \in InCapture)

ExpInv == Position /\ Fresh /\ FilesSoFar /\ DumpsSoFar

\* All experiments of d came to their end.
Complete(d) ==
    \A e \in Exps : e[1] = d =>
        IF kind = "measure" THEN Done(e) ELSE dump[e] \notin {"none", "on"}

\* An experiment script runs, or has just ended, for the stage of a batch.
ForBatch ==
    /\ pc # "idle" \/ status # "none" => bpc \in modes /\ dir = <<scene, bpc>>
    /\ status = "ok" => Complete(dir)

\* The stages behind a batch are complete.
StagesBehind ==
    \A m \in modes :
        \/ m = "tcp" /\ bpc \in {"normal", "set", "xdp", "unset"}
        \/ m = "normal" /\ bpc \in {"set", "xdp", "unset"}
        \/ m # "xdp" /\ verdict = "ok"
        => Complete(<<scene, m>>)

\* The set-up at each stage of a batch.
SetupOfStage ==
    /\ bpc \in {"tcp", "normal", "set"} => setup = "off"
    /\ bpc = "xdp" => setup = "on"

VerdictAtEnd == verdict # "none" => bpc = "off"

LevelInHand == spc \in {"warm", "run", "cool", "rest"} => lvl <= Len(Levels)

IInv ==
    /\ TypeOK
    /\ ExpInv
    /\ ForBatch /\ StagesBehind /\ SetupOfStage /\ VerdictAtEnd
    /\ LevelInHand /\ LoadMatchesLevel

-----------------------------------------------------------------------------
\* The experiment in hand.
LEMMA CurrentIs ==
    ASSUME NEW e \in Exps
    PROVE  e = Current <=> e[1] = dir /\ e[2] = n
  BY DEF Exps, Current

LEMMA CurrentExists ==
    ASSUME ExpTypeOK, Position, pc \in InMeasure \cup InCapture \/ (pc = "next" /\ n <= Count)
    PROVE  Current \in Exps
<1>1. n \in 1..(Count + 1) /\ Count \in Nat
  BY ExpAssumption DEF ExpTypeOK
<1>2. dir \in Dirs
  BY DEF Position, InMeasure, InCapture
<1>3. n \in 1..Count
  BY <1>1 DEF Position
<1> QED BY <1>2, <1>3 DEF Exps, Current

LEMMA BoundsNat == MaxFaults \in Nat /\ Count \in Nat /\ MaxRuns \in Nat
  BY ExpAssumption, CampaignAssumption

\* A step of an experiment script, its client or its captures.
Inner == ExpStep \/ ClientEnds \/ ExpFault \/ \E e \in Exps : DumpEnds(e)

LEMMA ExpTypeStep ==
    ASSUME ExpTypeOK, Position, Inner
    PROVE  ExpTypeOK'
<1>0. /\ n \in 1..(Count + 1) /\ Count \in Nat /\ MaxFaults \in Nat
      /\ 1 \in 1..(Count + 1)
  BY BoundsNat DEF ExpTypeOK
<1> USE DEF ExpTypeOK, diskVars, dumpVars, Fault, Goto, Ends, Finished
<1>1. CASE MakeDir
  <2>1. n' \in 1..(Count + 1) /\ pc' \in {"idle", "next"}
    BY <1>0, <1>1 DEF MakeDir
  <2>2. made' \subseteq Dirs /\ status' \in {"none", "ok", "fail"}
    BY <1>1 DEF MakeDir, Position
  <2> QED BY <1>1, <2>1, <2>2 DEF MakeDir
<1>2. CASE LoopEnds
  BY <1>2 DEF LoopEnds
<1>3. CASE PopenClient
  BY <1>3 DEF PopenClient
<1>4. CASE ReadLine
  BY <1>4 DEF ReadLine
<1>5. CASE OpenFile
  BY <1>5 DEF OpenFile
<1>6. CASE WriteFile
  <2>1. n' \in 1..(Count + 1)
    BY <1>0, <1>6 DEF WriteFile, Position, InMeasure
  <2>2. client \in {"row", "error"}
    BY <1>6 DEF WriteFile, Position
  <2> QED BY <1>6, <2>1, <2>2 DEF WriteFile
<1>7. CASE StartDump
  BY <1>7 DEF StartDump
<1>8. CASE EnterTry
  BY <1>8 DEF EnterTry
<1>9. CASE RunClient
  BY <1>9 DEF RunClient
<1>10. CASE ClientReturns
  BY <1>10 DEF ClientReturns
<1>11. CASE EnterFinally
  BY <1>11 DEF EnterFinally
<1>12. CASE KillDump
  <2>1. n' \in 1..(Count + 1)
    BY <1>0, <1>12 DEF KillDump, Position, InCapture
  <2>2. dump' \in [Exps -> {"none", "on", "signalled", "gone", "dead"}]
    BY <1>12 DEF KillDump
  <2>3. pc' \in {"next", "idle"} /\ status' \in {"none", "ok", "fail"}
    BY <1>12 DEF KillDump
  <2>4. UNCHANGED <<kind, dir, client, made, file, lost, faults>>
    BY <1>12 DEF KillDump
  <2> QED BY <2>1, <2>2, <2>3, <2>4
<1>13. CASE ClientEnds
  BY <1>13 DEF ClientEnds
<1>14. CASE MakeDirFails
  BY <1>0, <1>14 DEF MakeDirFails
<1>15. CASE FileFails
  BY <1>0, <1>15 DEF FileFails
<1>16. CASE InterruptClient
  BY <1>0, <1>16 DEF InterruptClient
<1>17. CASE InterruptRead
  BY <1>0, <1>17 DEF InterruptRead
<1>18. CASE InterruptPlain
  <2>1. pc = "write" => client \in {"row", "error"}
    BY DEF Position
  <2>2. file' \in [Exps -> {"none", "empty", "row", "error"}]
    BY <1>18, <2>1 DEF InterruptPlain
  <2>3. faults' \in 0..MaxFaults
    BY <1>0, <1>18 DEF InterruptPlain
  <2> QED BY <1>18, <2>2, <2>3 DEF InterruptPlain
<1>19. CASE InterruptLosing \/ KillDumpFails
  <2>1. Current \in Exps
    BY <1>19, CurrentExists DEF InterruptLosing, KillDumpFails, InCapture
  <2> QED BY <1>0, <1>19, <2>1 DEF InterruptLosing, KillDumpFails
<1>20. CASE InterruptInTry
  BY <1>0, <1>20 DEF InterruptInTry
<1>21. ASSUME NEW e \in Exps, DumpDies(e) PROVE ExpTypeOK'
  BY <1>0, <1>21 DEF DumpDies
<1>22. ASSUME NEW e \in Exps, DumpEnds(e) PROVE ExpTypeOK'
  BY <1>22 DEF DumpEnds
<1> QED
  BY <1>1, <1>2, <1>3, <1>4, <1>5, <1>6, <1>7, <1>8, <1>9, <1>10, <1>11, <1>12,
     <1>13, <1>14, <1>15, <1>16, <1>17, <1>18, <1>19, <1>20, <1>21, <1>22
     DEF Inner, ExpStep, ExpFault

LEMMA PositionStep ==
    ASSUME ExpTypeOK, Position, Inner
    PROVE  Position'
<1>0. n \in 1..(Count + 1) /\ Count \in Nat
  BY BoundsNat DEF ExpTypeOK
<1> USE DEF Position, InRun, InMeasure, InCapture, diskVars, dumpVars, Fault,
            Goto, Ends, Finished
<1>1. CASE MakeDir
  BY <1>1 DEF MakeDir
<1>2. CASE LoopEnds
  BY <1>2 DEF LoopEnds
<1>3. CASE PopenClient
  BY <1>3 DEF PopenClient
<1>4. CASE ReadLine
  BY <1>4 DEF ReadLine
<1>5. CASE OpenFile
  BY <1>5 DEF OpenFile
<1>6. CASE WriteFile
  BY <1>6 DEF WriteFile
<1>7. CASE StartDump
  BY <1>7 DEF StartDump
<1>8. CASE EnterTry
  BY <1>8 DEF EnterTry
<1>9. CASE RunClient
  BY <1>9 DEF RunClient
<1>10. CASE ClientReturns
  BY <1>10 DEF ClientReturns
<1>11. CASE EnterFinally
  BY <1>11 DEF EnterFinally
<1>12. CASE KillDump
  BY <1>12 DEF KillDump
<1>13. CASE ClientEnds
  BY <1>13 DEF ClientEnds
<1>14. CASE MakeDirFails
  BY <1>14 DEF MakeDirFails
<1>15. CASE FileFails
  BY <1>15 DEF FileFails
<1>16. CASE InterruptClient
  BY <1>16 DEF InterruptClient
<1>17. CASE InterruptRead
  BY <1>17 DEF InterruptRead
<1>18. CASE InterruptPlain
  BY <1>18 DEF InterruptPlain
<1>19. CASE InterruptLosing \/ KillDumpFails
  BY <1>19 DEF InterruptLosing, KillDumpFails
<1>20. CASE InterruptInTry
  BY <1>20 DEF InterruptInTry
<1>21. ASSUME NEW e \in Exps, DumpDies(e) \/ DumpEnds(e) PROVE Position'
  BY <1>21 DEF DumpDies, DumpEnds
<1> QED
  BY <1>1, <1>2, <1>3, <1>4, <1>5, <1>6, <1>7, <1>8, <1>9, <1>10, <1>11, <1>12,
     <1>13, <1>14, <1>15, <1>16, <1>17, <1>18, <1>19, <1>20, <1>21
     DEF Inner, ExpStep, ExpFault


LEMMA FreshStep ==
    ASSUME ExpTypeOK, Position, Fresh, Inner
    PROVE  Fresh'
<1>1. ASSUME UNCHANGED <<made, file, dump>> PROVE Fresh'
  BY <1>1 DEF Fresh
<1>2. ASSUME UNCHANGED made, dir \in made,
             \A e \in Exps : e # Current => file'[e] = file[e] /\ dump'[e] = dump[e]
      PROVE  Fresh'
  BY <1>2, CurrentIs DEF Fresh
<1>3. dump \in [Exps -> {"none", "on", "signalled", "gone", "dead"}]
      /\ file \in [Exps -> {"none", "empty", "row", "error"}]
  BY DEF ExpTypeOK
<1> USE DEF Position, InRun, InMeasure, InCapture, diskVars, dumpVars, Goto
<1>4. CASE MakeDir
  BY <1>4 DEF MakeDir, Fresh
<1>5. CASE OpenFile
  BY <1>2, <1>3, <1>5 DEF OpenFile
<1>6. CASE WriteFile
  BY <1>2, <1>3, <1>6 DEF WriteFile
<1>7. CASE StartDump
  BY <1>2, <1>3, <1>7 DEF StartDump
<1>8. CASE KillDump
  BY <1>2, <1>3, <1>8 DEF KillDump
<1>9. CASE InterruptPlain
  BY <1>1, <1>2, <1>3, <1>9 DEF InterruptPlain
<1>10. ASSUME NEW e \in Exps, DumpDies(e) \/ DumpEnds(e) PROVE Fresh'
  BY <1>3, <1>10 DEF DumpDies, DumpEnds, Fresh
<1>11. CASE LoopEnds \/ PopenClient \/ ReadLine \/ EnterTry \/ RunClient
            \/ ClientReturns \/ EnterFinally \/ ClientEnds
  BY <1>1, <1>11 DEF LoopEnds, PopenClient, ReadLine, EnterTry, RunClient,
     ClientReturns, EnterFinally, ClientEnds
<1>12. CASE MakeDirFails \/ FileFails \/ InterruptClient \/ InterruptRead
            \/ InterruptLosing \/ InterruptInTry \/ KillDumpFails
  BY <1>1, <1>12 DEF MakeDirFails, FileFails, InterruptClient, InterruptRead,
     InterruptLosing, InterruptInTry, KillDumpFails
<1> QED
  BY <1>4, <1>5, <1>6, <1>7, <1>8, <1>9, <1>10, <1>11, <1>12
     DEF Inner, ExpStep, ExpFault

\* Files are written in the order of the experiments, each once.
LEMMA FilesStep ==
    ASSUME ExpTypeOK, ExpInv, Inner
    PROVE  FilesSoFar'
<1>0. /\ n \in 1..(Count + 1) /\ Count \in Nat
      /\ file \in [Exps -> {"none", "empty", "row", "error"}]
      /\ \A e \in Exps : e[2] \in 1..Count
      /\ Position /\ Fresh /\ FilesSoFar
  BY BoundsNat DEF ExpTypeOK, Exps, ExpInv
<1> USE DEF InRun, InMeasure, InCapture, diskVars, dumpVars, Goto, Ends, Done
\* no file changes and the script stays where it is, as far as files go
<1>1. ASSUME UNCHANGED <<kind, file, dir, n>>,
             pc' \in InRun => pc \in InRun /\ (pc' = "write" <=> pc = "write")
      PROVE  FilesSoFar'
  BY <1>0, <1>1 DEF FilesSoFar
<1>2. ASSUME kind = "capture", UNCHANGED <<kind, file>> PROVE FilesSoFar'
  BY <1>0, <1>2 DEF FilesSoFar
<1>3. ASSUME UNCHANGED <<kind, file>>, pc' = "idle" PROVE FilesSoFar'
  BY <1>0, <1>3 DEF FilesSoFar
<1>4. CASE MakeDir
  <2>1. CASE dir \in made
    BY <1>3, <1>4, <2>1 DEF MakeDir
  <2>2. CASE dir \notin made
    <3>1. /\ pc' = "next" /\ n' = 1 /\ UNCHANGED <<kind, dir, file>>
      BY <1>4, <2>2 DEF MakeDir
    <3>2. \A e \in Exps : e[1] = dir => file[e] = "none"
      BY <1>0, <2>2 DEF Fresh
    <3> QED BY <1>0, <3>1, <3>2 DEF FilesSoFar
  <2> QED BY <2>1, <2>2
<1>5. CASE OpenFile
  <2>1. /\ pc = "open" /\ pc' = "write" /\ kind = "measure"
        /\ file' = [file EXCEPT ![Current] = "empty"]
        /\ UNCHANGED <<kind, dir, n>>
    BY <1>0, <1>5 DEF OpenFile, Position
  <2>2. \A e \in Exps : file'[e] = IF e[1] = dir /\ e[2] = n THEN "empty" ELSE file[e]
    BY <1>0, <2>1, CurrentIs
  <2>3. \A e \in Exps : e[1] = dir /\ e[2] < n => Done(e)
    BY <1>0, <2>1 DEF FilesSoFar
  <2>4. \A e \in Exps : e[1] = dir /\ e[2] >= n => file[e] = "none"
    BY <1>0, <2>1 DEF FilesSoFar
  <2>5. \A e, f \in Exps :
           e[1] = f[1] /\ f[2] < e[2] /\ file[e] # "none" => Done(f)
    BY <1>0 DEF FilesSoFar
  <2>6. \A e, f \in Exps :
           e[1] = f[1] /\ f[2] < e[2] /\ file'[e] # "none" => Done(f)'
    <3> SUFFICES ASSUME NEW e \in Exps, NEW f \in Exps,
                        e[1] = f[1], f[2] < e[2], file'[e] # "none"
                 PROVE  Done(f)'
      OBVIOUS
    <3>1. CASE e[1] = dir /\ e[2] = n
      <4>1. f[1] = dir /\ f[2] < n /\ f[2] # n
        BY <1>0, <3>1
      <4>2. Done(f)
        BY <2>3, <4>1
      <4> QED BY <2>2, <4>1, <4>2
    <3>2. CASE ~(e[1] = dir /\ e[2] = n)
      <4>1. Done(f)
        BY <2>2, <2>5, <3>2
      <4>2. ~(f[1] = dir /\ f[2] = n)
        BY <1>0, <2>4, <4>1
      <4> QED BY <2>2, <4>1, <4>2
    <3> QED BY <3>1, <3>2
  <2> QED BY <1>0, <2>1, <2>2, <2>3, <2>4, <2>6 DEF FilesSoFar
<1>6. ASSUME pc = "write", kind = "measure", UNCHANGED <<kind, dir>>,
             file' = [file EXCEPT ![Current] = client],
             (pc' = "next" /\ n' = n + 1) \/ pc' = "idle"
      PROVE  FilesSoFar'
  <2>1. client \in {"row", "error"}
    BY <1>0, <1>6 DEF Position
  <2>2. \A e \in Exps : file'[e] = IF e[1] = dir /\ e[2] = n THEN client ELSE file[e]
    BY <1>0, <1>6, CurrentIs
  <2>3. \A e \in Exps : e[1] = dir =>
           /\ e[2] < n => Done(e)
           /\ e[2] > n => file[e] = "none"
           /\ e[2] = n => file[e] = "empty"
    BY <1>0, <1>6 DEF FilesSoFar
  <2>4. \A e \in Exps : Done(e) => Done(e)'
    BY <2>1, <2>2
  <2>5. \A e, f \in Exps :
           e[1] = f[1] /\ f[2] < e[2] /\ file'[e] # "none" => Done(f)'
    BY <1>0, <2>2, <2>3, <2>4 DEF FilesSoFar
  <2>6. pc' = "next" => \A e \in Exps : e[1] = dir =>
           /\ e[2] < n' => Done(e)'
           /\ e[2] >= n' => file'[e] = "none"
    BY <1>0, <1>6, <2>1, <2>2, <2>3, <2>4
  <2> QED BY <1>0, <1>6, <2>5, <2>6 DEF FilesSoFar
<1>7. CASE WriteFile
  BY <1>0, <1>6, <1>7 DEF WriteFile, Position
<1>8. CASE InterruptPlain
  BY <1>0, <1>3, <1>6, <1>8 DEF InterruptPlain, Position
<1>9. CASE LoopEnds \/ PopenClient \/ ReadLine \/ EnterTry \/ RunClient
            \/ ClientReturns \/ EnterFinally \/ ClientEnds \/ StartDump
  BY <1>1, <1>9 DEF LoopEnds, PopenClient, ReadLine, EnterTry, RunClient,
     ClientReturns, EnterFinally, ClientEnds, StartDump
<1>10. CASE KillDump
  BY <1>0, <1>2, <1>10 DEF KillDump, Position
<1>11. CASE MakeDirFails \/ FileFails \/ InterruptRead \/ InterruptLosing
            \/ KillDumpFails
  BY <1>3, <1>11 DEF MakeDirFails, FileFails, InterruptRead, InterruptLosing,
     KillDumpFails
<1>12. CASE InterruptClient \/ InterruptInTry
  BY <1>1, <1>12 DEF InterruptClient, InterruptInTry
<1>13. ASSUME NEW e \in Exps, DumpDies(e) \/ DumpEnds(e) PROVE FilesSoFar'
  BY <1>1, <1>13 DEF DumpDies, DumpEnds
<1> QED
  BY <1>4, <1>5, <1>7, <1>8, <1>9, <1>10, <1>11, <1>12, <1>13
     DEF Inner, ExpStep, ExpFault

\* Each tcpdump is started once, and gets its signal before the next one is.
LEMMA DumpsStep ==
    ASSUME ExpTypeOK, ExpInv, Inner
    PROVE  DumpsSoFar'
<1>0. /\ n \in 1..(Count + 1) /\ Count \in Nat
      /\ dump \in [Exps -> {"none", "on", "signalled", "gone", "dead"}]
      /\ \A e \in Exps : e[2] \in 1..Count
      /\ Position /\ Fresh /\ DumpsSoFar
  BY BoundsNat DEF ExpTypeOK, Exps, ExpInv
<1> USE DEF InRun, InMeasure, InCapture, diskVars, dumpVars, Goto, Ends
<1>1. ASSUME UNCHANGED <<kind, dump, dir, n, lost>>,
             pc' \in InRun => pc \in InRun /\ (pc' = "next" <=> pc = "next"),
             pc \in InCapture => pc' \in InCapture
      PROVE  DumpsSoFar'
  BY <1>0, <1>1 DEF DumpsSoFar, Current
<1>2. ASSUME kind = "measure", UNCHANGED <<kind, dump>> PROVE DumpsSoFar'
  BY <1>0, <1>2 DEF DumpsSoFar
<1>3. ASSUME UNCHANGED <<kind, dump>>, pc' = "idle", lost \subseteq lost',
             pc \in InCapture => Current \in lost'
      PROVE  DumpsSoFar'
  BY <1>0, <1>3 DEF DumpsSoFar
<1>4. CASE MakeDir
  <2>1. CASE dir \in made
    BY <1>3, <1>4, <2>1 DEF MakeDir
  <2>2. CASE dir \notin made
    <3>1. /\ pc = "check" /\ pc' = "next" /\ n' = 1
          /\ UNCHANGED <<kind, dir, dump, lost>>
      BY <1>4, <2>2 DEF MakeDir
    <3>2. \A e \in Exps : e[1] = dir => dump[e] = "none"
      BY <1>0, <2>2 DEF Fresh
    <3>3. \A e \in Exps : dump[e] = "on" => e \in lost
      BY <1>0, <3>1 DEF DumpsSoFar
    <3>4. kind = "measure" => \A e \in Exps : dump[e] = "none"
      BY <1>0 DEF DumpsSoFar
    <3> QED BY <1>0, <3>1, <3>2, <3>3, <3>4 DEF DumpsSoFar
  <2> QED BY <2>1, <2>2
<1>5. CASE StartDump
  <2>1. /\ kind = "capture" /\ pc = "next" /\ pc' = "settle"
        /\ dump' = [dump EXCEPT ![Current] = "on"]
        /\ UNCHANGED <<kind, dir, n, lost>>
    BY <1>5 DEF StartDump
  <2>2. \A e \in Exps : dump'[e] = IF e[1] = dir /\ e[2] = n THEN "on" ELSE dump[e]
    BY <1>0, <2>1, CurrentIs
  <2>3. \A e \in Exps : e[1] = dir =>
           /\ e[2] < n => dump[e] \notin {"none", "on"}
           /\ e[2] >= n => dump[e] = "none"
    BY <1>0, <2>1 DEF DumpsSoFar
  <2>4. \A e \in Exps : dump[e] = "on" => e \in lost
    BY <1>0, <2>1 DEF DumpsSoFar
  <2>5. \A e \in Exps : e[1] = dir =>
           /\ e[2] < n => dump'[e] \notin {"none", "on"}
           /\ e[2] > n => dump'[e] = "none"
           /\ e[2] = n => dump'[e] = "on"
    BY <1>0, <2>2, <2>3
  <2>6. \A e \in Exps : dump'[e] = "on" => e \in lost' \/ e = Current'
    BY <2>1, <2>2, <2>4, CurrentIs DEF Current
  <2> QED BY <2>1, <2>5, <2>6 DEF DumpsSoFar
<1>6. CASE KillDump
  <2>1. /\ kind = "capture" /\ pc \in {"finally", "unwind"}
        /\ dump' = [dump EXCEPT ![Current] = IF @ = "on" THEN "signalled" ELSE @]
        /\ (pc' = "next" /\ n' = n + 1) \/ pc' = "idle"
        /\ UNCHANGED <<kind, dir, lost>>
    BY <1>0, <1>6 DEF KillDump, Position
  <2>2. \A e \in Exps : dump'[e] = IF e[1] = dir /\ e[2] = n /\ dump[e] = "on"
                                    THEN "signalled" ELSE dump[e]
    BY <1>0, <2>1, CurrentIs
  <2>3. \A e \in Exps : e[1] = dir =>
           /\ e[2] < n => dump[e] \notin {"none", "on"}
           /\ e[2] > n => dump[e] = "none"
           /\ e[2] = n => dump[e] \in {"on", "dead"}
    BY <1>0, <2>1 DEF DumpsSoFar
  <2>4. \A e \in Exps : dump'[e] = "on" => e \in lost'
    BY <1>0, <2>1, <2>2, CurrentIs DEF DumpsSoFar
  <2>5. \A e \in Exps : e[1] = dir =>
           /\ e[2] < n + 1 => dump'[e] \notin {"none", "on"}
           /\ e[2] >= n + 1 => dump'[e] = "none"
    BY <1>0, <2>2, <2>3
  <2>6. pc' = "next" => \A e \in Exps : e[1] = dir' =>
           /\ e[2] < n' => dump'[e] \notin {"none", "on"}
           /\ e[2] > n' => dump'[e] = "none"
           /\ e[2] = n' => dump'[e] = "none"
    BY <1>0, <2>1, <2>5
  <2> QED BY <2>1, <2>4, <2>6 DEF DumpsSoFar
<1>7. ASSUME NEW x \in Exps, DumpDies(x) \/ DumpEnds(x) PROVE DumpsSoFar'
  <2>1. /\ UNCHANGED <<kind, pc, dir, n, lost>>
        /\ dump[x] \in {"on", "signalled"}
        /\ dump' = [dump EXCEPT ![x] = IF dump[x] = "on" THEN "dead" ELSE "gone"]
    BY <1>7 DEF DumpDies, DumpEnds
  <2>2. \A e \in Exps : dump'[e] = IF e = x
                                    THEN IF dump[x] = "on" THEN "dead" ELSE "gone"
                                    ELSE dump[e]
    BY <1>0, <2>1
  <2>3. kind = "capture"
    BY <1>0, <2>1 DEF DumpsSoFar, ExpTypeOK
  <2> QED BY <1>0, <2>1, <2>2, <2>3 DEF DumpsSoFar, Current
<1>8. CASE LoopEnds
  BY <1>3, <1>8 DEF LoopEnds
<1>9. CASE PopenClient \/ ReadLine \/ OpenFile \/ WriteFile \/ FileFails
            \/ InterruptRead
  BY <1>0, <1>2, <1>9 DEF PopenClient, ReadLine, OpenFile, WriteFile, FileFails,
     InterruptRead, Position
<1>10. CASE EnterTry \/ RunClient \/ ClientReturns \/ EnterFinally
            \/ ClientEnds \/ InterruptClient \/ InterruptInTry
  BY <1>1, <1>10 DEF EnterTry, RunClient, ClientReturns, EnterFinally,
     ClientEnds, InterruptClient, InterruptInTry
<1>11. CASE MakeDirFails \/ InterruptPlain
  BY <1>3, <1>11 DEF MakeDirFails, InterruptPlain
<1>12. CASE InterruptLosing \/ KillDumpFails
  BY <1>3, <1>12 DEF InterruptLosing, KillDumpFails
<1> QED
  BY <1>4, <1>5, <1>6, <1>7, <1>8, <1>9, <1>10, <1>11, <1>12
     DEF Inner, ExpStep, ExpFault

-----------------------------------------------------------------------------
\* An experiment that came to its end is not undone.
LEMMA CompleteStays ==
    ASSUME ExpTypeOK, ExpInv, Inner, NEW d, Complete(d)
    PROVE  Complete(d)'
<1>0. /\ dump \in [Exps -> {"none", "on", "signalled", "gone", "dead"}]
      /\ file \in [Exps -> {"none", "empty", "row", "error"}]
      /\ Position /\ Fresh /\ FilesSoFar /\ DumpsSoFar
      /\ kind \in {"measure", "capture"}
      /\ n \in 1..(Count + 1) /\ Count \in Nat
      /\ \A e \in Exps : e[2] \in 1..Count
  BY BoundsNat DEF ExpTypeOK, Exps, ExpInv
<1> USE DEF InRun, InMeasure, InCapture, diskVars, dumpVars, Goto, Ends
<1>1. ASSUME UNCHANGED <<kind, file, dump>> PROVE Complete(d)'
  BY <1>1 DEF Complete, Done
<1>2. CASE OpenFile
  <2>1. /\ kind = "measure" /\ pc = "open" /\ kind' = kind
        /\ file' = [file EXCEPT ![Current] = "empty"]
    BY <1>0, <1>2 DEF OpenFile, Position
  <2>2. \A e \in Exps : e[1] = dir /\ e[2] = n => file[e] = "none"
    BY <1>0, <2>1 DEF FilesSoFar
  <2>3. \A e \in Exps : e[1] = d => e # Current
    BY <2>1, <2>2, CurrentIs DEF Complete, Done
  <2> QED BY <1>0, <2>1, <2>3 DEF Complete, Done
<1>3. ASSUME file' = [file EXCEPT ![Current] = client], pc = "write", kind' = kind
      PROVE  Complete(d)'
  <2>1. kind = "measure" /\ client \in {"row", "error"}
    BY <1>0, <1>3 DEF Position
  <2>2. \A e \in Exps : file'[e] = IF e = Current THEN client ELSE file[e]
    BY <1>0, <1>3
  <2> QED BY <1>3, <2>1, <2>2 DEF Complete, Done
<1>4. CASE WriteFile
  BY <1>3, <1>4 DEF WriteFile
<1>5. CASE StartDump
  <2>1. /\ kind = "capture" /\ pc = "next" /\ kind' = kind
        /\ dump' = [dump EXCEPT ![Current] = "on"]
    BY <1>5 DEF StartDump
  <2>2. \A e \in Exps : e[1] = dir /\ e[2] = n => dump[e] = "none"
    BY <1>0, <2>1 DEF DumpsSoFar
  <2>3. \A e \in Exps : e[1] = d => e # Current
    BY <2>1, <2>2, CurrentIs DEF Complete
  <2> QED BY <1>0, <2>1, <2>3 DEF Complete
<1>6. CASE KillDump
  <2>1. /\ kind = "capture" /\ kind' = kind
        /\ dump' = [dump EXCEPT ![Current] = IF @ = "on" THEN "signalled" ELSE @]
    BY <1>0, <1>6 DEF KillDump, Position
  <2>2. \A e \in Exps : dump[e] \notin {"none", "on"} => dump'[e] \notin {"none", "on"}
    BY <1>0, <2>1
  <2> QED BY <2>1, <2>2 DEF Complete
<1>7. ASSUME NEW x \in Exps, DumpDies(x) \/ DumpEnds(x) PROVE Complete(d)'
  <2>1. /\ UNCHANGED <<kind, file>> /\ dump[x] \in {"on", "signalled"}
        /\ dump' = [dump EXCEPT ![x] = IF dump[x] = "on" THEN "dead" ELSE "gone"]
    BY <1>7 DEF DumpDies, DumpEnds
  <2>2. \A e \in Exps : dump[e] \notin {"none", "on"} => dump'[e] \notin {"none", "on"}
    BY <1>0, <2>1
  <2>3. kind = "capture"
    BY <1>0, <2>1 DEF DumpsSoFar
  <2> QED BY <2>1, <2>2, <2>3 DEF Complete
<1>8. CASE InterruptPlain
  BY <1>1, <1>3, <1>8 DEF InterruptPlain
<1>9. CASE MakeDir \/ LoopEnds \/ PopenClient \/ ReadLine \/ EnterTry \/ RunClient
           \/ ClientReturns \/ EnterFinally \/ ClientEnds
  BY <1>1, <1>9 DEF MakeDir, LoopEnds, PopenClient, ReadLine, EnterTry, RunClient,
     ClientReturns, EnterFinally, ClientEnds
<1>10. CASE MakeDirFails \/ FileFails \/ InterruptClient \/ InterruptRead
            \/ InterruptLosing \/ InterruptInTry \/ KillDumpFails
  BY <1>1, <1>10 DEF MakeDirFails, FileFails, InterruptClient, InterruptRead,
     InterruptLosing, InterruptInTry, KillDumpFails
<1> QED
  BY <1>2, <1>4, <1>5, <1>6, <1>7, <1>8, <1>9, <1>10
     DEF Inner, ExpStep, ExpFault

\* A script ends with 0 only behind its last experiment.
LEMMA OkIsComplete ==
    ASSUME ExpTypeOK, ExpInv, Inner, status' = "ok", status # "ok"
    PROVE  Complete(dir)' /\ pc # "idle"
<1>1. LoopEnds
  BY DEF Inner, ExpStep, ExpFault, MakeDir, PopenClient, ReadLine, OpenFile,
     WriteFile, StartDump, EnterTry, RunClient, ClientReturns, EnterFinally,
     KillDump, KillDumpFails, ClientEnds, MakeDirFails, FileFails,
     InterruptClient, InterruptRead, InterruptPlain, InterruptLosing,
     InterruptInTry, DumpDies, DumpEnds, Goto, Ends
<1>2. /\ pc = "next" /\ n > Count /\ UNCHANGED <<kind, dir, file, dump>>
  BY <1>1 DEF LoopEnds, diskVars, dumpVars
<1>3. \A e \in Exps : e[2] \in 1..Count
  BY DEF Exps
<1>4. n \in Int /\ Count \in Int /\ kind \in {"measure", "capture"}
  BY BoundsNat DEF ExpTypeOK
<1>5. Complete(dir)
  BY <1>2, <1>3, <1>4 DEF Complete, ExpInv, FilesSoFar, DumpsSoFar, InRun
<1> QED BY <1>2, <1>5 DEF Complete, Done

\* The directory and the moment at which a script runs are the batch's.
LEMMA DirStays ==
    ASSUME Inner
    PROVE  /\ dir' = dir
           /\ pc = "idle" => pc' = "idle" /\ status' = status
  BY DEF Inner, ExpStep, ExpFault, MakeDir, LoopEnds, PopenClient, ReadLine,
     OpenFile, WriteFile, StartDump, EnterTry, RunClient, ClientReturns,
     EnterFinally, KillDump, KillDumpFails, ClientEnds, MakeDirFails, FileFails,
     InterruptClient, InterruptRead, InterruptPlain, InterruptLosing,
     InterruptInTry, DumpDies, DumpEnds, Goto, Ends

\* What the outer scripts leave alone while an experiment script runs.
OuterSame == UNCHANGED <<stressVars, batchVars, runs>>

LEMMA InnerKeeps ==
    ASSUME IInv, Inner, OuterSame
    PROVE  IInv'
<1>0. ExpTypeOK /\ ExpInv /\ Position
  BY DEF IInv, TypeOK, ExpInv
<1>1. ExpTypeOK' /\ ExpInv'
  BY <1>0, ExpTypeStep, PositionStep, FreshStep, FilesStep, DumpsStep DEF ExpInv
<1>2. UNCHANGED <<spc, lvl, load, stray, bpc, scene, modes, given, verdict,
                  setup, runs>>
  BY DEF OuterSame, stressVars, batchVars, argVars
<1>3. TypeOK'
  BY <1>1, <1>2 DEF IInv, TypeOK
<1>4. ForBatch'
  <2>1. dir' = dir /\ (pc = "idle" => pc' = "idle" /\ status' = status)
    BY DirStays
  <2>2. pc' # "idle" \/ status' # "none" => bpc' \in modes' /\ dir' = <<scene', bpc'>>
    BY <1>2, <2>1 DEF IInv, ForBatch
  <2>3. CASE status = "ok"
    <3>1. Complete(dir)
      BY <2>3 DEF IInv, ForBatch
    <3>2. PICK d : d = dir
      OBVIOUS
    <3>3. Complete(d)'
      BY <1>0, <3>1, <3>2, CompleteStays
    <3>4. Complete(dir)'
      BY <2>1, <3>2, <3>3 DEF Complete
    <3> QED BY <2>2, <3>4 DEF ForBatch
  <2>4. CASE status # "ok"
    BY <1>0, <2>2, <2>4, OkIsComplete DEF ForBatch
  <2> QED BY <2>3, <2>4
<1>5. StagesBehind'
  <2>1. \A m \in modes : Complete(<<scene, m>>) => Complete(<<scene, m>>)'
    BY <1>0, <1>2, CompleteStays DEF Complete
  <2> QED BY <1>2, <2>1 DEF IInv, StagesBehind, Complete
<1>6. SetupOfStage' /\ VerdictAtEnd' /\ LevelInHand' /\ LoadMatchesLevel'
  BY <1>2 DEF IInv, SetupOfStage, VerdictAtEnd, LevelInHand, LoadMatchesLevel,
     Level
<1> QED BY <1>1, <1>3, <1>4, <1>5, <1>6 DEF IInv

-----------------------------------------------------------------------------
(***************************************************************************)
(* The steps of the outer scripts.                                         *)
(***************************************************************************)
\* A script that does not run needs no more than what is on disk.
LEMMA IdleExp ==
    ASSUME ExpTypeOK, ExpInv, pc = "idle",
           UNCHANGED <<kind, pc, made, file, dump, lost>>,
           n' = n, dir' = dir
    PROVE  ExpInv'
  BY DEF ExpInv, Position, Fresh, FilesSoFar, DumpsSoFar, InRun, InMeasure,
     InCapture, Done

LEMMA SameExp ==
    ASSUME ExpTypeOK, ExpInv, UNCHANGED expVars
    PROVE  ExpInv'
  BY DEF expVars, diskVars, dumpVars, ExpInv, Position, Fresh, FilesSoFar,
     DumpsSoFar, Done, Current

\* Only disk and captures count for what is complete.
LEMMA CompleteSame ==
    ASSUME UNCHANGED <<kind, file, dump>>, NEW d
    PROVE  Complete(d)' <=> Complete(d)
  BY DEF Complete, Done

LEMMA ArgTypes ==
    ASSUME TypeOK
    PROVE  /\ modes \subseteq Modes
           /\ Scenes \X Modes = Dirs
           /\ \A s \in Scenes, m \in Modes : <<s, m>> \in Dirs
           /\ lvl \in 1..Len(Levels) => Level \in Nat /\ Level \in Scenes
           /\ {} \subseteq Modes /\ Hand \in Scenes
  BY CampaignAssumption DEF TypeOK, Scenes, Level, Modes

\* A batch that starts, from whatever the last one left.
LEMMA BatchStartKeeps ==
    ASSUME IInv, NEW s \in Scenes, NEW ms \in ModeSets, NEW g \in BOOLEAN,
           BatchStarts(s, ms, g), UNCHANGED expVars
    PROVE  ForBatch' /\ StagesBehind' /\ SetupOfStage' /\ VerdictAtEnd'
<1>1. pc = "idle" /\ status = "none"
  BY ArgTypes DEF IInv, ForBatch, BatchStarts, Modes
<1>2. bpc' = "clear" /\ verdict' = "none" /\ pc' = "idle" /\ status' = "none"
  BY <1>1 DEF BatchStarts, expVars
<1> QED BY <1>2 DEF ForBatch, StagesBehind, SetupOfStage, VerdictAtEnd

\* What a batch step leaves alone.
BatchFrame == UNCHANGED <<stressVars, runs>>

LEMMA FrameStress ==
    ASSUME IInv, BatchFrame
    PROVE  LevelInHand' /\ LoadMatchesLevel'
  BY DEF IInv, BatchFrame, stressVars, LevelInHand, LoadMatchesLevel, Level

LEMMA BatchKeeps ==
    ASSUME IInv, BatchStep \/ BatchInterrupted
    PROVE  IInv'
<1>0. /\ ExpTypeOK /\ ExpInv /\ ForBatch /\ StagesBehind /\ SetupOfStage
      /\ VerdictAtEnd /\ TypeOK /\ modes \subseteq Modes
      /\ faults \in 0..MaxFaults /\ MaxFaults \in Nat
  BY ArgTypes, BoundsNat DEF IInv, TypeOK, ExpTypeOK
<1> USE DEF batchVars, argVars, stressVars, BatchEnds, BatchGoto, Clears,
            ClearFails, Fault
<1>a. BatchFrame
  BY DEF BatchStep, BatchClear, BatchSkip, BatchRunExp, BatchExpDone, BatchSet,
     BatchUnset, BatchInterrupted, BatchFrame
<1>b. LevelInHand' /\ LoadMatchesLevel'
  BY <1>a, FrameStress
\* steps at which no experiment script is involved
<1>1. ASSUME UNCHANGED expVars, pc = "idle", status = "none",
             ForBatch' /\ StagesBehind' /\ SetupOfStage' /\ VerdictAtEnd',
             UNCHANGED <<scene, modes, given>>,
             bpc' \in {"off", "clear", "tcp", "normal", "set", "xdp", "unset"},
             verdict' \in {"none", "ok", "fail"}, setup' \in {"off", "on"},
             faults' \in 0..MaxFaults
      PROVE  IInv'
  <2>1. ExpInv'
    BY <1>0, <1>1, SameExp
  <2>2. ExpTypeOK'
    BY <1>0, <1>1 DEF ExpTypeOK, expVars, diskVars, dumpVars
  <2>3. TypeOK'
    BY <1>a, <1>0, <1>1, <2>2 DEF TypeOK, BatchFrame
  <2> QED BY <1>b, <1>1, <2>1, <2>3 DEF IInv
<1>2. ASSUME UNCHANGED expVars PROVE UNCHANGED <<kind, pc, dir, status, file, dump>>
  BY <1>2 DEF expVars, diskVars, dumpVars
<1>3. CASE BatchClear
  <2>1. pc = "idle" /\ status = "none" /\ bpc = "clear"
    BY <1>0, <1>3 DEF BatchClear, ForBatch, Modes
  <2>2. UNCHANGED expVars /\ UNCHANGED <<scene, modes, given>>
    BY <1>3 DEF BatchClear
  <2>3. \/ bpc' = "tcp" /\ setup' = "off" /\ verdict' = verdict
        \/ bpc' = "off" /\ verdict' = "fail"
    BY <1>3 DEF BatchClear
  <2>4. setup' \in {"off", "on"} /\ faults' \in 0..MaxFaults
    BY <1>0, <1>3 DEF BatchClear, TypeOK
  <2>5. ForBatch' /\ StagesBehind'
    BY <1>0, <1>2, <2>1, <2>2, <2>3 DEF ForBatch, StagesBehind, VerdictAtEnd
  <2>6. SetupOfStage' /\ VerdictAtEnd'
    BY <1>0, <2>1, <2>3 DEF SetupOfStage, VerdictAtEnd
  <2>7. verdict' \in {"none", "ok", "fail"}
    BY <1>0, <2>3 DEF TypeOK
  <2> QED BY <1>1, <2>1, <2>2, <2>3, <2>4, <2>5, <2>6, <2>7
<1>4. CASE BatchSkip
  <2>1. /\ UNCHANGED expVars /\ UNCHANGED <<scene, modes, given, verdict, setup, faults>>
        /\ \/ "tcp" \notin modes /\ bpc = "tcp" /\ bpc' = "normal"
           \/ "normal" \notin modes /\ bpc = "normal" /\ bpc' = "set"
           \/ "xdp" \notin modes /\ bpc = "set" /\ bpc' = "unset"
    BY <1>4 DEF BatchSkip
  <2>2. pc = "idle" /\ status = "none"
    BY <1>0, <2>1 DEF ForBatch, Modes
  <2>3. StagesBehind'
    BY <1>0, <1>2, <2>1, CompleteSame DEF StagesBehind, VerdictAtEnd
  <2>4. ForBatch' /\ SetupOfStage' /\ VerdictAtEnd'
    BY <1>0, <1>2, <2>1, <2>2 DEF ForBatch, SetupOfStage, VerdictAtEnd
  <2>5. verdict' \in {"none", "ok", "fail"} /\ setup' \in {"off", "on"}
    BY <1>0, <2>1 DEF TypeOK
  <2> QED BY <1>0, <1>1, <2>1, <2>2, <2>3, <2>4, <2>5
<1>5. CASE BatchSet
  <2>1. /\ UNCHANGED expVars /\ UNCHANGED <<scene, modes, given>>
        /\ bpc = "set" /\ setup' \in {"off", "on"} /\ faults' \in 0..MaxFaults
        /\ \/ bpc' = "xdp" /\ setup' = "on" /\ verdict' = verdict
           \/ bpc' = "off" /\ verdict' = "fail"
    BY <1>0, <1>5 DEF BatchSet
  <2>2. pc = "idle" /\ status = "none"
    BY <1>0, <2>1 DEF ForBatch, Modes
  <2>3. StagesBehind'
    BY <1>0, <1>2, <2>1, CompleteSame DEF StagesBehind, VerdictAtEnd
  <2>4. ForBatch' /\ SetupOfStage' /\ VerdictAtEnd'
    BY <1>0, <1>2, <2>1, <2>2 DEF ForBatch, SetupOfStage, VerdictAtEnd
  <2>5. verdict' \in {"none", "ok", "fail"}
    BY <1>0, <2>1 DEF TypeOK
  <2> QED BY <1>1, <2>1, <2>2, <2>3, <2>4, <2>5
<1>6. CASE BatchUnset
  <2>1. /\ UNCHANGED expVars /\ UNCHANGED <<scene, modes, given>>
        /\ bpc = "unset" /\ bpc' = "off" /\ verdict' = "ok"
        /\ setup' \in {"off", "on"} /\ faults' \in 0..MaxFaults
    BY <1>0, <1>6 DEF BatchUnset, TypeOK
  <2>2. pc = "idle" /\ status = "none"
    BY <1>0, <2>1 DEF ForBatch, Modes
  <2>3. StagesBehind'
    <3> SUFFICES ASSUME NEW m \in modes, m # "xdp" PROVE Complete(<<scene, m>>)
      BY <1>2, <2>1, CompleteSame DEF StagesBehind
    <3>1. m \in {"tcp", "normal"}
      BY <1>0 DEF Modes
    <3> QED BY <1>0, <2>1, <3>1 DEF StagesBehind
  <2>4. ForBatch' /\ SetupOfStage' /\ VerdictAtEnd'
    BY <1>0, <1>2, <2>1, <2>2 DEF ForBatch, SetupOfStage, VerdictAtEnd
  <2> QED BY <1>1, <2>1, <2>2, <2>3, <2>4
\* steps that start an experiment script or take its result
<1>7. CASE BatchRunExp
  <2>1. /\ bpc \in modes /\ pc = "idle" /\ status = "none"
        /\ pc' = "check" /\ dir' = <<scene, bpc>>
        /\ UNCHANGED <<kind, n, status, client, made, file, dump, lost, faults>>
        /\ UNCHANGED <<bpc, scene, modes, given, verdict, setup>>
    BY <1>7 DEF BatchRunExp, StartExp, diskVars, dumpVars
  <2>2. dir' \in Dirs
    BY <1>0, <2>1, ArgTypes DEF TypeOK
  <2>3. ExpTypeOK'
    BY <1>0, <2>1, <2>2 DEF ExpTypeOK
  <2>4. ExpInv'
    BY <1>0, <2>1, <2>2 DEF ExpInv, Position, Fresh, FilesSoFar, DumpsSoFar,
       InRun, InMeasure, InCapture, Done
  <2>5. TypeOK'
    BY <1>a, <1>0, <2>1, <2>3 DEF TypeOK, BatchFrame
  <2>6. ForBatch' /\ SetupOfStage' /\ VerdictAtEnd'
    BY <1>0, <2>1 DEF ForBatch, SetupOfStage, VerdictAtEnd
  <2>7. StagesBehind'
    BY <1>0, <2>1, CompleteSame DEF StagesBehind
  <2> QED BY <1>b, <2>4, <2>5, <2>6, <2>7 DEF IInv
<1>8. ASSUME pc = "idle", status' = "none",
             UNCHANGED <<kind, pc, dir, n, client, made, file, dump, lost, setup,
                         scene, modes, given>>,
             faults' \in 0..MaxFaults,
             bpc' \in {"off", "clear", "tcp", "normal", "set", "xdp", "unset"},
             verdict' \in {"none", "ok", "fail"},
             StagesBehind' /\ SetupOfStage' /\ VerdictAtEnd'
      PROVE  IInv'
  <2>1. ExpTypeOK'
    BY <1>0, <1>8 DEF ExpTypeOK
  <2>2. ExpInv'
    BY <1>0, <1>8, IdleExp
  <2>3. TypeOK'
    BY <1>a, <1>0, <1>8, <2>1 DEF TypeOK, BatchFrame
  <2>4. ForBatch'
    BY <1>8 DEF ForBatch
  <2> QED BY <1>b, <1>8, <2>2, <2>3, <2>4 DEF IInv
<1>9. CASE BatchExpDone
  <2>1. /\ pc = "idle" /\ status # "none" /\ status' = "none"
        /\ UNCHANGED <<kind, pc, dir, n, client, made, file, dump, lost, setup,
                       scene, modes, given, faults>>
        /\ \/ status = "ok" /\ bpc = "tcp" /\ bpc' = "normal" /\ verdict' = verdict
           \/ status = "ok" /\ bpc = "normal" /\ bpc' = "set" /\ verdict' = verdict
           \/ status = "fail" /\ bpc \in {"tcp", "normal"} /\ bpc' = "off"
              /\ verdict' = "fail"
           \/ bpc = "xdp" /\ bpc' = "unset" /\ verdict' = verdict
    BY <1>9 DEF BatchExpDone, diskVars, dumpVars
  <2>2. bpc \in modes /\ dir = <<scene, bpc>> /\ (status = "ok" => Complete(dir))
    BY <1>0, <2>1 DEF ForBatch
  <2>3. StagesBehind'
    <3> SUFFICES ASSUME NEW m \in modes,
                        \/ m = "tcp" /\ bpc' \in {"normal", "set", "xdp", "unset"}
                        \/ m = "normal" /\ bpc' \in {"set", "xdp", "unset"}
                        \/ m # "xdp" /\ verdict' = "ok"
                 PROVE  Complete(<<scene, m>>)
      BY <2>1, CompleteSame DEF StagesBehind
    <3>1. verdict' # "ok"
      BY <1>0, <2>1 DEF VerdictAtEnd
    <3>2. CASE m = bpc
      BY <2>1, <2>2, <3>1, <3>2
    <3>3. CASE m # bpc
      BY <1>0, <2>1, <3>1, <3>3 DEF StagesBehind
    <3> QED BY <3>2, <3>3
  <2>4. SetupOfStage' /\ VerdictAtEnd'
    BY <1>0, <2>1 DEF SetupOfStage, VerdictAtEnd
  <2>5. faults' \in 0..MaxFaults /\ verdict' \in {"none", "ok", "fail"}
    BY <1>0, <2>1 DEF TypeOK
  <2> QED BY <1>8, <2>1, <2>3, <2>4, <2>5
<1>10. CASE BatchInterrupted
  <2>1. /\ pc = "idle" /\ status' = "none"
        /\ UNCHANGED <<kind, pc, dir, n, client, made, file, dump, lost, setup,
                       scene, modes, given>>
        /\ bpc' = "off" /\ verdict' = "fail" /\ faults' \in 0..MaxFaults
    BY <1>0, <1>10 DEF BatchInterrupted, diskVars, dumpVars
  <2>2. StagesBehind' /\ SetupOfStage' /\ VerdictAtEnd'
    BY <2>1 DEF StagesBehind, SetupOfStage, VerdictAtEnd
  <2> QED BY <1>8, <2>1, <2>2
<1> QED
  BY <1>3, <1>4, <1>5, <1>6, <1>7, <1>9, <1>10 DEF BatchStep

\* Appending to the loads, and clearing them, gives loads.
LEMMA AppendNat ==
  /\ <<>> \in Seq(Nat)
  /\ \A s \in Seq(Nat), x \in Nat : Append(s, x) \in Seq(Nat)
OBVIOUS

\* The stress script and the operator.
LEMMA StressKeeps ==
    ASSUME IInv, StressStep \/ StressInterrupted \/ OperatorStarts
    PROVE  IInv'
<1>0. /\ ExpTypeOK /\ ExpInv /\ TypeOK /\ LevelInHand /\ LoadMatchesLevel
      /\ ForBatch /\ StagesBehind /\ SetupOfStage /\ VerdictAtEnd
      /\ faults \in 0..MaxFaults /\ MaxFaults \in Nat /\ MaxRuns \in Nat
      /\ load \in Seq(Nat) /\ stray \in BOOLEAN
      /\ lvl \in 1..(Len(Levels) + 1) /\ Len(Levels) \in Nat
  BY BoundsNat, CampaignAssumption DEF IInv, TypeOK, ExpTypeOK
<1>1. UNCHANGED expVars
  BY DEF StressStep, StressLoad, StressRunsBatch, StressBatchDone, StressClean,
     StressNext, StressEnds, StressInterrupted, OperatorStarts
<1>2. ExpInv'
  BY <1>0, <1>1, SameExp
<1>3. ASSUME faults' \in 0..MaxFaults PROVE ExpTypeOK'
  BY <1>0, <1>1, <1>3 DEF ExpTypeOK, expVars, diskVars, dumpVars
<1>4. UNCHANGED <<kind, pc, dir, status, file, dump>>
  BY <1>1 DEF expVars, diskVars, dumpVars
<1>5. ASSUME UNCHANGED batchVars
      PROVE  ForBatch' /\ StagesBehind' /\ SetupOfStage' /\ VerdictAtEnd'
  BY <1>0, <1>4, <1>5, CompleteSame
     DEF batchVars, argVars, ForBatch, StagesBehind, SetupOfStage, VerdictAtEnd
\* a step of the stress script's own
<1>6. ASSUME UNCHANGED batchVars,
             spc' \in {"off", "next", "warm", "run", "cool", "rest"},
             lvl' \in 1..(Len(Levels) + 1), load' \in Seq(Nat),
             stray' \in BOOLEAN, runs' \in 0..MaxRuns, faults' \in 0..MaxFaults,
             LevelInHand', LoadMatchesLevel'
      PROVE  IInv'
  <2>1. TypeOK'
    BY <1>0, <1>3, <1>6 DEF TypeOK, batchVars, argVars
  <2> QED BY <1>2, <1>5, <1>6, <2>1 DEF IInv
\* a batch is started
<1>7. ASSUME NEW s \in Scenes, NEW ms \in ModeSets, NEW g \in BOOLEAN,
             BatchStarts(s, ms, g),
             spc' \in {"off", "next", "warm", "run", "cool", "rest"},
             UNCHANGED <<lvl, load, stray, faults>>, runs' \in 0..MaxRuns,
             LevelInHand', LoadMatchesLevel'
      PROVE  IInv'
  <2>1. ForBatch' /\ StagesBehind' /\ SetupOfStage' /\ VerdictAtEnd'
    BY <1>1, <1>7, BatchStartKeeps
  <2>2. /\ bpc' = "clear" /\ scene' \in Scenes /\ modes' \in ModeSets \cup {{}}
        /\ given' \in BOOLEAN /\ verdict' = "none" /\ setup' = setup
    BY <1>7 DEF BatchStarts
  <2>3. TypeOK'
    BY <1>0, <1>3, <1>7, <2>2 DEF TypeOK
  <2> QED BY <1>2, <1>7, <2>1, <2>3 DEF IInv
<1> USE DEF StressGoto
<1>8. CASE StressLoad
  <2>1. /\ lvl <= Len(Levels) /\ spc = "next" /\ spc' = "warm"
        /\ \/ Level # 0 /\ load' = Append(load, Level) /\ UNCHANGED <<stray, faults>>
           \/ Level # 0 /\ stray' = TRUE /\ load' = load /\ faults' \in 0..MaxFaults
           \/ Level = 0 /\ UNCHANGED <<load, stray, faults>>
        /\ UNCHANGED <<lvl, runs>> /\ UNCHANGED batchVars
    BY <1>0, <1>8 DEF StressLoad, Fault
  <2>2. Level \in Nat /\ Level' = Level
    BY <1>0, <2>1, ArgTypes DEF Level
  <2>3. load' \in Seq(Nat)
    <3>1. \/ load' = Append(load, Level)
          \/ load' = load
      BY <2>1
    <3>2. load \in Seq(Nat)
      BY <1>0
    <3> QED BY <2>2, <3>1, <3>2, AppendNat
  <2>4. ~stray => load = <<>>
    BY <1>0, <2>1 DEF LoadMatchesLevel
  <2>5. Append(<<>>, Level) = <<Level>>
    BY <2>2
  <2>6. LevelInHand'
    BY <2>1 DEF LevelInHand
  <2>7. LoadMatchesLevel'
    <3>1. spc' = "warm" /\ Level' = Level
      BY <2>1, <2>2
    <3>2. CASE Level # 0 /\ load' = Append(load, Level) /\ UNCHANGED <<stray, faults>>
      <4>1. ~stray' => load' = <<Level>>
        BY <2>4, <2>5, <3>2
      <4> QED BY <3>1, <3>2, <4>1 DEF LoadMatchesLevel
    <3>3. CASE stray' = TRUE
      BY <3>3 DEF LoadMatchesLevel
    <3>4. CASE Level = 0 /\ UNCHANGED <<load, stray, faults>>
      BY <2>4, <3>1, <3>4 DEF LoadMatchesLevel
    <3> QED BY <2>1, <3>2, <3>3, <3>4
  <2>8. stray' \in BOOLEAN /\ runs' \in 0..MaxRuns /\ faults' \in 0..MaxFaults
    BY <1>0, <2>1 DEF TypeOK
  <2> QED BY <1>0, <1>6, <2>1, <2>3, <2>6, <2>7, <2>8
<1>9. CASE StressRunsBatch
  <2>1. spc = "warm" /\ spc' = "run" /\ UNCHANGED <<lvl, load, stray, faults, runs>>
    BY <1>9 DEF StressRunsBatch
  <2>2. Level \in Scenes
    BY <1>0, <2>1, ArgTypes DEF LevelInHand
  <2>3. PICK ms \in ModeSets : BatchStarts(Level, ms, FALSE)
    BY <1>9 DEF StressRunsBatch
  <2>4. LevelInHand' /\ LoadMatchesLevel'
    BY <1>0, <2>1 DEF LevelInHand, LoadMatchesLevel, Level
  <2>5. runs' \in 0..MaxRuns
    BY <1>0, <2>1 DEF TypeOK
  <2>6. BatchStarts(Level, ms, FALSE) /\ ms \in ModeSets /\ FALSE \in BOOLEAN
    BY <2>3
  <2> QED BY <1>7, <2>1, <2>2, <2>4, <2>5, <2>6
<1>10. CASE StressBatchDone
  <2>1. /\ spc = "run" /\ spc' = "cool"
        /\ UNCHANGED <<lvl, load, stray, faults, runs>> /\ UNCHANGED batchVars
    BY <1>10 DEF StressBatchDone
  <2>2. LevelInHand' /\ LoadMatchesLevel'
    BY <1>0, <2>1 DEF LevelInHand, LoadMatchesLevel, Level
  <2>3. runs' \in 0..MaxRuns
    BY <1>0, <2>1 DEF TypeOK
  <2> QED BY <1>0, <1>6, <2>1, <2>2, <2>3
<1>11. CASE StressClean
  <2>1. /\ spc = "cool" /\ spc' = "rest"
        /\ \/ Level # 0 /\ load' = <<>> /\ stray' = FALSE /\ faults' = faults
           \/ Level # 0 /\ stray' = TRUE /\ load' = load /\ faults' \in 0..MaxFaults
           \/ Level = 0 /\ UNCHANGED <<load, stray, faults>>
        /\ UNCHANGED <<lvl, runs>> /\ UNCHANGED batchVars
    BY <1>0, <1>11 DEF StressClean, Fault
  <2>2. Level' = Level /\ load' \in Seq(Nat)
    <3>1. Level' = Level
      BY <2>1 DEF Level
    <3>2. load' = <<>> \/ load' = load
      BY <2>1
    <3>3. load \in Seq(Nat)
      BY <1>0
    <3> QED BY <3>1, <3>2, <3>3, AppendNat
  <2>3. LevelInHand' /\ LoadMatchesLevel'
    BY <1>0, <2>1, <2>2 DEF LevelInHand, LoadMatchesLevel
  <2>4. runs' \in 0..MaxRuns /\ faults' \in 0..MaxFaults /\ stray' \in BOOLEAN
    BY <1>0, <2>1 DEF TypeOK
  <2> QED BY <1>0, <1>6, <2>1, <2>2, <2>3, <2>4
<1>12. CASE StressNext
  <2>1. /\ spc = "rest" /\ spc' = "next" /\ lvl' = lvl + 1
        /\ UNCHANGED <<load, stray, faults, runs>> /\ UNCHANGED batchVars
    BY <1>12 DEF StressNext
  <2>2. lvl' \in 1..(Len(Levels) + 1)
    BY <1>0, <2>1 DEF LevelInHand
  <2>3. LevelInHand' /\ LoadMatchesLevel'
    BY <1>0, <2>1 DEF LevelInHand, LoadMatchesLevel
  <2>4. runs' \in 0..MaxRuns
    BY <1>0, <2>1 DEF TypeOK
  <2> QED BY <1>0, <1>6, <2>1, <2>2, <2>3, <2>4
<1>13. CASE StressEnds
  <2>1. /\ spc = "next" /\ spc' = "off"
        /\ UNCHANGED <<lvl, load, stray, faults, runs>> /\ UNCHANGED batchVars
    BY <1>13 DEF StressEnds
  <2>2. LevelInHand' /\ LoadMatchesLevel'
    BY <1>0, <2>1 DEF LevelInHand, LoadMatchesLevel
  <2>3. runs' \in 0..MaxRuns
    BY <1>0, <2>1 DEF TypeOK
  <2> QED BY <1>0, <1>6, <2>1, <2>2, <2>3
<1>14. CASE StressInterrupted
  <2>1. /\ spc' = "off" /\ stray' = (stray \/ load # <<>>)
        /\ UNCHANGED <<lvl, load, runs>> /\ UNCHANGED batchVars
        /\ faults' \in 0..MaxFaults
    BY <1>0, <1>14 DEF StressInterrupted, Fault
  <2>2. LevelInHand' /\ LoadMatchesLevel'
    BY <1>0, <2>1 DEF LevelInHand, LoadMatchesLevel
  <2>3. runs' \in 0..MaxRuns
    BY <1>0, <2>1 DEF TypeOK
  <2>4. stray' \in BOOLEAN
    BY <2>1
  <2> QED BY <1>0, <1>6, <2>1, <2>2, <2>3, <2>4
<1>15. CASE OperatorStarts
  <2>1. /\ spc = "off" /\ runs' \in 0..MaxRuns /\ faults' = faults
        /\ \/ \E ms \in ModeSets, g \in BOOLEAN :
                 BatchStarts(Hand, ms, g) /\ UNCHANGED stressVars
           \/ spc' = "next" /\ lvl' = 1 /\ UNCHANGED <<load, stray, batchVars>>
    BY <1>0, <1>15 DEF OperatorStarts, Busy, TypeOK
  <2>2. ASSUME NEW ms \in ModeSets, NEW g \in BOOLEAN,
               BatchStarts(Hand, ms, g), UNCHANGED stressVars
        PROVE  IInv'
    <3>1. UNCHANGED <<spc, lvl, load, stray>> /\ Hand \in Scenes
      BY <1>0, <2>2, ArgTypes DEF stressVars
    <3>2. LevelInHand' /\ LoadMatchesLevel'
      BY <1>0, <3>1 DEF LevelInHand, LoadMatchesLevel, Level
    <3> QED BY <1>7, <2>1, <2>2, <3>1, <3>2
  <2>3. CASE spc' = "next" /\ lvl' = 1 /\ UNCHANGED <<load, stray, batchVars>>
    <3>1. LevelInHand' /\ LoadMatchesLevel'
      BY <1>0, <2>1, <2>3 DEF LevelInHand, LoadMatchesLevel
    <3>2. 1 \in 1..(Len(Levels) + 1)
      BY <1>0
    <3> QED BY <1>0, <1>6, <2>1, <2>3, <3>1, <3>2
  <2> QED BY <2>1, <2>2, <2>3
<1> QED
  BY <1>8, <1>9, <1>10, <1>11, <1>12, <1>13, <1>14, <1>15 DEF StressStep

-----------------------------------------------------------------------------
LEMMA InitIInv == Init => IInv
<1> SUFFICES ASSUME Init PROVE IInv
  OBVIOUS
<1> USE DEF Init, ExpInit
<1>1. ExpTypeOK
  <2>1. 0 \in 0..MaxFaults /\ 1 \in 1..(Count + 1)
    BY BoundsNat
  <2> QED BY <2>1 DEF ExpTypeOK
<1>2. TypeOK
  <2>1. lvl \in 1..(Len(Levels) + 1) /\ runs \in 0..MaxRuns
    BY BoundsNat, CampaignAssumption
  <2>2. stray \in BOOLEAN /\ given \in BOOLEAN
    BY Zenon
  <2>3. load \in Seq(Nat) /\ scene \in Scenes
    BY DEF Scenes
  <2> QED BY <1>1, <2>1, <2>2, <2>3 DEF TypeOK
<1>3. ExpInv
  BY DEF ExpInv, Position, Fresh, FilesSoFar, DumpsSoFar, InRun, InMeasure,
     InCapture
<1>4. ForBatch /\ StagesBehind /\ SetupOfStage /\ VerdictAtEnd
  BY DEF ForBatch, StagesBehind, SetupOfStage, VerdictAtEnd
<1>5. LevelInHand /\ LoadMatchesLevel
  BY DEF LevelInHand, LoadMatchesLevel
<1> QED BY <1>2, <1>3, <1>4, <1>5 DEF IInv

LEMMA SameKeeps ==
    ASSUME IInv, UNCHANGED vars
    PROVE  IInv'
<1>1. /\ UNCHANGED expVars
      /\ UNCHANGED <<spc, lvl, load, stray, bpc, scene, modes, given, verdict,
                     setup, runs, faults>>
  BY DEF vars, stressVars, batchVars, argVars
<1>2. ExpInv'
  BY <1>1, SameExp DEF IInv, TypeOK
<1>3. ExpTypeOK'
  BY <1>1 DEF IInv, TypeOK, ExpTypeOK, expVars, diskVars, dumpVars
<1>4. UNCHANGED <<kind, pc, dir, status, file, dump>>
  BY <1>1 DEF expVars, diskVars, dumpVars
<1>5. TypeOK'
  BY <1>1, <1>3 DEF IInv, TypeOK
<1>6. ForBatch' /\ StagesBehind' /\ SetupOfStage' /\ VerdictAtEnd'
  BY <1>1, <1>4, CompleteSame
     DEF IInv, ForBatch, StagesBehind, SetupOfStage, VerdictAtEnd
<1>7. LevelInHand' /\ LoadMatchesLevel'
  BY <1>1 DEF IInv, LevelInHand, LoadMatchesLevel, Level
<1> QED BY <1>2, <1>5, <1>6, <1>7 DEF IInv

LEMMA NextIInv == IInv /\ [Next]_vars => IInv'
<1> SUFFICES ASSUME IInv, [Next]_vars PROVE IInv'
  OBVIOUS
<1>1. CASE InnerStep \/ OuterFault
  BY <1>1, InnerKeeps DEF InnerStep, OuterFault, Inner, OuterSame
<1>2. CASE BatchStep \/ BatchInterrupted
  BY <1>2, BatchKeeps
<1>3. CASE StressStep \/ StressInterrupted \/ OperatorStarts
  BY <1>3, StressKeeps
<1>4. CASE Quiet \/ UNCHANGED vars
  BY <1>4, SameKeeps DEF Quiet
<1> QED BY <1>1, <1>2, <1>3, <1>4 DEF Next

\* The inductive invariant of the measurement scripts.
THEOREM Invariance == Spec => []IInv
  BY InitIInv, NextIInv, PTL DEF Spec

\* Type correctness.
THEOREM TypeCorrect == Spec => []TypeOK
  BY Invariance, PTL DEF IInv

\* Every measurement runs under the set-up of its mode (exp_batch.py:44-95).
THEOREM SetupIsRight == Spec => []SetupMatchesMode
<1>1. IInv => SetupMatchesMode
  <2> SUFFICES ASSUME IInv, pc # "idle" PROVE setup = IF dir[2] = "xdp" THEN "on" ELSE "off"
    BY DEF SetupMatchesMode
  <2>1. bpc \in modes /\ dir = <<scene, bpc>> /\ modes \subseteq Modes
    BY ArgTypes DEF IInv, ForBatch
  <2>2. dir[2] = bpc /\ bpc \in Modes
    BY <2>1
  <2> QED BY <2>2 DEF IInv, SetupOfStage, Modes
<1> QED BY Invariance, <1>1, PTL

\* The load is that of the level, unless something got out of hand
\* (exp_stress_batch.py:55-66).
THEOREM LoadIsRight == Spec => []LoadMatchesLevel
  BY Invariance, PTL DEF IInv

\* Results are recorded in order and without gaps (exp_client_to_server2.py:63-71).
THEOREM RecordsPrefix == Spec => []PrefixRecorded
<1>1. IInv => PrefixRecorded
  <2> SUFFICES ASSUME IInv, NEW e \in Exps, file[e] # "none"
               PROVE  /\ e[1] \in made
                      /\ \A i \in 1..(e[2] - 1) : Done(<<e[1], i>>)
    BY DEF PrefixRecorded
  <2>1. e[1] \in made
    BY DEF IInv, ExpInv, Fresh
  <2>2. ASSUME NEW i \in 1..(e[2] - 1) PROVE Done(<<e[1], i>>)
    <3> DEFINE f == <<e[1], i>>
    <3>1. e[1] \in Dirs /\ e[2] \in 1..Count /\ Count \in Nat
      BY BoundsNat DEF Exps
    <3>2. f \in Exps /\ f[1] = e[1] /\ f[2] < e[2]
      BY <3>1, <2>2 DEF Exps
    <3> HIDE DEF f
    <3>3. Done(f)
      BY <3>2 DEF IInv, ExpInv, FilesSoFar
    <3> QED BY <3>3 DEF f
  <2> QED BY <2>1, <2>2
<1> QED BY Invariance, <1>1, PTL

\* A batch that reports success has its measurements (exp_batch.py:50-64).
THEOREM OkMeansComplete == Spec => []BatchOkIsComplete
<1>1. IInv => BatchOkIsComplete
  <2> SUFFICES ASSUME IInv, verdict = "ok", NEW m \in modes \ {"xdp"}, NEW i \in 1..Count
               PROVE  IF kind = "measure" THEN Done(<<<<scene, m>>, i>>)
                      ELSE dump[<<<<scene, m>>, i>>] \notin {"none", "on"}
    BY DEF BatchOkIsComplete
  <2> DEFINE e == <<<<scene, m>>, i>>
  <2>1. scene \in Scenes /\ m \in Modes
    BY ArgTypes DEF IInv, TypeOK
  <2>2. <<scene, m>> \in Dirs
    BY <2>1, ArgTypes DEF IInv
  <2>3. e \in Exps /\ e[1] = <<scene, m>>
    BY <2>2 DEF Exps
  <2>4. Complete(<<scene, m>>)
    BY DEF IInv, StagesBehind
  <2> HIDE DEF e
  <2>5. IF kind = "measure" THEN Done(e) ELSE dump[e] \notin {"none", "on"}
    BY <2>3, <2>4 DEF Complete
  <2> QED BY <2>5 DEF e
<1> QED BY Invariance, <1>1, PTL

\* Captures bracket their clients and none is left but by an interrupt
\* (exp_client_to_server.py:86-98).
THEOREM CapturesBracket == Spec => []CaptureBrackets
<1>1. IInv => CaptureBrackets
  <2> SUFFICES ASSUME IInv PROVE CaptureBrackets
    OBVIOUS
  <2>1. pc = "wait" => dump[Current] \in {"on", "dead"}
    <3> SUFFICES ASSUME pc = "wait" PROVE dump[Current] \in {"on", "dead"}
      OBVIOUS
    <3>1. Current \in Exps /\ kind = "capture"
      BY CurrentExists DEF IInv, TypeOK, ExpInv, Position, InCapture
    <3>2. Current[1] = dir /\ Current[2] = n
      BY DEF Current
    <3> QED BY <3>1, <3>2 DEF IInv, ExpInv, DumpsSoFar, InRun, InCapture
  <2>2. \A e \in Exps : dump[e] = "on" => e \in lost \/ (e = Current /\ pc \in InCapture)
    BY DEF IInv, ExpInv, DumpsSoFar
  <2> QED BY <2>1, <2>2 DEF CaptureBrackets, InCapture
<1> QED BY Invariance, <1>1, PTL

\* A result on disk stays what it is (exp_client_to_server2.py:46-71).
THEOREM ResultsStay == Spec => NeverOverwritten
<1> DEFINE Kept == \A e \in Exps : file[e] # "none" /\ file'[e] # file[e]
                                     => pc = "write" /\ e = Current
<1>1. IInv /\ [Next]_vars => [Kept]_vars
  <2> SUFFICES ASSUME IInv, [Next]_vars PROVE Kept \/ UNCHANGED vars
    OBVIOUS
  <2>0. /\ file \in [Exps -> {"none", "empty", "row", "error"}]
        /\ FilesSoFar /\ Position
    BY DEF IInv, TypeOK, ExpTypeOK, ExpInv
  <2>1. ASSUME UNCHANGED file PROVE Kept
    BY <2>1
  <2>2. CASE OpenFile
    <3>1. pc = "open" /\ kind = "measure" /\ file' = [file EXCEPT ![Current] = "empty"]
      BY <2>0, <2>2 DEF OpenFile, Goto, Position, InMeasure
    <3>2. \A e \in Exps : e = Current => file[e] = "none"
      BY <2>0, <3>1, CurrentIs DEF FilesSoFar, InRun, InMeasure
    <3> QED BY <2>0, <3>1, <3>2
  <2>3. ASSUME pc = "write", file' = [file EXCEPT ![Current] = client] PROVE Kept
    BY <2>0, <2>3
  <2>4. CASE WriteFile
    BY <2>3, <2>4 DEF WriteFile, Goto
  <2>5. CASE InterruptPlain
    BY <2>1, <2>3, <2>5 DEF InterruptPlain
  <2>6. ASSUME Inner, ~OpenFile, ~WriteFile, ~InterruptPlain PROVE UNCHANGED file
    BY <2>6 DEF Inner, ExpStep, ExpFault, MakeDir, LoopEnds, PopenClient, ReadLine,
       StartDump, EnterTry, RunClient, ClientReturns, EnterFinally, KillDump,
       ClientEnds, MakeDirFails, FileFails, InterruptClient, InterruptRead,
       InterruptLosing, InterruptInTry, KillDumpFails, DumpDies, DumpEnds,
       diskVars
  <2>7. CASE InnerStep \/ OuterFault
    BY <2>1, <2>2, <2>4, <2>5, <2>6, <2>7 DEF InnerStep, OuterFault, Inner
  <2>8. ASSUME BatchStep \/ BatchInterrupted PROVE UNCHANGED file
    BY <2>8 DEF BatchStep, BatchClear, BatchSkip, BatchRunExp, StartExp,
       BatchExpDone, BatchSet, BatchUnset, BatchInterrupted, expVars, diskVars
  <2>9. ASSUME StressStep \/ StressInterrupted \/ OperatorStarts PROVE UNCHANGED file
    BY <2>9 DEF StressStep, StressLoad, StressRunsBatch, StressBatchDone,
       StressClean, StressNext, StressEnds, StressInterrupted, OperatorStarts,
       expVars, diskVars
  <2> QED BY <2>1, <2>7, <2>8, <2>9 DEF Next, Quiet
<1>2. QED
  BY Invariance, <1>1, PTL DEF Spec, NeverOverwritten
-----------------------------------------------------------------------------
(***************************************************************************)
(* The end of a campaign.                                                  *)
(***************************************************************************)

\* The experiment script, the batch, the stress script can go on.
ExpCan ==
    \/ pc \in {"check", "next", "open", "write", "settle", "try", "linger",
               "except", "finally", "unwind"}
    \/ pc \in {"read", "wait"} /\ client \in Finished
BatchCan ==
    /\ pc = "idle"
    /\ \/ bpc \in {"clear", "tcp", "normal", "set", "unset"}
       \/ bpc = "xdp" /\ (status # "none" \/ bpc \in modes)
StressCan ==
    \/ spc \in {"next", "cool", "rest"}
    \/ bpc = "off" /\ spc \in {"warm", "run"}

\* Wherever scripts stop in one another, the innermost goes on or waits for a
\* client that runs (the stress script has modes to call a batch with).
NoDeadlock ==
    ModeSets \ {{}} # {} /\ Busy =>
        \/ ExpCan \/ BatchCan \/ StressCan
        \/ pc \in {"read", "wait"} /\ client = "running"

\* A client that is waited for was started.
ClientKnown == pc \in {"read", "wait"} => client # "none"

\* The stage with the set-up is only reached when it was asked for.
XdpAsked == bpc = "xdp" => "xdp" \in modes

LEMMA ClientKnownStep ==
    ASSUME ClientKnown, [Next]_vars
    PROVE  ClientKnown'
<1> USE DEF ClientKnown, Goto, Ends, Finished
<1>1. ASSUME Inner PROVE ClientKnown'
  <2>1. CASE PopenClient \/ RunClient \/ ClientEnds \/ InterruptClient
    BY <2>1 DEF PopenClient, RunClient, ClientEnds, InterruptClient
  <2>2. CASE MakeDir \/ LoopEnds \/ ReadLine \/ OpenFile \/ WriteFile \/ StartDump
             \/ EnterTry \/ ClientReturns \/ EnterFinally \/ KillDump
    BY <2>2 DEF MakeDir, LoopEnds, ReadLine, OpenFile, WriteFile, StartDump,
       EnterTry, ClientReturns, EnterFinally, KillDump
  <2>3. CASE MakeDirFails \/ FileFails \/ InterruptRead \/ InterruptPlain
             \/ InterruptLosing \/ InterruptInTry \/ KillDumpFails
    BY <2>3 DEF MakeDirFails, FileFails, InterruptRead, InterruptPlain,
       InterruptLosing, InterruptInTry, KillDumpFails
  <2>4. ASSUME NEW e \in Exps, DumpDies(e) \/ DumpEnds(e) PROVE ClientKnown'
    BY <2>4 DEF DumpDies, DumpEnds
  <2> QED BY <1>1, <2>1, <2>2, <2>3, <2>4 DEF Inner, ExpStep, ExpFault
<1>2. ASSUME pc' = pc, client' = client PROVE ClientKnown'
  BY <1>2
<1>3. CASE BatchStep \/ BatchInterrupted
  BY <1>3 DEF BatchStep, BatchClear, BatchSkip, BatchRunExp, StartExp,
     BatchExpDone, BatchSet, BatchUnset, BatchInterrupted, expVars
<1>4. CASE StressStep \/ StressInterrupted \/ OperatorStarts
  BY <1>4 DEF StressStep, StressLoad, StressRunsBatch, StressBatchDone,
     StressClean, StressNext, StressEnds, StressInterrupted, OperatorStarts, expVars
<1>5. CASE Quiet \/ UNCHANGED vars
  BY <1>2, <1>5 DEF Quiet, vars, expVars
<1> QED BY <1>1, <1>3, <1>4, <1>5 DEF Next, InnerStep, OuterFault, Inner

LEMMA XdpAskedStep ==
    ASSUME XdpAsked, [Next]_vars
    PROVE  XdpAsked'
<1> USE DEF XdpAsked, argVars, batchVars
<1>1. ASSUME bpc' = bpc, modes' = modes PROVE XdpAsked'
  BY <1>1
<1>2. CASE InnerStep \/ OuterFault \/ Quiet \/ UNCHANGED vars
  BY <1>1, <1>2 DEF InnerStep, OuterFault, Quiet, vars
<1>3. CASE BatchStep \/ BatchInterrupted
  BY <1>3 DEF BatchStep, BatchClear, BatchSkip, BatchRunExp, BatchExpDone,
     BatchSet, BatchUnset, BatchInterrupted, BatchGoto, BatchEnds
<1>4. CASE StressStep \/ StressInterrupted \/ OperatorStarts
  BY <1>4 DEF StressStep, StressLoad, StressRunsBatch, StressBatchDone,
     StressClean, StressNext, StressEnds, StressInterrupted, OperatorStarts,
     BatchStarts
<1> QED BY <1>2, <1>3, <1>4 DEF Next

\* No script waits for anything but a client (exp_stress_batch.py:55-66,
\* exp_batch.py:44-95, exp_client_to_server2.py:63-71).
THEOREM DeadlockFree == Spec => []NoDeadlock
<1>1. Init => ClientKnown /\ XdpAsked
  BY DEF Init, ExpInit, ClientKnown, XdpAsked
<1>2. ClientKnown /\ XdpAsked /\ [Next]_vars => ClientKnown' /\ XdpAsked'
  BY ClientKnownStep, XdpAskedStep
<1>3. ASSUME IInv, ClientKnown, XdpAsked PROVE NoDeadlock
  <2> SUFFICES ASSUME Busy
               PROVE  \/ ExpCan \/ BatchCan \/ StressCan
                      \/ pc \in {"read", "wait"} /\ client = "running"
    BY DEF NoDeadlock
  <2>1. CASE pc # "idle"
    BY <1>3, <2>1 DEF IInv, TypeOK, ExpTypeOK, ClientKnown, ExpCan
  <2>2. CASE pc = "idle" /\ bpc # "off"
    BY <1>3, <2>2 DEF IInv, TypeOK, XdpAsked, BatchCan
  <2>3. CASE bpc = "off"
    BY <1>3, <2>3 DEF IInv, TypeOK, Busy, StressCan
  <2> QED BY <2>1, <2>2, <2>3
<1> QED BY <1>1, <1>2, <1>3, Invariance, PTL DEF Spec

\* What is still to be done: scripts the operator may start, loads, stages of
\* the stress script, of the batch, of the experiment script as a whole,
\* experiments, stages of one, a client that runs.
ScriptsLeft == MaxRuns - runs
LoadsLeft == IF spc = "off" THEN 0 ELSE Len(Levels) + 2 - lvl
StressStage == CASE spc = "next" -> 5 [] spc = "warm" -> 4 [] spc = "run" -> 3
                 [] spc = "cool" -> 2 [] spc = "rest" -> 1 [] OTHER -> 0
BatchStage == CASE bpc = "clear" -> 6 [] bpc = "tcp" -> 5 [] bpc = "normal" -> 4
                [] bpc = "set" -> 3 [] bpc = "xdp" -> 2 [] bpc = "unset" -> 1
                [] OTHER -> 0
RunStage == CASE pc = "idle" /\ status = "none" -> 3
              [] pc = "idle" /\ status # "none" -> 0
              [] pc = "check" -> 2 [] OTHER -> 1
ExpsLeft == IF pc \in {"idle", "check"} THEN 0 ELSE Count + 1 - n
ExpStage == CASE pc = "next" -> 7 [] pc \in {"read", "settle"} -> 6
              [] pc \in {"open", "try"} -> 5 [] pc \in {"write", "wait"} -> 4
              [] pc \in {"linger", "except"} -> 3 [] pc = "finally" -> 2
              [] pc = "unwind" -> 1 [] OTHER -> 0
ClientLeft == IF client = "running" THEN 1 ELSE 0
Remaining == << ScriptsLeft, LoadsLeft, StressStage, BatchStage,
                RunStage, ExpsLeft, ExpStage, ClientLeft >>

\* Less to do: in lexicographic order.
Precedes(r, s) == \E j \in 1..8 : r[j] < s[j] /\ \A m \in 1..(j - 1) : r[m] = s[m]

\* No script is set back, nor sets back the one that called it: no experiment,
\* stage or load is gone through twice, whatever fails or is interrupted.
OnlyForward ==
    [][\/ Precedes(Remaining', Remaining)
       \/ UNCHANGED <<spc, lvl, bpc, pc, n, status, client, runs>>]_vars
CanCount == Remaining \in Nat \X Nat \X Nat \X Nat \X Nat \X Nat \X Nat \X Nat

LEMMA Counts ==
    ASSUME TypeOK
    PROVE  CanCount
<1>1. /\ runs \in 0..MaxRuns /\ MaxRuns \in Nat /\ n \in 1..(Count + 1) /\ Count \in Nat
      /\ lvl \in 1..(Len(Levels) + 1) /\ Len(Levels) \in Nat
  BY BoundsNat, CampaignAssumption DEF TypeOK, ExpTypeOK
<1>2. ScriptsLeft \in Nat /\ LoadsLeft \in Nat /\ ExpsLeft \in Nat
  BY <1>1 DEF ScriptsLeft, LoadsLeft, ExpsLeft
<1>3. StressStage \in Nat /\ BatchStage \in Nat /\ ExpStage \in Nat /\ ClientLeft \in Nat
  BY DEF StressStage, BatchStage, ExpStage, ClientLeft
<1>4. RunStage \in Nat
  BY DEF RunStage
<1> QED BY <1>2, <1>3, <1>4 DEF CanCount, Remaining

\* The first difference decides.
LEMMA FirstDifference ==
    ASSUME \/ ScriptsLeft' < ScriptsLeft
           \/ /\ ScriptsLeft' = ScriptsLeft
              /\ \/ LoadsLeft' < LoadsLeft
                 \/ /\ LoadsLeft' = LoadsLeft
                    /\ \/ StressStage' < StressStage
                       \/ StressStage' = StressStage /\ BatchStage' < BatchStage
    PROVE  Precedes(Remaining', Remaining)
<1>1. /\ Remaining[1] = ScriptsLeft /\ Remaining[2] = LoadsLeft
      /\ Remaining[3] = StressStage /\ Remaining[4] = BatchStage
      /\ Remaining'[1] = ScriptsLeft' /\ Remaining'[2] = LoadsLeft'
      /\ Remaining'[3] = StressStage' /\ Remaining'[4] = BatchStage'
  BY DEF Remaining
<1> SUFFICES \E j \in 1..8 : /\ Remaining'[j] < Remaining[j]
                             /\ \A m \in 1..(j - 1) : Remaining'[m] = Remaining[m]
  BY DEF Precedes
<1>2. /\ \A m \in 1..(1 - 1) : FALSE
      /\ \A m \in 1..(2 - 1) : m = 1
      /\ \A m \in 1..(3 - 1) : m = 1 \/ m = 2
      /\ \A m \in 1..(4 - 1) : m = 1 \/ m = 2 \/ m = 3
  OBVIOUS
<1> HIDE DEF Remaining
<1>3. CASE ScriptsLeft' < ScriptsLeft
  BY <1>1, <1>2, <1>3
<1>4. CASE ScriptsLeft' = ScriptsLeft /\ LoadsLeft' < LoadsLeft
  BY <1>1, <1>2, <1>4
<1>5. CASE ScriptsLeft' = ScriptsLeft /\ LoadsLeft' = LoadsLeft
           /\ StressStage' < StressStage
  BY <1>1, <1>2, <1>5
<1>6. CASE ScriptsLeft' = ScriptsLeft /\ LoadsLeft' = LoadsLeft
           /\ StressStage' = StressStage /\ BatchStage' < BatchStage
  BY <1>1, <1>2, <1>6
<1> QED BY <1>3, <1>4, <1>5, <1>6

LEMMA FirstDifferenceBelow ==
    ASSUME UNCHANGED <<ScriptsLeft, LoadsLeft, StressStage, BatchStage>>,
           \/ RunStage' < RunStage
           \/ /\ RunStage' = RunStage
              /\ \/ ExpsLeft' < ExpsLeft
                 \/ /\ ExpsLeft' = ExpsLeft
                    /\ \/ ExpStage' < ExpStage
                       \/ ExpStage' = ExpStage /\ ClientLeft' < ClientLeft
    PROVE  Precedes(Remaining', Remaining)
<1>1. /\ Remaining[1] = ScriptsLeft /\ Remaining[2] = LoadsLeft
      /\ Remaining[3] = StressStage /\ Remaining[4] = BatchStage
      /\ Remaining'[1] = ScriptsLeft' /\ Remaining'[2] = LoadsLeft'
      /\ Remaining'[3] = StressStage' /\ Remaining'[4] = BatchStage'
      /\ Remaining[5] = RunStage /\ Remaining[6] = ExpsLeft
      /\ Remaining[7] = ExpStage /\ Remaining[8] = ClientLeft
      /\ Remaining'[5] = RunStage' /\ Remaining'[6] = ExpsLeft'
      /\ Remaining'[7] = ExpStage' /\ Remaining'[8] = ClientLeft'
  BY DEF Remaining
<1> SUFFICES \E j \in 1..8 : /\ Remaining'[j] < Remaining[j]
                             /\ \A m \in 1..(j - 1) : Remaining'[m] = Remaining[m]
  BY DEF Precedes
<1>2. /\ \A m \in 1..(5 - 1) : m \in {1, 2, 3, 4}
      /\ \A m \in 1..(6 - 1) : m \in {1, 2, 3, 4, 5}
      /\ \A m \in 1..(7 - 1) : m \in {1, 2, 3, 4, 5, 6}
      /\ \A m \in 1..(8 - 1) : m \in {1, 2, 3, 4, 5, 6, 7}
  OBVIOUS
<1>3. \A m \in {1, 2, 3, 4} : Remaining'[m] = Remaining[m]
  BY <1>1
<1> HIDE DEF Remaining
<1>4. CASE RunStage' < RunStage
  BY <1>1, <1>2, <1>3, <1>4
<1>5. CASE RunStage' = RunStage /\ ExpsLeft' < ExpsLeft
  BY <1>1, <1>2, <1>3, <1>5
<1>6. CASE RunStage' = RunStage /\ ExpsLeft' = ExpsLeft /\ ExpStage' < ExpStage
  BY <1>1, <1>2, <1>3, <1>6
<1>7. CASE RunStage' = RunStage /\ ExpsLeft' = ExpsLeft /\ ExpStage' = ExpStage
           /\ ClientLeft' < ClientLeft
  BY <1>1, <1>2, <1>3, <1>7
<1> QED BY <1>4, <1>5, <1>6, <1>7

\* A step of the experiment script, of its client or of a capture, faults and
\* interrupts included.
LEMMA InnerForward ==
    ASSUME ExpTypeOK, Inner
    PROVE  \/ RunStage' < RunStage
           \/ /\ RunStage' = RunStage
              /\ \/ ExpsLeft' < ExpsLeft
                 \/ /\ ExpsLeft' = ExpsLeft
                    /\ \/ ExpStage' < ExpStage
                       \/ ExpStage' = ExpStage /\ ClientLeft' < ClientLeft
           \/ UNCHANGED <<pc, n, status, client>>
<1> DEFINE Less == \/ RunStage' < RunStage
                   \/ /\ RunStage' = RunStage
                      /\ \/ ExpsLeft' < ExpsLeft
                         \/ /\ ExpsLeft' = ExpsLeft
                            /\ \/ ExpStage' < ExpStage
                               \/ ExpStage' = ExpStage /\ ClientLeft' < ClientLeft
           Same == UNCHANGED <<pc, n, status, client>>
<1>0. n \in Nat /\ Count \in Nat
  BY BoundsNat DEF ExpTypeOK
<1> USE DEF Goto, Ends, Finished
<1>1. ASSUME pc # "idle", pc' = "idle", status' # "none" PROVE Less
  <2>1. RunStage' = 0 /\ RunStage \in {1, 2}
    BY <1>1 DEF RunStage
  <2> QED BY <2>1
<1>2. ASSUME pc \notin {"idle", "check"}, pc' = "next", n' = n + 1 PROVE Less
  <2>1. RunStage' = 1 /\ RunStage = 1
    BY <1>2 DEF RunStage
  <2>2. ExpsLeft' < ExpsLeft
    BY <1>0, <1>2 DEF ExpsLeft
  <2> QED BY <2>1, <2>2
<1>3. ASSUME pc \notin {"idle", "check"}, pc' \notin {"idle", "check"}, n' = n,
             ExpStage' < ExpStage
      PROVE  Less
  <2>1. RunStage' = 1 /\ RunStage = 1
    BY <1>3 DEF RunStage
  <2>2. ExpsLeft' = ExpsLeft
    BY <1>3 DEF ExpsLeft
  <2> QED BY <1>3, <2>1, <2>2
<1>4. ASSUME UNCHANGED <<pc, n, status>>, client = "running", client' # "running"
      PROVE  Less
  <2>1. RunStage' = RunStage /\ ExpsLeft' = ExpsLeft /\ ExpStage' = ExpStage
    BY <1>4 DEF RunStage, ExpsLeft, ExpStage
  <2>2. ClientLeft' < ClientLeft
    BY <1>4 DEF ClientLeft
  <2> QED BY <2>1, <2>2
\* the end of the script
<1>5. CASE LoopEnds \/ MakeDirFails \/ FileFails \/ InterruptRead
           \/ InterruptPlain \/ InterruptLosing \/ KillDumpFails
  BY <1>1, <1>5 DEF LoopEnds, MakeDirFails, FileFails, InterruptRead,
     InterruptPlain, InterruptLosing, KillDumpFails
<1>6. CASE MakeDir
  <2>1. CASE dir \in made
    BY <1>1, <1>6, <2>1 DEF MakeDir
  <2>2. CASE dir \notin made
    <3>1. pc = "check" /\ pc' = "next"
      BY <1>6, <2>2 DEF MakeDir
    <3>2. RunStage = 2 /\ RunStage' = 1
      BY <3>1 DEF RunStage
    <3> QED BY <3>2
  <2> QED BY <2>1, <2>2
\* the end of an experiment
<1>7. CASE WriteFile
  BY <1>2, <1>7 DEF WriteFile
<1>8. CASE KillDump
  BY <1>1, <1>2, <1>8 DEF KillDump
\* on the way
<1>9. CASE ReadLine
  <2>1. CASE client # "silent"
    <3>1. pc = "read" /\ pc' = "open" /\ n' = n
      BY <1>9, <2>1 DEF ReadLine
    <3>2. ExpStage' < ExpStage
      BY <3>1 DEF ExpStage
    <3> QED BY <1>3, <3>1, <3>2
  <2>2. CASE client = "silent"
    BY <1>1, <1>9, <2>2 DEF ReadLine
  <2> QED BY <2>1, <2>2
<1>10. CASE PopenClient \/ OpenFile \/ StartDump \/ EnterTry \/ RunClient
            \/ ClientReturns \/ EnterFinally \/ InterruptInTry
  <2>1. /\ n' = n
        /\ \/ pc = "next" /\ pc' \in {"read", "settle"}
           \/ pc = "open" /\ pc' = "write"
           \/ pc = "settle" /\ pc' = "try"
           \/ pc = "try" /\ pc' \in {"wait", "unwind"}
           \/ pc = "wait" /\ pc' \in {"linger", "except"}
           \/ pc \in {"linger", "except"} /\ pc' \in {"finally", "unwind"}
    BY <1>10 DEF PopenClient, OpenFile, StartDump, EnterTry, RunClient,
       ClientReturns, EnterFinally, InterruptInTry
  <2>2. ExpStage' < ExpStage
    BY <2>1 DEF ExpStage
  <2> QED BY <1>3, <2>1, <2>2
<1>11. CASE ClientEnds \/ InterruptClient
  BY <1>4, <1>11 DEF ClientEnds, InterruptClient
<1>12. ASSUME NEW e \in Exps, DumpDies(e) \/ DumpEnds(e) PROVE Same
  BY <1>12 DEF DumpDies, DumpEnds
<1> QED
  BY <1>5, <1>6, <1>7, <1>8, <1>9, <1>10, <1>11, <1>12
     DEF Inner, ExpStep, ExpFault

\* A step of the batch goes to a later stage, or starts an experiment script.
LEMMA BatchForward ==
    ASSUME TypeOK, BatchStep \/ BatchInterrupted
    PROVE  /\ UNCHANGED <<spc, lvl, runs>>
           /\ \/ BatchStage' < BatchStage
              \/ UNCHANGED bpc /\ RunStage' < RunStage
<1>1. UNCHANGED <<spc, lvl, runs>>
  BY DEF BatchStep, BatchClear, BatchSkip, BatchRunExp, BatchExpDone, BatchSet,
     BatchUnset, BatchInterrupted, stressVars
<1>2. CASE BatchRunExp
  <2>1. pc = "idle" /\ status = "none" /\ pc' = "check" /\ bpc' = bpc
    BY <1>2 DEF BatchRunExp, StartExp, batchVars
  <2>2. RunStage = 3 /\ RunStage' = 2
    BY <2>1 DEF RunStage
  <2> QED BY <1>1, <2>1, <2>2
<1>3. ASSUME \/ bpc = "clear" /\ bpc' \in {"tcp", "off"}
             \/ bpc = "tcp" /\ bpc' \in {"normal", "off"}
             \/ bpc = "normal" /\ bpc' \in {"set", "off"}
             \/ bpc = "set" /\ bpc' \in {"xdp", "unset", "off"}
             \/ bpc = "xdp" /\ bpc' \in {"unset", "off"}
             \/ bpc = "unset" /\ bpc' = "off"
      PROVE  BatchStage' < BatchStage
  BY <1>3 DEF BatchStage
<1> USE DEF BatchGoto, BatchEnds
<1>4. CASE BatchClear \/ BatchSkip \/ BatchSet \/ BatchUnset
  BY <1>1, <1>3, <1>4 DEF BatchClear, BatchSkip, BatchSet, BatchUnset
<1>5. CASE BatchExpDone
  BY <1>1, <1>3, <1>5 DEF BatchExpDone
<1>6. CASE BatchInterrupted
  BY <1>1, <1>3, <1>6 DEF BatchInterrupted, TypeOK
<1> QED BY <1>2, <1>4, <1>5, <1>6 DEF BatchStep

\* A step of the stress script, or the start of a script by the operator.
LEMMA StressForward ==
    ASSUME TypeOK, StressStep \/ StressInterrupted \/ OperatorStarts
    PROVE  Precedes(Remaining', Remaining)
<1>1. /\ runs \in Nat /\ MaxRuns \in Nat
      /\ lvl \in 1..(Len(Levels) + 1) /\ Len(Levels) \in Nat
  BY BoundsNat, CampaignAssumption DEF TypeOK
<1> USE DEF StressGoto
<1>2. ASSUME UNCHANGED <<lvl, runs>>,
             \/ spc = "next" /\ spc' = "warm"
             \/ spc = "warm" /\ spc' = "run"
             \/ spc = "run" /\ spc' = "cool"
             \/ spc = "cool" /\ spc' = "rest"
      PROVE  Precedes(Remaining', Remaining)
  <2>1. ScriptsLeft' = ScriptsLeft /\ LoadsLeft' = LoadsLeft
    BY <1>2 DEF ScriptsLeft, LoadsLeft
  <2>2. StressStage' < StressStage
    BY <1>2 DEF StressStage
  <2> QED BY <2>1, <2>2, FirstDifference
<1>3. ASSUME UNCHANGED <<lvl, runs>>, spc # "off", spc' = "off"
      PROVE  Precedes(Remaining', Remaining)
  <2>1. ScriptsLeft' = ScriptsLeft /\ LoadsLeft' < LoadsLeft
    BY <1>1, <1>3 DEF ScriptsLeft, LoadsLeft
  <2> QED BY <2>1, FirstDifference
<1>4. CASE StressLoad \/ StressRunsBatch \/ StressBatchDone \/ StressClean
  BY <1>2, <1>4 DEF StressLoad, StressRunsBatch, StressBatchDone, StressClean
<1>5. CASE StressNext
  <2>1. spc = "rest" /\ spc' = "next" /\ lvl' = lvl + 1 /\ runs' = runs
    BY <1>5 DEF StressNext
  <2>2. ScriptsLeft' = ScriptsLeft /\ LoadsLeft' < LoadsLeft
    BY <1>1, <2>1 DEF ScriptsLeft, LoadsLeft
  <2> QED BY <2>2, FirstDifference
<1>6. CASE StressEnds \/ StressInterrupted
  BY <1>3, <1>6 DEF StressEnds, StressInterrupted
<1>7. CASE OperatorStarts
  <2>1. ScriptsLeft' < ScriptsLeft
    BY <1>1, <1>7 DEF OperatorStarts, ScriptsLeft
  <2> QED BY <2>1, FirstDifference
<1> QED BY <1>4, <1>5, <1>6, <1>7 DEF StressStep

\* The order on Remaining is one on natural numbers in every reachable state.
THEOREM RemainingCounts == Spec => []CanCount
  BY TypeCorrect, Counts, PTL

\* Every step of a script, every failure and every interrupt leaves less to do
\* (exp_stress_batch.py:44-68, exp_batch.py:44-95, the loops over exps).
THEOREM NeverSetBack == Spec => OnlyForward
<1> DEFINE Same == UNCHANGED <<spc, lvl, bpc, pc, n, status, client, runs>>
<1>1. TypeOK /\ [Next]_vars => [Precedes(Remaining', Remaining) \/ Same]_vars
  <2> SUFFICES ASSUME TypeOK, [Next]_vars PROVE Precedes(Remaining', Remaining) \/ Same
    OBVIOUS
  <2>1. CASE InnerStep \/ OuterFault
    <3>1. Inner /\ UNCHANGED <<spc, lvl, bpc, runs>>
      BY <2>1 DEF InnerStep, OuterFault, Inner, stressVars, batchVars
    <3>2. UNCHANGED <<ScriptsLeft, LoadsLeft, StressStage, BatchStage>>
      BY <3>1 DEF ScriptsLeft, LoadsLeft, StressStage, BatchStage
    <3>3. CASE UNCHANGED <<pc, n, status, client>>
      BY <3>1, <3>3
    <3>4. CASE ~UNCHANGED <<pc, n, status, client>>
      BY <3>1, <3>2, <3>4, InnerForward, FirstDifferenceBelow DEF TypeOK
    <3> QED BY <3>3, <3>4
  <2>2. CASE BatchStep \/ BatchInterrupted
    <3>1. UNCHANGED <<spc, lvl, runs>>
      BY <2>2, BatchForward
    <3>2. UNCHANGED <<ScriptsLeft, LoadsLeft, StressStage>>
      BY <3>1 DEF ScriptsLeft, LoadsLeft, StressStage
    <3>3. CASE BatchStage' < BatchStage
      BY <3>2, <3>3, FirstDifference
    <3>4. CASE UNCHANGED bpc /\ RunStage' < RunStage
      <4>1. BatchStage' = BatchStage
        BY <3>4 DEF BatchStage
      <4> QED BY <3>2, <3>4, <4>1, FirstDifferenceBelow
    <3> QED BY <2>2, <3>3, <3>4, BatchForward
  <2>3. CASE StressStep \/ StressInterrupted \/ OperatorStarts
    BY <2>3, StressForward
  <2>4. CASE Quiet \/ UNCHANGED vars
    BY <2>4 DEF Quiet, vars, expVars, stressVars, batchVars
  <2> QED BY <2>1, <2>2, <2>3, <2>4 DEF Next
<1> QED BY <1>1, TypeCorrect, PTL DEF Spec, OnlyForward
==============================================================================
