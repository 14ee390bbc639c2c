------------------------------- MODULE Campaign -------------------------------
(***************************************************************************)
(* The scripts that call experiment scripts.  exp_batch.py takes the       *)
(* experiment set-up out of the kernel, measures TCP and MPTCP without it, *)
(* puts it in and measures again.  exp_stress_batch.py runs one batch per  *)
(* CPU load.  Every call is os.system(): the caller waits, and is deaf to  *)
(* SIGINT meanwhile, so a Ctrl-C concerns the innermost script only.  An   *)
(* operator starts either of the two, and again when it has ended.         *)
(***************************************************************************)
EXTENDS ExpRun

CONSTANTS
    Levels,     \* stress_batch: a sequence of loads, 0 for none
    Hand,       \* scene name of a batch started by hand
    ModeSets,   \* sets of mode options to try
    MaxRuns     \* bound on the scripts the operator starts

Modes == {"tcp", "normal", "xdp"}
Scenes == {Levels[i] : i \in 1..Len(Levels)} \cup {Hand}

ASSUME CampaignAssumption ==
    /\ Levels \in Seq(Nat)
    /\ Hand \notin Nat
    /\ Dirs = Scenes \X Modes
    /\ ModeSets \subseteq SUBSET Modes
    /\ MaxRuns \in Nat

VARIABLES
    spc,        \* control point of the stress script, "off" when it is not run
    lvl,        \* index into Levels
    load,       \* loads of the stress processes there are
    stray,      \* the load is not what the stress script thinks (history)
    bpc,        \* control point of the batch script, "off" when it is not run
    scene,      \* its argument scene
    modes,      \* its mode options
    given,      \* was it given the option exp?
    verdict,    \* how the last batch ended
    setup,      \* the experiment set-up in the kernel
    runs        \* scripts the operator has started

stressVars == <<spc, lvl, load, stray>>
argVars    == <<scene, modes, given>>
batchVars  == <<bpc, argVars, verdict, setup>>
vars == <<expVars, stressVars, batchVars, runs, faults>>

TypeOK ==
    /\ ExpTypeOK
    /\ spc \in {"off", "next", "warm", "run", "cool", "rest"}
    /\ lvl \in 1..(Len(Levels) + 1)
    /\ load \in Seq(Nat) /\ stray \in BOOLEAN
    /\ bpc \in {"off", "clear", "tcp", "normal", "set", "xdp", "unset"}
    /\ scene \in Scenes /\ modes \in ModeSets \cup {{}} /\ given \in BOOLEAN
    /\ verdict \in {"none", "ok", "fail"}
    /\ setup \in {"off", "on"}
    /\ runs \in 0..MaxRuns

Init ==
    /\ ExpInit
    /\ spc = "off" /\ lvl = 1 /\ load = <<>> /\ stray = FALSE
    /\ bpc = "off" /\ scene = Hand /\ modes = {} /\ given = FALSE
    /\ verdict = "none" /\ setup \in {"off", "on"} /\ runs = 0

-----------------------------------------------------------------------------
(***************************************************************************)
(* exp_batch.py                                                            *)
(***************************************************************************)
BatchStarts(s, ms, g) ==
    /\ bpc = "off"
    /\ bpc' = "clear" /\ scene' = s /\ modes' = ms /\ given' = g
    /\ verdict' = "none"
    /\ UNCHANGED setup

BatchEnds(v) == bpc' = "off" /\ verdict' = v /\ UNCHANGED argVars

BatchGoto(from, to) == bpc = from /\ bpc' = to /\ UNCHANGED <<argVars, verdict>>

\* `sudo python3 <exp> clear` works; without the option <exp> reads "None".
Clears == given /\ setup' = "off" /\ UNCHANGED faults

\* It does not: no such script, or it fails or is interrupted half-way.
ClearFails ==
    \/ ~given /\ UNCHANGED <<setup, faults>>
    \/ given /\ Fault("script") /\ setup' \in {setup, "off"}

\* Mutated form: the result of the first clear is not looked at.
BatchClearUnchecked ==
    /\ BatchGoto("clear", "tcp")
    /\ Clears \/ ClearFails
    /\ UNCHANGED <<expVars, stressVars, runs>>

\* The first clear must succeed.
BatchClear ==
    /\ \/ BatchGoto("clear", "tcp") /\ Clears
       \/ bpc = "clear" /\ BatchEnds("fail") /\ ClearFails
    /\ UNCHANGED <<expVars, stressVars, runs>>

\* The options decide which stages are run.
BatchSkip ==
    /\ \/ "tcp" \notin modes /\ BatchGoto("tcp", "normal")
       \/ "normal" \notin modes /\ BatchGoto("normal", "set")
       \/ "xdp" \notin modes /\ BatchGoto("set", "unset")
    /\ UNCHANGED <<expVars, stressVars, setup, runs, faults>>

\* os.system(exp_tcp_cmd) and its sisters
BatchRunExp ==
    /\ bpc \in modes
    /\ StartExp(<<scene, bpc>>)
    /\ UNCHANGED <<stressVars, batchVars, runs>>

\* Mutated form: as with xdp, a failure is only printed.
BatchExpDoneUnchecked ==
    /\ pc = "idle" /\ status # "none" /\ status' = "none"
    /\ \/ BatchGoto("tcp", "normal") \/ BatchGoto("normal", "set")
       \/ BatchGoto("xdp", "unset")
    /\ UNCHANGED <<kind, pc, dir, n, client, diskVars, dumpVars, stressVars,
                   setup, runs, faults>>

\* Its status: a failure ends the batch, except that of the last measurement.
BatchExpDone ==
    /\ pc = "idle" /\ status # "none" /\ status' = "none"
    /\ \/ status = "ok" /\ BatchGoto("tcp", "normal")
       \/ status = "ok" /\ BatchGoto("normal", "set")
       \/ status = "fail" /\ bpc \in {"tcp", "normal"} /\ BatchEnds("fail")
       \/ BatchGoto("xdp", "unset")
    /\ UNCHANGED <<kind, pc, dir, n, client, diskVars, dumpVars, stressVars,
                   setup, runs, faults>>

\* The set-up is put in; a script that fails may have done so or not.
BatchSet ==
    /\ "xdp" \in modes
    /\ \/ BatchGoto("set", "xdp") /\ setup' = "on" /\ UNCHANGED faults
       \/ /\ bpc = "set" /\ BatchEnds("fail")
          /\ Fault("script") /\ setup' \in {"off", "on"}
    /\ UNCHANGED <<expVars, stressVars, runs>>

\* The last clear; its result is ignored.
BatchUnset ==
    /\ bpc = "unset" /\ BatchEnds("ok")
    /\ Clears \/ ClearFails
    /\ UNCHANGED <<expVars, stressVars, runs>>

\* Ctrl-C between two calls.
BatchInterrupted ==
    /\ bpc # "off" /\ pc = "idle"
    /\ BatchEnds("fail") /\ status' = "none"
    /\ Fault("sigint")
    /\ UNCHANGED <<kind, pc, dir, n, client, diskVars, dumpVars, stressVars,
                   setup, runs>>

-----------------------------------------------------------------------------
(***************************************************************************)
(* exp_stress_batch.py                                                     *)
(***************************************************************************)
Level == Levels[lvl]

StressGoto(from, to) == spc = from /\ spc' = to

\* The load is put on, in a session of its own; nobody looks whether it is.
StressLoad ==
    /\ lvl <= Len(Levels) /\ StressGoto("next", "warm")
    /\ \/ Level # 0 /\ load' = Append(load, Level) /\ UNCHANGED <<stray, faults>>
       \/ Level # 0 /\ Fault("stress") /\ stray' = TRUE /\ UNCHANGED load
       \/ Level = 0 /\ UNCHANGED <<load, stray, faults>>
    /\ UNCHANGED <<expVars, lvl, batchVars, runs>>

\* os.system(batch_exp_cmd): a scene and modes, but no option exp.
StressRunsBatch ==
    /\ StressGoto("warm", "run")
    /\ \E ms \in ModeSets \ {{}} : BatchStarts(Level, ms, FALSE)
    /\ UNCHANGED <<expVars, lvl, load, stray, runs, faults>>

\* Its result is ignored.
StressBatchDone ==
    /\ StressGoto("run", "cool") /\ bpc = "off"
    /\ UNCHANGED <<expVars, lvl, load, stray, batchVars, runs, faults>>

\* Mutated form: nothing is cleaned up after a failed batch.
StressCleanIfOk ==
    /\ StressGoto("cool", "rest")
    /\ IF Level # 0 /\ verdict = "ok"
       THEN load' = <<>> /\ stray' = FALSE
       ELSE UNCHANGED <<load, stray>>
    /\ UNCHANGED <<expVars, lvl, batchVars, runs, faults>>

\* `kill -9 $(pidof stress)` ends every stress process there is, or fails.
StressClean ==
    /\ StressGoto("cool", "rest")
    /\ \/ Level # 0 /\ load' = <<>> /\ stray' = FALSE /\ UNCHANGED faults
       \/ Level # 0 /\ Fault("clean") /\ stray' = TRUE /\ UNCHANGED load
       \/ Level = 0 /\ UNCHANGED <<load, stray, faults>>
    /\ UNCHANGED <<expVars, lvl, batchVars, runs>>

StressNext ==
    /\ StressGoto("rest", "next") /\ lvl' = lvl + 1
    /\ UNCHANGED <<expVars, load, stray, batchVars, runs, faults>>

\* The loop over the loads is over.
StressEnds ==
    /\ StressGoto("next", "off") /\ lvl > Len(Levels)
    /\ UNCHANGED <<expVars, lvl, load, stray, batchVars, runs, faults>>

\* Ctrl-C outside os.system(): what is loaded stays.
StressInterrupted ==
    /\ spc \in {"next", "warm", "cool", "rest"} /\ spc' = "off"
    /\ stray' = (stray \/ load # <<>>)
    /\ Fault("sigint")
    /\ UNCHANGED <<expVars, lvl, load, batchVars, runs>>

-----------------------------------------------------------------------------
Busy == spc # "off" \/ bpc # "off"

\* The operator starts a batch, for a scene of its own, or the stress script.
OperatorStarts ==
    /\ ~Busy /\ runs < MaxRuns /\ runs' = runs + 1
    /\ \/ \E ms \in ModeSets, g \in BOOLEAN :
             BatchStarts(Hand, ms, g) /\ UNCHANGED stressVars
       \/ spc' = "next" /\ lvl' = 1 /\ UNCHANGED <<load, stray, batchVars>>
    /\ UNCHANGED <<expVars, faults>>

BatchStep ==
    \/ BatchClear \/ BatchSkip \/ BatchRunExp \/ BatchExpDone \/ BatchSet
    \/ BatchUnset

StressStep ==
    \/ StressLoad \/ StressRunsBatch \/ StressBatchDone \/ StressClean
    \/ StressNext \/ StressEnds

InnerStep ==
    /\ ExpStep \/ ClientEnds
    /\ UNCHANGED <<stressVars, batchVars, runs>>

OuterFault ==
    /\ ExpFault \/ \E e \in Exps : DumpEnds(e)
    /\ UNCHANGED <<stressVars, batchVars, runs>>

\* Nothing runs and the operator is done.
Quiet == ~Busy /\ runs = MaxRuns /\ UNCHANGED vars

Next ==
    \/ BatchStep \/ StressStep \/ InnerStep \/ OuterFault
    \/ BatchInterrupted \/ StressInterrupted \/ OperatorStarts \/ Quiet

Spec == Init /\ [][Next]_vars

\* The scripts run, and clients and the scripts of the set-up end.
FairSpec ==
    /\ Spec
    /\ WF_vars(BatchStep) /\ WF_vars(StressStep) /\ WF_vars(InnerStep)

-----------------------------------------------------------------------------
(***************************************************************************)
(* Properties                                                              *)
(***************************************************************************)
Done(e) == file[e] \in {"row", "error"}

\* A measurement without the set-up never runs with it, nor the other way
\* round, whatever earlier batches left in the kernel.
SetupMatchesMode ==
    pc # "idle" => setup = IF dir[2] = "xdp" THEN "on" ELSE "off"

\* The load is that of the level in hand, and none outside of it, also behind
\* batches that failed or were interrupted, unless a stress process could not
\* be started or ended or the stress script itself was interrupted; the next
\* clean-up that works puts even that right.
LoadMatchesLevel ==
    ~stray => load = IF spc \in {"warm", "run", "cool"} /\ Level # 0
                     THEN <<Level>> ELSE <<>>

\* A result on disk is never written to again by a later run.
NeverOverwritten ==
    [][\A e \in Exps : file[e] # "none" /\ file'[e] # file[e]
                          => pc = "write" /\ e = Current]_vars

\* The files of a directory are those of the first experiments, without gaps,
\* and all but the last hold what their client printed.
PrefixRecorded ==
    \A e \in Exps : file[e] # "none" =>
        /\ e[1] \in made
        /\ \A i \in 1..(e[2] - 1) : Done(<<e[1], i>>)

\* A batch that ends with 0 has run all experiments without the set-up to their
\* end: a line for each of them, or each capture stopped.
BatchOkIsComplete ==
    verdict = "ok" =>
        \A m \in modes \ {"xdp"} : \A i \in 1..Count :
            LET e == <<<<scene, m>>, i>> IN
            IF kind = "measure" THEN Done(e) ELSE dump[e] \notin {"none", "on"}

\* tcpdump brackets its client: it was started before, and is left to run
\* until the client has ended; and none runs outside its own experiment except
\* those that an interrupt or a failing killpg() left without their signal.
CaptureBrackets ==
    /\ pc = "wait" => dump[Current] \in {"on", "dead"}
    /\ \A e \in Exps : dump[e] = "on" =>
          \/ e \in lost
          \/ /\ e = Current
             /\ pc \in {"settle", "try", "wait", "linger", "except", "finally",
                        "unwind"}

\* Whatever fails or is interrupted, every script comes to its end, if clients
\* do.
CampaignEnds == Busy ~> ~Busy

\* "run batch exp script" (exp_stress_batch.py:61): without any fault the
\* stress script has measurements of every level when it is through.
StressMeasures ==
    spc = "next" /\ lvl > Len(Levels) /\ faults = 0
        => \A i \in 1..Len(Levels) : \E m \in Modes : <<Levels[i], m>> \in made

\* "print transfer result to stdout" (client.cxx:37): what is stored as the
\* result of an experiment is the result of a transfer.
ResultsAreRows == \A e \in Exps : file[e] # "error"
==============================================================================
