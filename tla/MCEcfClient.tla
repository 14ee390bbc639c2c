------------------------------ MODULE MCEcfClient ------------------------------
(***************************************************************************)
(* Values for the constants of EcfClient.                                  *)
(***************************************************************************)
EXTENDS EcfClient

\* The script numbers are 0 and 1.  A block with both scripts, one with a
\* script behind it, a bad line and one that is never reached; and files in
\* which a script is asked for that was not given.
BlockFiles ==
    { << [size |-> 1, before |-> 0, after |-> 1],
         [size |-> 1, before |-> -1, after |-> 0],
         BadLine,
         [size |-> 5, before |-> -1, after |-> -1] >>,
      << [size |-> 1, before |-> 0, after |-> -1],
         [size |-> 0, before |-> -1, after |-> 2] >>,
      << [size |-> 0, before |-> 2, after |-> -1] >> }

AllFaults == FaultKinds
==============================================================================
