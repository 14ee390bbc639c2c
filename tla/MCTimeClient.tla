----------------------------- MODULE MCTimeClient -----------------------------
(***************************************************************************)
(* Values for the constants of TimeClient.                                 *)
(***************************************************************************)
EXTENDS TimeClient

\* a deadline, and none
DeadlineOrNone == {2, -1}
AllFaults == FaultKinds
==============================================================================
