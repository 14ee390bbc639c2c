------------------------------ MODULE MCCampaign ------------------------------
(***************************************************************************)
(* Values for the constants of Campaign.                                   *)
(***************************************************************************)
EXTENDS Campaign

\* A load, and no load behind it
TwoLoads == <<2, 0>>
AllDirs == ({2, 0} \cup {Hand}) \X Modes
SomeModes == {{"tcp", "xdp"}, {"normal"}}
AllFaults == FaultKinds
==============================================================================
