------------------------------- MODULE MCStartup -------------------------------
(***************************************************************************)
(* Values for the constants of Startup.                                    *)
(***************************************************************************)
EXTENDS Startup

\* Both versions and an unknown one
SomeVersions == {0, 1, 2}

\* Every kernel
AllKernels ==
    {k \in [v0 : BOOLEAN, v1 : BOOLEAN, always : BOOLEAN] : k.always => k.v0}
==============================================================================
