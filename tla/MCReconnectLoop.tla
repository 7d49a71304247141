-------------------------- MODULE MCReconnectLoop --------------------------
(***************************************************************************)
(* Instances of ReconnectLoop.                                             *)
(***************************************************************************)
EXTENDS ReconnectLoop

\* Pools 0 and 1 refuse the primary address, everything else is accepted.
PrimaryRefusedTwice == Targets \ {<<0, 0>>, <<0, 1>>}

\* Every pool accepts every address.
AllAccepted == Targets
=============================================================================
