-------------------------------- MODULE MCV1 --------------------------------
(***************************************************************************)
(* Stratum V1 on small instances: one behaviour runs the client with       *)
(* several jobs, with one message of every kind, or with calls that race   *)
(* the close, or it runs the engine's side of the sessions, as part says.  *)
(***************************************************************************)
EXTENDS StratumV1, V1Session

VARIABLE part

Wide == INSTANCE StratumV1 WITH Kinds <- AllKinds, MaxMsgs <- 2

Calling == INSTANCE StratumV1 WITH
  Kinds <- {"reconnect"}, Submitters <- {"s1"}, MaxMsgs <- 1, MaxCalls <- 4, MaxStray <- 1

\* A decimal name stands for itself; of the hashed names two collide.
MCWireID == [name \in JobNames |-> IF name = "1" THEN 1 ELSE 2]

\* One session whose pool retargets up to three times, while and after it is negotiated.
Retargeted == INSTANCE V1Session WITH
  Diffs <- {2, 3, 4}, NBitsValid <- BOOLEAN, JobNames <- {"1"}, WireID <- [name \in {"1"} |-> 1],
  MaxRetargets <- 3, MaxSubmits <- 0, MergedCap <- 0, MaxSessions <- 1

\* The engine's constants are as its proofs need them.
ASSUME EngineConstants == SessionsOK

MCInit ==
  /\ part \in {"jobs", "kinds", "calls", "engine", "retargets"}
  /\ IF part = "calls" THEN Calling!Init ELSE Init
  /\ IF part = "retargets" THEN Retargeted!SessionInit ELSE SessionInit

MCNext ==
  /\ UNCHANGED part
  /\ \/ part = "jobs" /\ Next /\ UNCHANGED sessionVars
     \/ part = "kinds" /\ Wide!Next /\ UNCHANGED sessionVars
     \/ part = "calls" /\ Calling!Next /\ UNCHANGED sessionVars
     \/ part = "engine" /\ SessionNext /\ UNCHANGED vars
     \/ part = "retargets" /\ Retargeted!SessionNext /\ UNCHANGED vars

EngineSpec == MCInit /\ part \in {"engine", "retargets"} /\ [][MCNext]_<<part, vars, sessionVars>>

MCSpec == MCInit /\ [][MCNext]_<<part, vars, sessionVars>>
=============================================================================
