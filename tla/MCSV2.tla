------------------------------- MODULE MCSV2 -------------------------------
(***************************************************************************)
(* Stratum V2 on small instances: one behaviour runs the engine's sessions *)
(* with many jobs and curtailment, with many shares, or one after another; *)
(* the frames of the wire; or the client that assembles jobs from them, as *)
(* part says.                                                              *)
(*                                                                         *)
(* The constants of SV2Session include those of its three instances, so    *)
(* that SessionInv speaks of each; FreshIDs is TRUE, so that what          *)
(* SubmitsCurrent says, it says of the instances that send shares.         *)
(***************************************************************************)
EXTENDS SV2Session, SV2Samples, SV2Adapter

VARIABLES
  part,
  noise, sent, sendN, recvN, wire, closed, torn, readbuf, have, header, reader, got

\* The pool reuses job ids, sends jobs without a target and tips that do not decode, and
\* the price goroutine curtails; no shares.
Jobbing == INSTANCE SV2Session WITH
  JobIDs <- {1, 2, 3}, MaxTips <- 2, Targets <- {0, 2}, NBitsValid <- BOOLEAN,
  FreshIDs <- FALSE, Curtailment <- TRUE, MaxSeq <- 0, MergedCap <- 0, MaxSessions <- 1

\* A pool that never reuses a job id, and no curtailment: one session whose third share
\* overflows the open submits, and two sessions of two shares.
Sharing == INSTANCE SV2Session WITH
  JobIDs <- {1, 2}, MaxTips <- 1, Targets <- {2, 3}, NBitsValid <- {TRUE},
  FreshIDs <- TRUE, Curtailment <- FALSE, MaxSeq <- 3, MergedCap <- 1, MaxSessions <- 1

Changing == INSTANCE SV2Session WITH
  JobIDs <- {1, 2}, MaxTips <- 1, Targets <- {2, 3}, NBitsValid <- {TRUE},
  FreshIDs <- TRUE, Curtailment <- FALSE, MaxSeq <- 2, MergedCap <- 1, MaxSessions <- 2

Framing == INSTANCE SV2Wire WITH
  Messages <- OneOfEach, Followers <- Short, MaxSent <- 3, Splits <- {4, 8}, MaxNoiseFrame <- 70,
  MaxFrameSize <- 266

\* The client's constants are as its proofs need them.
ASSUME ClientConstants == AdapterOK

wireVars == <<noise, sent, sendN, recvN, wire, closed, torn, readbuf, have, header, reader, got>>

MCInit ==
  /\ part \in {"jobs", "shares", "sessions", "frames", "client"}
  /\ Init /\ Framing!Init /\ AdapterInit
  /\ part # "frames" => noise

MCNext ==
  /\ UNCHANGED part
  /\ \/ part = "jobs" /\ Jobbing!Next /\ UNCHANGED <<wireVars, adapterVars>>
     \/ part = "shares" /\ Sharing!Next /\ UNCHANGED <<wireVars, adapterVars>>
     \/ part = "sessions" /\ Changing!Next /\ UNCHANGED <<wireVars, adapterVars>>
     \/ part = "frames" /\ Framing!Next /\ UNCHANGED <<vars, adapterVars>>
     \/ part = "client" /\ AdapterNext /\ UNCHANGED <<vars, wireVars>>

MCSpec == MCInit /\ [][MCNext]_<<part, vars, wireVars, adapterVars>>

-----------------------------------------------------------------------------
\* DecodedFaithfully of SV2Wire: what is decoded is what was written.
DecodedFaithfully == Framing!DecodedFaithfully
============================================================================
