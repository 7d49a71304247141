------------------------------ MODULE MCEngine ------------------------------
(***************************************************************************)
(* What must come to an end while the engine lives, on small instances:    *)
(* one behaviour runs the calls and the close of a Stratum V1 client, or   *)
(* the engine from start-up to exit, as part says; the variables of the    *)
(* other rest.                                                             *)
(***************************************************************************)
EXTENDS StratumV1

VARIABLES part, ctxDone, main, input, drv, gor, stop, http, ready, code

Engine == INSTANCE EngineRun WITH Drivers <- {"cpu", "gpu"}, Miners <- {"cpu"}

engineVars == <<ctxDone, main, input, drv, gor, stop, http, ready, code>>
allVars == <<part, vars, engineVars>>

\* The part that does not run rests in one of its initial states.
MCInit ==
  /\ part \in {"client", "engine"}
  /\ Init /\ Engine!Init
  /\ part # "engine" => input = [verdict |-> "usage", http |-> FALSE, tui |-> FALSE,
                                 firstRun |-> FALSE]

MCNext ==
  /\ UNCHANGED part
  /\ \/ part = "client" /\ Next /\ UNCHANGED engineVars
     \/ part = "engine" /\ Engine!Next /\ UNCHANGED vars

\* The fairness of each part, as in its own module.
MCFairness ==
  /\ WF_vars(part = "client" /\ ReaderStep)
  /\ WF_vars(part = "client" /\ closing = "closed" /\ ReadFails)
  /\ WF_vars(part = "client" /\ NegotiatorStep)
  /\ WF_vars(part = "client" /\ CloseStep)
  /\ \A c \in Callers :
       WF_vars(part = "client" /\ CallStep(c)) /\ WF_vars(part = "client" /\ GiveUp(c))
  /\ WF_engineVars(part = "engine" /\ Engine!MainSteps)
  /\ WF_engineVars(part = "engine" /\ Engine!HTTPDown)
  /\ \A d \in {"cpu", "gpu"} : WF_engineVars(part = "engine" /\ Engine!Enumerated(d))
  /\ \A g \in Engine!Goroutines : WF_engineVars(part = "engine" /\ Engine!Exits(g))

MCSpec == MCInit /\ [][MCNext]_allVars /\ MCFairness

-----------------------------------------------------------------------------
\* ShutdownCompletes of EngineRun: a cancelled run exits and leaves no goroutine.
ShutdownCompletes == Engine!ShutdownCompletes
=============================================================================
