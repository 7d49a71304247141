------------------------------ MODULE MCMining ------------------------------
(***************************************************************************)
(* The mining side on small instances: one behaviour runs the workers, the *)
(* arbitration with its quotes, pauses and curtailment, or the quote feed, *)
(* as part says; the variables of the other two rest.                      *)
(***************************************************************************)
EXTENDS Worker, MiningControl

VARIABLES part, feedDone, prov, fwd, merged, mergedClosed, arbLoop, received

Quote(p, d, fam, net, gross, at) ==
  [provider |-> p, device |-> d, families |-> fam, net |-> net, gross |-> gross,
   conf |-> 10, at |-> at]

\* Stream 1 is an AI provider that takes any device (0): it quotes dated in the future or
\* now. Stream 2 is the mining pool, which quotes for each device, undated (-1000) or late;
\* the quote for the asic is not finite (99).
SmallQuotes ==
  {Quote(1, 0, {"nil"}, 0, 22, -1), Quote(1, 0, {"cpu"}, 0, 20, 0),
   Quote(2, 1, {"asic", "cpu"}, 20, 30, -1000), Quote(2, 1, {"asic", "cpu"}, 8, 9, 1),
   Quote(2, 2, {"asic", "cpu"}, 99, 99, 0)}

SmallFamilies == <<"cpu", "asic">>

\* The constants of the arbitration are as its proofs need them.
ASSUME ControlConstants == ConstantsOK

\* The first provider quotes for two devices and publishes twice, the second once for one.
Quoting == INSTANCE QuoteFeed WITH
  ctxDone <- feedDone, arb <- arbLoop, heard <- received,
  Providers <- {1, 2}, Quotes <- <<2, 1>>, Cap <- 2, MergedCap <- 1, Rounds <- <<2, 1>>

quoteVars == <<feedDone, prov, fwd, merged, mergedClosed, arbLoop, received>>
allVars == <<part, vars, controlVars, quoteVars>>

MCInit ==
  /\ part \in {"workers", "control", "quotes"}
  /\ Init /\ ControlInit /\ Quoting!Init

MCNext ==
  /\ UNCHANGED part
  /\ \/ part = "workers" /\ Next /\ UNCHANGED <<controlVars, quoteVars>>
     \/ part = "control" /\ ControlNext /\ UNCHANGED <<vars, quoteVars>>
     \/ part = "quotes" /\ Quoting!Next /\ UNCHANGED <<vars, controlVars>>

\* The fairness of each part, as in its own module.
MCFairness ==
  /\ \A w \in WorkerSet :
       /\ WF_vars(part = "workers" /\ StartRuns(w)) /\ WF_vars(part = "workers" /\ Closes(w))
       /\ WF_vars(part = "workers" /\ StopStep(w))
  /\ \A t \in ThreadSet : WF_vars(part = "workers" /\ ThreadStep(t))
  /\ WF_arb(part = "control" /\ Ticks)
  /\ WF_controlVars(part = "control" /\ (Reconcile \/ Apply))
  /\ WF_controlVars(part = "control" /\ DispatchStep)
  /\ WF_controlVars(part = "control" /\ PriceIdles)
  /\ \A p \in {1, 2} :
       /\ WF_quoteVars(part = "quotes" /\ Quoting!ProviderSteps(p))
       /\ WF_quoteVars(part = "quotes" /\ Quoting!FwdSteps(p))
  /\ WF_quoteVars(part = "quotes" /\ Quoting!MergedCloses)
  /\ WF_quoteVars(part = "quotes" /\ Quoting!ArbExits)

MCSpec == MCInit /\ [][MCNext]_allVars /\ MCFairness

-----------------------------------------------------------------------------
\* StopReturns of QuoteFeed: once the context ends, every goroutine of the feed does.
FeedStops == Quoting!StopReturns
=============================================================================
