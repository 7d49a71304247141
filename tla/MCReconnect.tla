---------------------------- MODULE MCReconnect ----------------------------
(***************************************************************************)
(* What fetches from the network and retries, on small instances: one      *)
(* behaviour runs the reconnect loop with a limit on its attempts or       *)
(* without one, or the fetches of a rate, as part says; the variables of   *)
(* the other rest.                                                         *)
(***************************************************************************)
EXTENDS MCReconnectLoop, RateFetch

VARIABLE part

\* The same loop when max_reconnect_attempts is not set; it counts no attempts.
Unlimited == INSTANCE ReconnectLoop WITH MaxReconnectAttempts <- 0

\* The constants of the feeds are as their proofs need them.
ASSUME RateConstants == SourcesOK

allVars == <<part, vars, rateVars>>

\* The part that does not run rests in one of its initial states.
MCInit ==
  /\ part \in {"limited", "unlimited", "rates"}
  /\ Init /\ RateInit
  /\ IF part = "rates" THEN up = {} ELSE feed = "price"

\* The bound on the fetches is reached and every caller is back.
FetchesDone ==
  /\ Len(calls) = MaxFetches /\ \A c \in Fetchers : fetching[c] = Resting
  /\ UNCHANGED rateVars

MCNext ==
  /\ UNCHANGED part
  /\ \/ part = "limited" /\ Next /\ UNCHANGED rateVars
     \/ part = "unlimited" /\ Unlimited!Next /\ UNCHANGED rateVars
     \/ part = "rates" /\ (RateNext \/ FetchesDone) /\ UNCHANGED vars

\* The fairness of each part, as in its own module.
MCFairness ==
  /\ WF_vars(part = "limited" /\ LoopStep) /\ WF_vars(part = "limited" /\ SessionStep)
  /\ WF_vars(part = "unlimited" /\ Unlimited!LoopStep)
  /\ WF_vars(part = "unlimited" /\ Unlimited!SessionStep)
  /\ \A c \in Fetchers :
       /\ WF_rateVars(part = "rates" /\ LeaderSteps(c))
       /\ WF_rateVars(part = "rates" /\ Returns(c))
  /\ WF_rateVars(part = "rates" /\ SourceAnswers)
  /\ WF_rateVars(part = "rates" /\ HashrateFetch)

MCSpec == MCInit /\ [][MCNext]_allVars /\ MCFairness
=============================================================================
