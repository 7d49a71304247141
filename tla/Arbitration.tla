---------------------------- MODULE Arbitration ----------------------------
(***************************************************************************)
(* The decision procedure of internal/arbitration/engine.go: which stream  *)
(* each device works for, given the streams that quote for it, the         *)
(* previous decision, a policy, a hysteresis margin and a yield floor.     *)
(* Yields are integers: satoshis per second in the unit of the model,      *)
(* confidence in tenths, margin and ratings in percent. Devices and        *)
(* streams are numbers ordered as their IDs sort; 0 is no stream, and as   *)
(* the device of a yield it is "any device".                               *)
(***************************************************************************)
EXTENDS Integers, FiniteSets, FiniteSetsExt

CONSTANT Infinite      \* the yield that stands for +Inf

NoStream == 0
AnyDevice == 0
ZeroYield == [sats |-> 0, conf |-> 0]

\* Confidence counts at most fully; a yield that is not positive and finite is none.
Effective(y) ==
  IF y.sats <= 0 \/ y.conf <= 0 \/ y.sats = Infinite THEN 0
  ELSE y.sats * (IF y.conf > 10 THEN 10 ELSE y.conf)

Accepts(s, family) == family \in s.families

\* A device the stream does not quote for gets the stream's default.
YieldFor(s, d) == IF d \in DOMAIN s.yields THEN s.yields[d] ELSE s.default

btcStackBonus == 105
ratingBonus(points) == 100 + points

\* A yield of 1 scores 100 under the policy that only looks at earnings.
policyScore(s, yield, policy) ==
  CASE policy = "stack_btc" /\ s.mining -> yield * btcStackBonus
    [] policy = "privacy" -> yield * ratingBonus(s.privacy)
    [] policy = "environment" -> yield * ratingBonus(s.environment)
    [] OTHER -> yield * 100

\* The streams that accept the device and clear the floor with a positive yield.
candidateStreams(dev, streams, minYield) ==
  {[stream |-> s, yield |-> Effective(YieldFor(s, dev.id))] : s \in
     {t \in streams : /\ Accepts(t, dev.family)
                      /\ LET y == Effective(YieldFor(t, dev.id)) IN y > 0 /\ y >= minYield}}

Score(c, policy) == policyScore(c.stream, c.yield, policy)

\* The candidate that sorts first: highest score, then lowest stream ID.
Best(cands, policy) ==
  CHOOSE c \in cands : \A o \in cands \ {c} :
    \/ Score(c, policy) > Score(o, policy)
    \/ Score(c, policy) = Score(o, policy) /\ c.stream.id < o.stream.id

HoldsNever(incumbent, best, policy, margin) == FALSE

\* incumbentHold: a challenger must beat the incumbent by more than the margin.
Holds(incumbent, best, policy, margin) ==
  Score(best, policy) * 100 <= Score(incumbent, policy) * (100 + margin)

Idle(a) == a.stream = NoStream

IdleAssignment == [stream |-> NoStream, yield |-> 0, from |-> NoStream, held |-> FALSE,
                   heldIdle |-> FALSE, foregone |-> 0]

\* previous is the stream of the last decision, NoStream if there was none.
chooseForDevice(dev, streams, previous, policy, margin, minYield) ==
  LET cands == candidateStreams(dev, streams, minYield)
      best == Best(cands, policy)
      maxRaw == Max({c.yield : c \in cands})
      incumbents == {c \in cands : c.stream.id = previous
                                   /\ Holds(c, best, policy, margin)}
      chosen == IF incumbents = {} THEN best ELSE CHOOSE c \in incumbents : TRUE
  IN  IF cands = {} THEN IdleAssignment
      ELSE [stream |-> chosen.stream.id, yield |-> chosen.yield,
            from |-> IF previous \in {NoStream, chosen.stream.id} THEN NoStream ELSE previous,
            held |-> chosen.stream.id # best.stream.id,
            heldIdle |-> FALSE, foregone |-> maxRaw - chosen.yield]

\* previous is a function from some of the devices to their last assignments.
PreviousStream(previous, d) ==
  IF d \in DOMAIN previous THEN previous[d].stream ELSE NoStream

\* Decide: one assignment per device. Its error paths (an unknown policy, a negative
\* margin) do not arise from the loop.
Decide(devices, streams, previous, policy, margin, minYield) ==
  LET assign(dev) ==
        LET a == chooseForDevice(dev, streams, PreviousStream(previous, dev.id),
                                 policy, margin, minYield)
        IN  [a EXCEPT !.heldIdle = Idle(a) /\ dev.id \in DOMAIN previous
                                   /\ Idle(previous[dev.id])]
  IN  [d \in {dev.id : dev \in devices} |-> assign(CHOOSE dev \in devices : dev.id = d)]
=============================================================================
