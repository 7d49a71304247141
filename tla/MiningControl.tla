--------------------------- MODULE MiningControl ---------------------------
(***************************************************************************)
(* Who decides whether a worker grinds: three goroutines of internal/engine *)
(* that write the workers' work without a common lock. The arbitration     *)
(* loop (arbitrate.go) folds provider quotes into its streams, decides on  *)
(* every tick, rewrites the pause set and then idles workers; the pool     *)
(* session (run.go: startJob, updateWork, applyJob) arms the workers that  *)
(* are not paused; the price goroutine (run.go: Run) raises the            *)
(* curtailment gate and idles every worker. A map, set or worker access is *)
(* one step; the arbitration tick decides in one step under its lock.      *)
(***************************************************************************)
EXTENDS Arbitration, Sequences

CONSTANTS
  Families,       \* sequence: the family of each device
  Workers,        \* devices with a SHA256d worker
  Mining,         \* streams of the "mining." category
  Streams,        \* streams a provider can quote
  Quotes,         \* quotes the providers send: [provider, device, families, net, gross, conf, at]
  Hysteresis,     \* margin in percent
  MinYield,       \* min_yield_sats_per_sec, in the unit of Effective
  PowerCost,      \* power cost of one device, in that unit times the BTC rate
  Rates,          \* BTC rates the feed can report; 0 is none
  Threshold,      \* curtail_below_btc_usd; 0 disables it
  StaleAge        \* streamStaleTimeout, in arbitration intervals

Devices == 1 .. Len(Families)
AllFamilies == {"asic", "gpu", "cpu"}

\* A quote with no list of families accepts all; a quote with no time, or one from the
\* future, counts as sent now.
NilFamilies == {"nil"}
ZeroTime == -1000

VARIABLES
  streamMap,    \* <<stream, device>> -> [families, yield, age]: age of the last quote
  heard,        \* history: time since that quote was received
  alloc,        \* prevAlloc: device -> assignment; empty before the first decision
  floor,        \* history: the yield floor of the last decision
  paused,       \* pauseSet
  activity,     \* stream -> summed yield of the devices routed to it
  arb,          \* arbitration loop: phase and next device
  gate,         \* curtailGate
  price,        \* price goroutine: next worker to idle, 0 at rest
  dispatch,     \* pool session: phase and next worker
  armed         \* worker -> does it hold work

controlVars == <<streamMap, heard, alloc, floor, paused, activity, arb, gate, price, dispatch, armed>>
marketVars == <<streamMap, heard>>
decisionVars == <<alloc, floor, activity>>

EmptyFcn == [x \in {} |-> 0]

ControlInit ==
  /\ streamMap = EmptyFcn /\ heard = EmptyFcn
  /\ alloc = EmptyFcn /\ floor = 0
  /\ paused = {} /\ activity = EmptyFcn
  /\ arb = [pc |-> "rest", next |-> 1]
  /\ gate = FALSE /\ price = 0
  /\ dispatch = [pc |-> "rest", next |-> 1]
  /\ armed = [w \in Workers |-> FALSE]
-----------------------------------------------------------------------------
\* The age a quote contributes to the freshness ledger.
quoteFreshness(at) == IF at = ZeroTime \/ at < 0 THEN 0 ELSE at

\* Net pay where the provider states it, else gross.
netSats(q) == IF q.net <= 0 THEN q.gross ELSE q.net

Put(f, k, v) == [x \in DOMAIN f \cup {k} |-> IF x = k THEN v ELSE f[x]]

\* updateStream: a quote is folded in under its provider and device.
ReceiveQuote(q) ==
  /\ arb.pc = "rest"
  /\ LET key == <<q.provider, q.device>> IN
     /\ streamMap' = Put(streamMap, key,
          [families |-> IF q.families = NilFamilies THEN AllFamilies ELSE q.families,
           yield |-> [sats |-> netSats(q), conf |-> q.conf],
           age |-> quoteFreshness(q.at)])
     /\ heard' = Put(heard, key, 0)
  /\ UNCHANGED <<decisionVars, paused, arb, gate, price, dispatch, armed>>

pruneNothing(m) == m

\* pruneStaleStreams: a provider that has gone quiet is dropped.
pruneStaleStreams(m) ==
  LET kept == {k \in DOMAIN m : m[k].age <= StaleAge} IN [k \in kept |-> m[k]]

\* streamsSlice: the entries of one provider are one stream; a quote for no device in
\* particular is its default. (The quotes of one provider all name the same families.)
streamsSlice(m) ==
  {[id |-> s,
    families |-> m[CHOOSE k \in DOMAIN m : k[1] = s].families,
    yields |-> [d \in {k[2] : k \in {j \in DOMAIN m : j[1] = s}} \ {AnyDevice} |-> m[<<s, d>>].yield],
    default |-> IF <<s, AnyDevice>> \in DOMAIN m THEN m[<<s, AnyDevice>>].yield ELSE ZeroYield,
    privacy |-> 0, environment |-> 0, mining |-> s \in Mining] :
   s \in {k[1] : k \in DOMAIN m}}

\* powerFloor: what a device must earn to pay for its power at the current rate.
powerFloor(rate) == IF rate > 0 THEN PowerCost \div rate ELSE 0

Later(m) == [k \in DOMAIN m |-> [m[k] EXCEPT !.age = IF @ > StaleAge THEN @ ELSE @ + 1]]
HeardLater == [k \in DOMAIN heard |-> IF heard[k] > StaleAge THEN heard[k] ELSE heard[k] + 1]

\* What the assignments of a decision are expected to pay, by device, and a sum of such.
Expected(a) == [d \in Devices |-> a[d].yield]
SumOver(f, S) == MapThenSumSet(LAMBDA x : f[x], S)

DeviceRefs == {[id |-> d, family |-> Families[d]] : d \in Devices}

\* arbitrationTick up to the allocation and the activity map: an interval has passed.
ArbitrationTick(rate) ==
  /\ arb.pc = "rest"
  /\ LET live == pruneStaleStreams(Later(streamMap))
         minYield == Max({MinYield, powerFloor(rate)})
         new == Decide(DeviceRefs, streamsSlice(live), alloc, "earnings", Hysteresis, minYield)
     IN  /\ streamMap' = live
         /\ heard' = [k \in DOMAIN live |-> HeardLater[k]]
         /\ alloc' = new
         /\ floor' = minYield
         /\ activity' = [s \in {new[d].stream : d \in Devices} \ {NoStream} |->
                           SumOver(Expected(new), {d \in Devices : new[d].stream = s})]
  /\ arb' = [pc |-> "reconcile", next |-> 1]
  /\ UNCHANGED <<paused, gate, price, dispatch, armed>>

OffMining(a) == Idle(a) \/ a.stream \notin Mining

ReconcileNeverResumes ==
  /\ arb.pc = "reconcile"
  /\ paused' = IF OffMining(alloc[arb.next]) THEN paused \cup {arb.next} ELSE paused
  /\ arb' = IF arb.next = Len(Families) THEN [pc |-> "apply", next |-> 1]
            ELSE [arb EXCEPT !.next = @ + 1]
  /\ UNCHANGED <<marketVars, decisionVars, gate, price, dispatch, armed>>

\* reconcileArbPauses, one device.
Reconcile ==
  /\ arb.pc = "reconcile"
  /\ paused' = IF OffMining(alloc[arb.next]) THEN paused \cup {arb.next}
               ELSE paused \ {arb.next}
  /\ arb' = IF arb.next = Len(Families) THEN [pc |-> "apply", next |-> 1]
            ELSE [arb EXCEPT !.next = @ + 1]
  /\ UNCHANGED <<marketVars, decisionVars, gate, price, dispatch, armed>>

PausesOnTransition(a) ==
  \/ Idle(a) /\ ~a.heldIdle
  \/ a.from \in Mining /\ a.stream \notin Mining

\* An idle device is paused on every tick, one that leaves mining when it does.
Pauses(a) ==
  \/ Idle(a)
  \/ a.from \in Mining /\ a.stream \notin Mining

\* applyAllocation, one device.
Apply ==
  /\ arb.pc = "apply"
  /\ armed' = [w \in Workers |-> armed[w] /\ ~(w = arb.next /\ Pauses(alloc[w]))]
  /\ arb' = IF arb.next = Len(Families) THEN [pc |-> "rest", next |-> 1]
            ELSE [arb EXCEPT !.next = @ + 1]
  /\ UNCHANGED <<marketVars, decisionVars, paused, gate, price, dispatch>>
-----------------------------------------------------------------------------
\* A pool job, a retarget or a new tip: startJob looks at the gate once.
JobArrives ==
  /\ dispatch.pc = "rest"
  /\ ~gate
  /\ dispatch' = [pc |-> "check", next |-> 1]
  /\ UNCHANGED <<marketVars, decisionVars, paused, arb, gate, price, armed>>

NextWorker(d) == IF d = Len(Families) THEN [pc |-> "rest", next |-> 1]
                 ELSE [pc |-> "check", next |-> d + 1]

\* updateWork and applyJob, one worker: a paused device is passed over ...
CheckPaused ==
  /\ dispatch.pc = "check"
  /\ dispatch' = IF dispatch.next \in Workers \ paused THEN [dispatch EXCEPT !.pc = "arm"]
                 ELSE NextWorker(dispatch.next)
  /\ UNCHANGED <<marketVars, decisionVars, paused, arb, gate, price, armed>>

\* ... any other gets the job.
ArmWorker ==
  /\ dispatch.pc = "arm"
  /\ armed' = [armed EXCEPT ![dispatch.next] = TRUE]
  /\ dispatch' = NextWorker(dispatch.next)
  /\ UNCHANGED <<marketVars, decisionVars, paused, arb, gate, price>>

\* A session that ends idles every worker.
SessionEnds ==
  /\ dispatch.pc = "rest"
  /\ armed' = [w \in Workers |-> FALSE]
  /\ UNCHANGED <<marketVars, decisionVars, paused, arb, gate, price, dispatch>>
-----------------------------------------------------------------------------
\* Only a fresh, positive price moves the gate.
curtailDecision(curr, rate, fresh) ==
  IF Threshold = 0 \/ ~fresh \/ rate = 0 THEN curr ELSE rate < Threshold

\* The price goroutine looks at the rate; a gate that goes up idles the workers next.
PriceTick(rate, fresh) ==
  /\ price = 0
  /\ LET next == curtailDecision(gate, rate, fresh) IN
     /\ gate' = next
     /\ price' = IF next /\ ~gate THEN 1 ELSE 0
  /\ UNCHANGED <<marketVars, decisionVars, paused, arb, dispatch, armed>>

PriceIdles ==
  /\ price > 0
  /\ armed' = [w \in Workers |-> armed[w] /\ w # price]
  /\ price' = IF price = Len(Families) THEN 0 ELSE price + 1
  /\ UNCHANGED <<marketVars, decisionVars, paused, arb, gate, dispatch>>

DispatchStep == CheckPaused \/ ArmWorker

ControlNext ==
  \/ \E q \in Quotes : ReceiveQuote(q)
  \/ \E rate \in Rates : ArbitrationTick(rate)
  \/ Reconcile \/ Apply
  \/ JobArrives \/ DispatchStep \/ SessionEnds
  \/ \E rate \in Rates, fresh \in BOOLEAN : PriceTick(rate, fresh)
  \/ PriceIdles

ControlSpec == ControlInit /\ [][ControlNext]_controlVars

\* The steps of arb that are ticks; a tick is possible whenever the loop rests.
Ticks == arb.pc = "rest" /\ arb' = [pc |-> "reconcile", next |-> 1]

\* The goroutines run and the arbitration ticker fires, however often quotes arrive (a
\* select picks among its ready cases at random); nobody owes a job, a quote or a price.
ControlFairSpec ==
  /\ ControlSpec
  /\ WF_arb(Ticks) /\ WF_controlVars(Reconcile \/ Apply)
  /\ WF_controlVars(DispatchStep) /\ WF_controlVars(PriceIdles)
-----------------------------------------------------------------------------
\* At rest the pause set, the activity map and the last allocation say the same: a device
\* is paused exactly when its assignment is not a mining stream, and the activity map
\* holds the whole expected yield and nothing else.
MirrorsAllocation ==
  arb.pc = "rest" /\ alloc # EmptyFcn =>
    /\ paused = {d \in Devices : OffMining(alloc[d])}
    /\ SumOver(activity, DOMAIN activity) = SumOver(Expected(alloc), Devices)

\* A device is never routed on a price nobody stands behind any more: the yield it was
\* assigned is what a provider quoted for it, or for any device, no longer than
\* streamStaleTimeout ago, whatever time the provider put on its quote.
RoutedOnFreshQuote ==
  arb.pc = "reconcile" /\ arb.next = 1 =>
    \A d \in Devices : ~Idle(alloc[d]) =>
      \E k \in DOMAIN heard :
        /\ k[1] = alloc[d].stream /\ k[2] \in {d, AnyDevice}
        /\ heard[k] <= StaleAge
        /\ Effective(streamMap[k].yield) = alloc[d].yield

\* A device changes streams only if the one it leaves no longer pays above the floor, or
\* the new one pays more by over the hysteresis margin.
SwitchOnlyOnGain ==
  [][\A d \in DOMAIN alloc :
       ~Idle(alloc[d]) /\ ~Idle(alloc'[d]) /\ alloc'[d].stream # alloc[d].stream =>
         \A s \in streamsSlice(streamMap') :
           s.id = alloc[d].stream /\ Families[d] \in s.families =>
             LET y == Effective(YieldFor(s, d)) IN
             \/ y = 0 \/ y < floor'
             \/ alloc'[d].yield * 100 > y * (100 + Hysteresis)]_controlVars

\* A worker of a device that stays idle ends up without work for good: a dispatch that
\* read the pause set before the pause may still arm it, but the next tick takes it back.
IdleDrains ==
  \A w \in Workers :
    <>[](alloc # EmptyFcn /\ Idle(alloc[w])) => <>[](~armed[w])
-----------------------------------------------------------------------------
\* Why decisions and pauses are sound.

\* What the proofs need of the constants: there is a device, and the numbers are.
ConstantsOK ==
  /\ Len(Families) \in Nat \ {0} /\ Infinite \in Int
  /\ \A q \in Quotes :
       /\ q.provider \in Nat \ {NoStream} /\ q.device \in Nat
       /\ q.families \in (SUBSET AllFamilies) \cup {NilFamilies}
       /\ q.net \in Int /\ q.gross \in Int /\ q.conf \in Int /\ q.at \in Int
  /\ Hysteresis \in Nat /\ MinYield \in Nat /\ PowerCost \in Nat /\ Rates \subseteq Nat
  /\ StaleAge \in Nat

Entries == [families : SUBSET AllFamilies, yield : [sats : Int, conf : Int], age : Nat]

IsTable(m) ==
  /\ IsFiniteSet(DOMAIN m) /\ DOMAIN m \subseteq (Nat \ {NoStream}) \X Nat
  /\ m \in [DOMAIN m -> Entries]

\* No quote was received longer ago than its entry is old.
MarketInv ==
  /\ IsTable(streamMap)
  /\ heard \in [DOMAIN streamMap -> Nat]
  /\ \A k \in DOMAIN streamMap : heard[k] <= streamMap[k].age

\* The pause set follows the allocation up to the device reconcileArbPauses is at.
PauseInv ==
  /\ arb \in [pc : {"rest", "reconcile", "apply"}, next : Devices] /\ paused \subseteq Devices
  /\ alloc = EmptyFcn \/ DOMAIN alloc = Devices
  /\ arb.pc # "rest" => alloc # EmptyFcn
  /\ alloc # EmptyFcn =>
       \A d \in Devices : (arb.pc = "reconcile" => d < arb.next) =>
         (d \in paused <=> OffMining(alloc[d]))

\* The activity map holds the expected yield of the last decision, at rest or not.
ActivityInv ==
  alloc # EmptyFcn => SumOver(activity, DOMAIN activity) = SumOver(Expected(alloc), Devices)

\* The inductive invariant.
ControlInv == MarketInv /\ PauseInv /\ ActivityInv /\ RoutedOnFreshQuote
=============================================================================
