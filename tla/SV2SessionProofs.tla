-------------------------- MODULE SV2SessionProofs --------------------------
(***************************************************************************)
(* Proofs about SV2Session, for any job ids, targets, caps and bounds,     *)
(* with and without curtailment and whatever job_ids the pool reuses: the  *)
(* bounded tables and the counters, what the workers hold, the inductive   *)
(* invariant of the session, and the shares that a pool with fresh job_ids *)
(* is sent.                                                                *)
(***************************************************************************)
EXTENDS SV2Session, FiniteSetTheorems, TLAPS

\* What Head and Tail make of a queue.
LEMMA HeadTail ==
  ASSUME NEW S, NEW seq \in Seq(S), seq # << >>
  PROVE  /\ Head(seq) \in S /\ Tail(seq) \in Seq(S)
         /\ Len(Tail(seq)) = Len(seq) - 1
         /\ \A i \in 1 .. Len(Tail(seq)) : Tail(seq)[i] = seq[i + 1]
  OBVIOUS

\* What Append adds to a queue.
LEMMA Appended ==
  ASSUME NEW S, NEW seq \in Seq(S), NEW x, NEW longer, longer = Append(seq, x)
  PROVE  {longer[i] : i \in DOMAIN longer} = {seq[i] : i \in DOMAIN seq} \cup {x}
  OBVIOUS

USE JobIDsAssumption, CapAssumption, BoundAssumption, InputAssumption

\* What the session variables keep when only the environment of the handlers moves.
USE DEF jobVars, countVars, startVars, submitVars, vars

\* A cell of the job table after storeBoundedJob is a job with its own id.
LEMMA StoreType ==
  ASSUME TypeOK, JobTableSound, NEW job \in JobSet, storeBoundedJob(job)
  PROVE  /\ DOMAIN jobs' \subseteq JobIDs
         /\ \A i \in DOMAIN jobs' : jobs'[i] \in JobSet /\ jobs'[i].id = i
         /\ jobOrder' \in Seq(JobIDs)
         /\ JobTableSound'
<1> DEFINE order == IF job.id \in DOMAIN jobs THEN jobOrder ELSE Append(jobOrder, job.id)
           evicted == IF Len(order) > JobsCap THEN {order[1]} ELSE {}
           kept == (DOMAIN jobs \cup {job.id}) \ evicted
<1>1. /\ jobs' = [i \in kept |-> IF i = job.id THEN job ELSE jobs[i]]
      /\ jobOrder' = IF evicted = {} THEN order ELSE Tail(order)
  BY Zenon DEF storeBoundedJob
<1>2. job.id \in JobIDs
  BY Zenon DEF JobSet
<1>3. /\ DOMAIN jobs \subseteq JobIDs
      /\ \A i \in DOMAIN jobs : jobs[i] \in JobSet /\ jobs[i].id = i
      /\ jobOrder \in Seq(JobIDs)
  BY Zenon DEF TypeOK
<1>4. /\ order \in Seq(JobIDs)
      /\ {order[i] : i \in DOMAIN order} = DOMAIN jobs \cup {job.id}
      /\ \A i, j \in DOMAIN order : order[i] = order[j] => i = j
      /\ Len(order) <= JobsCap + 1
  <2>1. CASE job.id \in DOMAIN jobs
    BY <1>3, <2>1 DEF JobTableSound
  <2>2. CASE job.id \notin DOMAIN jobs
    <3>1. /\ order \in Seq(JobIDs) /\ Len(order) = Len(jobOrder) + 1
          /\ \A i \in 1 .. Len(jobOrder) : order[i] = jobOrder[i]
          /\ order[Len(jobOrder) + 1] = job.id
      BY <1>2, <1>3, <2>2
    <3>2. DOMAIN jobOrder = 1 .. Len(jobOrder) /\ DOMAIN order = 1 .. Len(jobOrder) + 1
          /\ Len(jobOrder) \in Nat
      BY <1>3, <3>1
    <3> HIDE DEF order
    <3>3. {order[i] : i \in DOMAIN order} = {jobOrder[i] : i \in DOMAIN jobOrder} \cup {job.id}
      BY <3>1, <3>2
    <3>4. \A i \in DOMAIN jobOrder : jobOrder[i] \in DOMAIN jobs
      BY Zenon DEF JobTableSound
    <3>5. \A i, j \in DOMAIN order : order[i] = order[j] => i = j
      BY <2>2, <3>1, <3>2, <3>4 DEF JobTableSound
    <3> QED  BY SMTT(60), <3>1, <3>2, <3>3, <3>5 DEF JobTableSound
  <2> QED  BY <2>1, <2>2, Zenon
<1> HIDE DEF order
<1>5. /\ DOMAIN jobs' = kept
      /\ \A i \in kept : jobs'[i] = IF i = job.id THEN job ELSE jobs[i]
  BY <1>1, Zenon
<1>6. /\ DOMAIN jobs' \subseteq JobIDs
      /\ \A i \in DOMAIN jobs' : jobs'[i] \in JobSet /\ jobs'[i].id = i
  BY <1>2, <1>3, <1>5, ZenonT(60)
<1>7. CASE evicted = {}
  <2>1. /\ jobOrder' = order /\ DOMAIN jobs' = DOMAIN jobs \cup {job.id}
        /\ Len(order) <= JobsCap
    BY SMTT(60), <1>1, <1>4, <1>5, <1>7
  <2>2. JobTableSound'
    BY <1>4, <2>1 DEF JobTableSound
  <2> QED  BY <1>4, <1>6, <2>1, <2>2, Zenon
<1>8. CASE evicted # {}
  <2>1. /\ Len(order) = JobsCap + 1 /\ evicted = {order[1]} /\ jobOrder' = Tail(order)
        /\ order # <<>> /\ DOMAIN order = 1 .. JobsCap + 1
    BY <1>1, <1>4, <1>8
  <2>2. /\ jobOrder' \in Seq(JobIDs) /\ Len(jobOrder') = JobsCap
        /\ DOMAIN jobOrder' = 1 .. JobsCap
        /\ \A i \in 1 .. JobsCap : jobOrder'[i] = order[i + 1]
    BY <1>4, <2>1, HeadTail
  <2>3. {jobOrder'[i] : i \in DOMAIN jobOrder'} = DOMAIN jobs'
    <3>1. \A x : x \in kept <=> \E i \in 2 .. JobsCap + 1 : x = order[i]
      <4>1. \A x : x \in kept <=> x # order[1] /\ \E i \in DOMAIN order : x = order[i]
        <5>1. kept = {order[i] : i \in DOMAIN order} \ {order[1]}
          BY <1>4, <2>1, Zenon
        <5> QED  BY ZenonT(60), <5>1
      <4>2. \A i \in DOMAIN order : order[i] = order[1] => i = 1
        BY <1>4, <2>1
      <4>3. \A i : i \in 2 .. JobsCap + 1 <=> i \in DOMAIN order /\ i # 1
        BY <2>1
      <4> QED  BY ZenonT(60), <4>1, <4>2, <4>3
    <3>2. \A x : (\E i \in 2 .. JobsCap + 1 : x = order[i])
                   <=> (\E i \in 1 .. JobsCap : x = order[i + 1])
      <4>1. \A i \in 2 .. JobsCap + 1 : i - 1 \in 1 .. JobsCap /\ (i - 1) + 1 = i
        OBVIOUS
      <4>2. \A i \in 1 .. JobsCap : i + 1 \in 2 .. JobsCap + 1
        OBVIOUS
      <4> QED  BY <4>1, <4>2, Zenon
    <3> HIDE DEF kept
    <3>3. {jobOrder'[i] : i \in DOMAIN jobOrder'} = {order[i + 1] : i \in 1 .. JobsCap}
      <4>1. DOMAIN jobOrder' = 1 .. JobsCap /\ \A i \in 1 .. JobsCap : jobOrder'[i] = order[i + 1]
        BY <2>2, Zenon
      <4>2. \A x : (\E i \in DOMAIN jobOrder' : x = jobOrder'[i])
                     <=> (\E i \in 1 .. JobsCap : x = order[i + 1])
        BY ZenonT(60), <4>1
      <4> QED  BY <4>2
    <3>4. kept = {order[i + 1] : i \in 1 .. JobsCap}
      BY <3>1, <3>2
    <3> QED  BY Zenon, <1>5, <3>3, <3>4
  <2>4. \A i, j \in DOMAIN jobOrder' : jobOrder'[i] = jobOrder'[j] => i = j
    BY <1>4, <2>1, <2>2
  <2> QED  BY <1>6, <2>2, <2>3, <2>4 DEF JobTableSound
<1> QED  BY <1>7, <1>8, Zenon

\* The domain of the open submits is finite, and reaping only ever shrinks it to at
\* most the cap.
LEMMA ReapBounds ==
  ASSUME TypeOK, InFlightBounded, NEW flight,
         DOMAIN flight = DOMAIN inFlight \cup {seqNum + 1}
  PROVE  /\ IsFiniteSet(DOMAIN inFlight)
         /\ DOMAIN Reap(flight) \subseteq DOMAIN flight
         /\ \A q \in DOMAIN Reap(flight) : Reap(flight)[q] = flight[q]
         /\ Cardinality(DOMAIN Reap(flight)) \in 0 .. SubmitTimesCap
         /\ Cardinality(DOMAIN Reap(flight)) <= Cardinality(DOMAIN inFlight) + 1
<1> DEFINE young == {q \in DOMAIN flight : q >= seqNum + 1 - SubmitTimesCap \div 2}
           low == seqNum + 1 - SubmitTimesCap \div 2
<1>1. seqNum \in Nat /\ DOMAIN inFlight \subseteq 1 .. seqNum
  BY DEF TypeOK
<1>2. IsFiniteSet(DOMAIN inFlight) /\ Cardinality(DOMAIN inFlight) \in Nat
  <2>1. IsFiniteSet(1 .. seqNum)
    BY <1>1, FS_Interval
  <2> QED  BY <1>1, <2>1, FS_Subset, FS_CardinalityType, Zenon
<1>3. /\ IsFiniteSet(DOMAIN flight)
      /\ Cardinality(DOMAIN flight) = Cardinality(DOMAIN inFlight) + 1
  <2>1. seqNum + 1 \notin DOMAIN inFlight
    BY <1>1
  <2> QED  BY <1>2, <2>1, FS_AddElement
<1>4. CASE Cardinality(DOMAIN flight) > SubmitTimesCap
  <2>1. Reap(flight) = [q \in young |-> flight[q]]
    BY <1>4, Zenon DEF Reap, Restrict
  <2>2. young \subseteq low .. seqNum + 1 /\ low \in Int
    BY <1>1
  <2>3. /\ IsFiniteSet(low .. seqNum + 1)
        /\ Cardinality(low .. seqNum + 1) <= SubmitTimesCap \div 2 + 1
    BY <1>1, <2>2, FS_Interval
  <2>4. /\ IsFiniteSet(young) /\ Cardinality(young) \in Nat
        /\ Cardinality(young) <= Cardinality(low .. seqNum + 1)
    BY ZenonT(60), <2>2, <2>3, FS_Subset, FS_CardinalityType
  <2>5. Cardinality(young) <= Cardinality(DOMAIN flight)
    BY <1>3, FS_Subset, Zenon
  <2>6. Cardinality(low .. seqNum + 1) \in Nat
    BY <2>3, FS_CardinalityType, Zenon
  <2>7. SubmitTimesCap \div 2 + 1 <= SubmitTimesCap
    OBVIOUS
  <2> HIDE DEF young, low
  <2>8. Cardinality(young) <= SubmitTimesCap
    BY <2>3, <2>4, <2>6, <2>7
  <2>9. DOMAIN Reap(flight) = young /\ \A q \in young : Reap(flight)[q] = flight[q]
    BY <2>1, Zenon
  <2>10. young \subseteq DOMAIN flight
    BY Zenon DEF young
  <2> QED  BY SMTT(60), <1>2, <1>3, <2>4, <2>5, <2>8, <2>9, <2>10
<1>5. CASE ~(Cardinality(DOMAIN flight) > SubmitTimesCap)
  <2>1. Reap(flight) = flight
    BY <1>5, Zenon DEF Reap
  <2> QED  BY <1>2, <1>3, <1>5, <2>1
<1> QED  BY <1>4, <1>5, Zenon

\* The job table's part of the invariant.
TableOK ==
  /\ DOMAIN jobs \subseteq JobIDs
  /\ \A i \in DOMAIN jobs : jobs[i] \in JobSet /\ jobs[i].id = i
  /\ jobOrder \in Seq(JobIDs)
  /\ JobTableSound

\* The job table: only Open, NewMiningJob and SetNewPrevHash touch it.
LEMMA JobTableStep == ASSUME SessionInv, Next PROVE TableOK'
<1>0. TableOK /\ tip \in TipSet
  BY Zenon DEF SessionInv, TypeOK, TableOK
<1>1. ASSUME NEW target \in Targets, Open(target) PROVE TableOK'
  <2>1. jobs' = EmptyTable /\ jobOrder' = <<>> /\ DOMAIN EmptyTable = {}
    BY <1>1, Zenon DEF Open, EmptyTable
  <2> QED  BY <2>1 DEF TableOK, JobTableSound
<1>2. ASSUME NEW id \in JobIDs, NEW future \in BOOLEAN, NewMiningJob(id, future)
      PROVE  TableOK'
  <2> DEFINE job == [id |-> id, future |-> future, born |-> tip.n]
  <2>1. job \in JobSet
    BY <1>0, Zenon DEF JobSet, TipSet
  <2>2. storeBoundedJob(job)
    BY <1>2, Zenon DEF NewMiningJob
  <2> HIDE DEF job
  <2> QED  BY <2>1, <2>2, StoreType, Zenon DEF SessionInv, TableOK
<1>3. ASSUME NEW id \in JobIDs, NEW valid \in NBitsValid, SetNewPrevHash(id, valid)
      PROVE  TableOK'
  <2>1. /\ jobs' = [i \in {id} \cap DOMAIN jobs |-> jobs[i]]
        /\ jobOrder' = IF id \in DOMAIN jobs THEN <<id>> ELSE <<>>
    BY <1>3, Zenon DEF SetNewPrevHash
  <2>2. CASE id \in DOMAIN jobs
    <3>1. DOMAIN jobs' = {id} /\ jobs'[id] = jobs[id] /\ jobOrder' = <<id>>
      BY <2>1, <2>2, Zenon
    <3>2. /\ jobOrder' \in Seq(JobIDs) /\ Len(jobOrder') = 1
          /\ DOMAIN jobOrder' = {1} /\ jobOrder'[1] = id
      BY <3>1
    <3>3. JobTableSound'
      BY <3>1, <3>2 DEF JobTableSound
    <3> QED  BY <1>0, <2>2, <3>1, <3>2, <3>3, ZenonT(60) DEF TableOK
  <2>3. CASE id \notin DOMAIN jobs
    <3>1. DOMAIN jobs' = {} /\ jobOrder' = <<>>
      BY <2>1, <2>3, Zenon
    <3> QED  BY <3>1 DEF TableOK, JobTableSound
  <2> QED  BY SMTT(30), <2>2, <2>3
<1>4. ASSUME UNCHANGED <<jobs, jobOrder>> PROVE TableOK'
  BY <1>0, <1>4 DEF TableOK, JobTableSound
<1>5. ASSUME NEW target \in Targets, SetTarget(target) PROVE UNCHANGED <<jobs, jobOrder>>
  BY <1>5, Zenon DEF SetTarget
<1>6. ASSUME NEW last, NEW claimed, SubmitSharesSuccess(last, claimed)
      PROVE  UNCHANGED <<jobs, jobOrder>>
  BY <1>6, Zenon DEF SubmitSharesSuccess
<1>7. ASSUME NEW seq, NEW category, SubmitSharesError(seq, category)
      PROVE  UNCHANGED <<jobs, jobOrder>>
  BY <1>7, Zenon DEF SubmitSharesError
<1>8. CASE \/ End \/ YieldFailover \/ Arm \/ Find \/ TakeShare \/ Refill
           \/ PriceLow \/ PriceIdlesWorkers \/ PriceRecovers \/ Done
  <2>1. UNCHANGED <<jobs, jobOrder>>
    BY ZenonT(60), <1>8 DEF End, YieldFailover, Arm, Find, TakeShare, Refill, PriceLow,
                PriceIdlesWorkers, PriceRecovers, Done
  <2> QED  BY SMTT(30), <1>4, <2>1
<1> QED  BY <1>1, <1>2, <1>3, <1>4, <1>5, <1>6, <1>7, <1>8, ZenonT(30) DEF Next, PoolStep

\* The accounting: which shares have been judged and which are still open.
AccountOK == VerdictsBounded /\ InFlightBounded /\ SessionBounded /\ YieldJustified

CountTypes ==
  /\ tokens \in 0 .. SubmitBurst /\ seqNum \in 0 .. MaxSeq
  /\ DOMAIN inFlight \subseteq 1 .. seqNum /\ \A q \in DOMAIN inFlight : inFlight[q] \in Nat
  /\ submitted \in Nat /\ accepted \in Nat /\ rejected \in Nat /\ transitions \in Nat
  /\ startAccepted \in 0 .. accepted /\ startRejected \in 0 .. rejected
  /\ verdict \in {"none", "yield"}

\* The accounting: Open, TakeShare, SubmitSharesSuccess, SubmitSharesError, Refill and
\* YieldFailover are the steps that touch it.
LEMMA AccountStep == ASSUME SessionInv, Next PROVE AccountOK' /\ CountTypes'
<1> DEFINE Goal == AccountOK' /\ CountTypes'
           n == Cardinality(DOMAIN inFlight)
<1>0. AccountOK /\ CountTypes
  BY Zenon DEF SessionInv, TypeOK, AccountOK, CountTypes
<1>1. IsFiniteSet(DOMAIN inFlight) /\ n \in Nat
  <2>1. seqNum \in Nat /\ DOMAIN inFlight \subseteq 1 .. seqNum
    BY <1>0 DEF CountTypes
  <2>2. IsFiniteSet(1 .. seqNum)
    BY <2>1, FS_Interval
  <2> QED  BY <2>1, <2>2, FS_Subset, FS_CardinalityType, Zenon
<1>2. ASSUME NEW target \in Targets, Open(target) PROVE Goal
  <2>1. DOMAIN inFlight' = {} /\ Cardinality(DOMAIN inFlight') = 0
    BY <1>2, FS_EmptySet, Zenon DEF Open
  <2>2. CountTypes'
    BY <1>0, <1>2, <2>1 DEF Open, CountTypes
  <2>3. AccountOK'
    BY SMTT(60), <1>0, <1>1, <1>2, <2>1 DEF Open, CountTypes, AccountOK, VerdictsBounded,
       InFlightBounded, SessionBounded, YieldJustified
  <2> QED  BY <2>2, <2>3, Zenon
<1>3. CASE TakeShare
  <2> DEFINE share == Head(merged)
             flight == [q \in DOMAIN inFlight \cup {seqNum + 1} |->
                          IF q = seqNum + 1 THEN share.target ELSE inFlight[q]]
  <2>1. /\ seqNum < MaxSeq /\ seqNum' = seqNum + 1 /\ merged # <<>>
        /\ UNCHANGED <<accepted, rejected, transitions, startAccepted, startRejected, verdict>>
    BY <1>3, Zenon DEF TakeShare
  <2>2. CASE UNCHANGED <<tokens, inFlight, submitted>>
    BY SMTT(60), <1>0, <1>1, <2>1, <2>2 DEF CountTypes, AccountOK, VerdictsBounded,
       InFlightBounded, SessionBounded, YieldJustified
  <2>3. CASE tokens > 0 /\ tokens' = tokens - 1 /\ submitted' = submitted + 1
             /\ inFlight' = Reap(flight)
    <3>1. share.target \in Nat
      <4>1. merged \in Seq(ShareSet)
        BY Zenon DEF SessionInv, TypeOK
      <4>2. share \in ShareSet
        BY <2>1, <4>1, HeadTail, Zenon
      <4> QED  BY <4>2, Zenon DEF ShareSet
    <3>2. /\ DOMAIN flight = DOMAIN inFlight \cup {seqNum + 1}
          /\ \A q \in DOMAIN flight : flight[q] \in Nat
      BY <1>0, <3>1, Zenon DEF CountTypes
    <3> HIDE DEF flight
    <3>3. /\ DOMAIN inFlight' \subseteq DOMAIN flight
          /\ \A q \in DOMAIN inFlight' : inFlight'[q] = flight[q]
          /\ Cardinality(DOMAIN inFlight') \in 0 .. SubmitTimesCap
          /\ Cardinality(DOMAIN inFlight') <= n + 1
      BY <2>3, <3>2, ReapBounds, ZenonT(60) DEF SessionInv
    <3>4. CountTypes'
      BY SMTT(60), <1>0, <2>1, <2>3, <3>2, <3>3 DEF CountTypes
    <3>5. AccountOK'
      BY SMTT(60), <1>0, <1>1, <2>1, <2>3, <3>3 DEF CountTypes, AccountOK, VerdictsBounded,
         InFlightBounded, SessionBounded, YieldJustified
    <3> QED  BY <3>4, <3>5, Zenon
  <2> QED  BY SMTT(30), <1>3, <2>2, <2>3 DEF TakeShare
<1>4. ASSUME NEW last \in 0 .. MaxSeq, NEW claimed \in 0 .. MaxSeq,
             SubmitSharesSuccess(last, claimed)
      PROVE  Goal
  <2> DEFINE settled == {q \in DOMAIN inFlight : q <= last}
             k == Cardinality(settled)
             m == Cardinality(DOMAIN inFlight')
  <2>1. /\ inFlight' = [q \in DOMAIN inFlight \ settled |-> inFlight[q]]
        /\ accepted' = accepted + Credit(claimed, k)
        /\ UNCHANGED <<tokens, seqNum, submitted, rejected, transitions, startAccepted,
                       startRejected, verdict>>
    BY <1>4, Zenon DEF SubmitSharesSuccess, Restrict
  <2>2. DOMAIN inFlight' = DOMAIN inFlight \ settled
        /\ \A q \in DOMAIN inFlight' : inFlight'[q] = inFlight[q]
    BY <2>1, Zenon
  <2>3. k \in Nat /\ m = n - k /\ k <= n
    <3>1. IsFiniteSet(settled) /\ k <= n /\ k \in Nat
      BY <1>1, FS_Subset, FS_CardinalityType, Zenon
    <3>2. DOMAIN inFlight \cap settled = settled
      BY Zenon
    <3> QED  BY ZenonT(60), <1>1, <2>2, <3>1, <3>2, FS_Difference
  <2> HIDE DEF settled, k, m
  <2>4. Credit(claimed, k) \in 0 .. k
    BY <2>3 DEF Credit
  <2> HIDE DEF n
  <2>5. CountTypes'
    BY <1>0, <2>1, <2>2, <2>3, <2>4 DEF CountTypes
  <2>6. m = Cardinality(DOMAIN inFlight') /\ n = Cardinality(DOMAIN inFlight)
    BY Zenon DEF m, n
  <2>7. AccountOK'
    BY SMTT(60), <1>0, <1>1, <2>1, <2>3, <2>4, <2>6 DEF CountTypes, AccountOK, VerdictsBounded,
       InFlightBounded, SessionBounded, YieldJustified
  <2> QED  BY <2>5, <2>7, Zenon
<1>5. ASSUME NEW seq \in 0 .. MaxSeq, NEW category, SubmitSharesError(seq, category)
      PROVE  Goal
  <2>1. /\ seq \in DOMAIN inFlight
        /\ inFlight' = [q \in DOMAIN inFlight \ {seq} |-> inFlight[q]]
        /\ \/ rejected' = rejected + 1 /\ transitions' = transitions
           \/ rejected' = rejected /\ transitions' = transitions + 1
        /\ UNCHANGED <<tokens, seqNum, submitted, accepted, startAccepted, startRejected,
                       verdict>>
    BY <1>5, Zenon DEF SubmitSharesError, Settles, Restrict
  <2>2. /\ DOMAIN inFlight' = DOMAIN inFlight \ {seq}
        /\ \A q \in DOMAIN inFlight' : inFlight'[q] = inFlight[q]
    BY <2>1, Zenon
  <2>3. Cardinality(DOMAIN inFlight') = n - 1
    BY ZenonT(60), <1>1, <2>1, <2>2, FS_RemoveElement
  <2>4. CountTypes'
    BY SMTT(60), <1>0, <2>1, <2>2 DEF CountTypes
  <2>5. AccountOK'
    BY SMTT(60), <1>0, <1>1, <2>1, <2>3 DEF CountTypes, AccountOK, VerdictsBounded,
       InFlightBounded, SessionBounded, YieldJustified
  <2> QED  BY SMTT(30), <2>4, <2>5
<1>6. CASE YieldFailover
  BY SMTT(60), <1>0, <1>1, <1>6 DEF YieldFailover, yieldDegraded, CountTypes, AccountOK,
     VerdictsBounded, InFlightBounded, SessionBounded, YieldJustified
<1>7. CASE Refill
  BY <1>0, <1>7 DEF Refill, CountTypes, AccountOK,
     VerdictsBounded, InFlightBounded, SessionBounded, YieldJustified
<1>8. ASSUME UNCHANGED <<tokens, seqNum, inFlight, submitted, accepted, rejected, transitions,
                         startAccepted, startRejected, verdict>>
      PROVE  Goal
  BY SMTT(60), <1>0, <1>8 DEF CountTypes, AccountOK, VerdictsBounded, InFlightBounded,
     SessionBounded, YieldJustified
<1>9. CASE \/ End \/ Arm \/ Find \/ PriceLow \/ PriceIdlesWorkers \/ PriceRecovers \/ Done
           \/ \E target \in Targets : SetTarget(target)
  BY SMTT(60), <1>8, <1>9
     DEF End, Arm, Find, PriceLow, PriceIdlesWorkers, PriceRecovers, Done, SetTarget
<1>10. ASSUME NEW id \in JobIDs, NEW future \in BOOLEAN, NewMiningJob(id, future) PROVE Goal
  BY SMTT(30), <1>8, <1>10 DEF NewMiningJob
<1>11. ASSUME NEW id \in JobIDs, NEW valid \in NBitsValid, SetNewPrevHash(id, valid) PROVE Goal
  BY <1>8, <1>11, ZenonT(60) DEF SetNewPrevHash
<1> QED  BY SMTT(60), <1>2, <1>3, <1>4, <1>5, <1>6, <1>7, <1>9, <1>10, <1>11 DEF Next, PoolStep
-----------------------------------------------------------------------------
\* The types of what the pool assigns and of what the workers hold.
WorkTypes ==
  /\ session \in 0 .. MaxSessions /\ live \in BOOLEAN
  /\ active \in JobSet \cup {NoJob}
  /\ tip \in TipSet
  /\ shareTarget \in Nat
  /\ arming \in BOOLEAN /\ gate \in {"open", "raised", "idled"}
  /\ \/ work = NoWork
     \/ work \in [session : 1 .. MaxSessions, job : JobSet, tip : TipSet, target : Nat]
  /\ usedIDs \subseteq JobIDs /\ missed \in BOOLEAN

WorkOK == WorkTypes /\ ActiveSound /\ HeaderValid /\ IdleSound /\ WorkTracksActive

\* What the workers hold follows the active job, the tip and the target.
LEMMA WorkStep == ASSUME SessionInv, Next PROVE WorkOK'
<1> USE DEF ActiveSound, HeaderValid, IdleSound, WorkTracksActive
<1>0. WorkOK /\ TableOK
  BY ZenonT(60) DEF SessionInv, TypeOK, WorkOK, WorkTypes, TableOK
<1>1. /\ NoWork \notin [session : 1 .. MaxSessions, job : JobSet, tip : TipSet, target : Nat]
      /\ NoJob \notin JobSet /\ NoTip \in TipSet
      /\ \A t \in TipSet : t.n \in 0 .. MaxTips /\ t.job \in JobIDs \cup {0} /\ t.valid \in BOOLEAN
      /\ \A j \in JobSet : j.id \in JobIDs /\ j.future \in BOOLEAN /\ j.born \in 0 .. MaxTips
  BY SMTT(60) DEF NoWork, NoJob, NoTip, JobSet, TipSet
<1>2. ASSUME NEW target \in Targets, Open(target) PROVE WorkOK'
  <2>1. live' \in BOOLEAN /\ arming' \in BOOLEAN /\ missed' \in BOOLEAN
    BY <1>0, <1>2, Zenon DEF Open, WorkOK, WorkTypes
  <2>2. WorkTypes' /\ HeaderValid' /\ ActiveSound'
    BY <1>0, <1>1, <1>2, <2>1 DEF Open, WorkOK, WorkTypes
  <2>3. IdleSound' /\ WorkTracksActive'
    BY <1>0, <1>2, ZenonT(30) DEF Open, WorkOK
  <2> QED  BY <2>2, <2>3, Zenon DEF WorkOK
<1>3. CASE End \/ YieldFailover
  <2>1. live' \in BOOLEAN /\ arming' \in BOOLEAN /\ missed' \in BOOLEAN
    BY <1>0, <1>3, Zenon DEF End, YieldFailover, WorkOK, WorkTypes
  <2> QED  BY ZenonT(60), <1>0, <1>1, <1>3, <2>1 DEF End, YieldFailover, WorkOK, WorkTypes
<1>4. CASE Arm
  <2>1. /\ live' \in BOOLEAN /\ arming' \in BOOLEAN /\ ~arming'
        /\ UNCHANGED <<session, live, active, tip, shareTarget, gate, usedIDs>>
    BY <1>0, <1>4, Zenon DEF Arm, WorkOK, WorkTypes
  <2>2. /\ live /\ session >= 1 /\ active \in JobSet /\ tip # NoTip
        /\ tip.job = active.id \/ (~active.future /\ active.born = tip.n)
    BY <1>0, <1>4, Zenon DEF Arm, WorkOK, WorkTypes
  <2>3. CASE NoTarget
    <3>1. work' = work
      BY <1>4, <2>3, Zenon DEF Arm
    <3>2. missed' /\ missed' \in BOOLEAN
      BY <1>4, <2>3, Zenon DEF Arm
    <3> QED  BY ZenonT(60), <1>0, <1>1, <2>1, <2>2, <3>1, <3>2 DEF WorkOK, WorkTypes
  <2>4. CASE ~NoTarget
    <3>1. work' = [session |-> session, job |-> active, tip |-> tip,
                   target |-> IF shareTarget = 0 THEN BlockTarget ELSE shareTarget]
      BY <1>4, <2>4, ZenonT(60) DEF Arm
    <3>2. work' \in [session : 1 .. MaxSessions, job : JobSet, tip : TipSet, target : Nat]
      BY <1>0, <2>2, <3>1 DEF WorkOK, WorkTypes, BlockTarget
    <3>3. missed' \in BOOLEAN
      BY <1>4, <2>4, Zenon DEF Arm, NoTarget
    <3>4. WorkTypes' /\ HeaderValid' /\ ActiveSound'
      BY ZenonT(60), <1>0, <1>1, <2>1, <2>2, <3>1, <3>2, <3>3 DEF WorkOK, WorkTypes
    <3>5. IdleSound' /\ WorkTracksActive'
      BY Zenon, <1>1, <2>1, <2>2, <3>1
    <3> QED  BY <3>4, <3>5, Zenon DEF WorkOK
  <2> QED  BY <2>3, <2>4, Zenon
<1>5. ASSUME NEW id \in JobIDs, NEW future \in BOOLEAN, NewMiningJob(id, future)
      PROVE  WorkOK'
  <2> DEFINE job == [id |-> id, future |-> future, born |-> tip.n]
  <2>1. job \in JobSet /\ job.future = future /\ job.born = tip.n
    BY <1>0, <1>1, Zenon DEF WorkOK, WorkTypes, JobSet
  <2>2. /\ live /\ ~arming
        /\ IF ~future /\ tip # NoTip
           THEN active' = job /\ arming' = (gate = "open") /\ missed' = (gate # "open")
           ELSE UNCHANGED <<active, arming, missed>>
        /\ usedIDs' \subseteq usedIDs \cup {id}
        /\ UNCHANGED <<session, live, tip, shareTarget, gate, work>>
    BY <1>5, Zenon DEF NewMiningJob, startJob
  <2>3. live' \in BOOLEAN /\ arming' \in BOOLEAN /\ missed' \in BOOLEAN
    BY <1>0, <2>2, Zenon DEF WorkOK, WorkTypes
  <2>4. ~future /\ tip # NoTip => (arming' <=> gate = "open") /\ (missed' <=> gate # "open")
    BY <2>2, ZenonT(60)
  <2> HIDE DEF job
  <2>5. WorkTypes' /\ HeaderValid'
    BY SMTT(60), <1>0, <1>1, <2>1, <2>2, <2>3, <2>4 DEF WorkOK, WorkTypes
  <2>6. ActiveSound'
    BY SMTT(60), <1>0, <1>1, <2>1, <2>2, <2>3, <2>4 DEF WorkOK, WorkTypes
  <2>7. IdleSound' /\ WorkTracksActive'
    <3>1. CASE ~future /\ tip # NoTip
      BY Zenon, <2>2, <2>4, <3>1
    <3>2. CASE ~(~future /\ tip # NoTip)
      BY ZenonT(30), <1>0, <2>2, <3>2 DEF WorkOK
    <3> QED  BY <3>1, <3>2, Zenon
  <2> QED  BY ZenonT(60), <2>5, <2>6, <2>7 DEF WorkOK
<1>6. ASSUME NEW id \in JobIDs, NEW valid \in NBitsValid, SetNewPrevHash(id, valid)
      PROVE  WorkOK'
  <2>1. /\ live /\ ~arming /\ tip.n < MaxTips
        /\ tip' = [n |-> tip.n + 1, job |-> id, valid |-> valid]
        /\ IF id \in DOMAIN jobs
           THEN /\ active' = jobs[id] /\ arming' = (gate = "open") /\ missed' = (gate # "open")
                /\ work' = work
           ELSE active' = NoJob /\ work' = NoWork /\ missed' = FALSE /\ arming' = arming
        /\ UNCHANGED <<session, live, shareTarget, usedIDs, gate>>
    BY <1>6, Zenon DEF SetNewPrevHash, NewTip, startJob
  <2>2. live' \in BOOLEAN /\ arming' \in BOOLEAN /\ missed' \in BOOLEAN
    BY <1>0, <2>1, Zenon DEF WorkOK, WorkTypes
  <2>3. tip' \in TipSet /\ tip' # NoTip /\ tip'.job = id
    <3>1. valid \in BOOLEAN /\ tip.n \in 0 .. MaxTips
      BY <1>0, <1>1, ZenonT(60) DEF WorkOK, WorkTypes
    <3>2. tip' \in TipSet /\ tip'.n = tip.n + 1 /\ tip'.job = id /\ tip'.valid = valid
      BY <2>1, <3>1 DEF TipSet
    <3>3. NoTip.n = 0
      BY Zenon DEF NoTip
    <3>4. tip' # NoTip
      BY <3>1, <3>2, <3>3
    <3> QED  BY Zenon, <3>2, <3>4
  <2>4. id \in DOMAIN jobs => jobs[id] \in JobSet /\ jobs[id].id = id
    BY <1>0, Zenon DEF TableOK
  <2>5. id \in DOMAIN jobs => (arming' <=> gate = "open") /\ (missed' <=> gate # "open")
    BY <2>1, ZenonT(60)
  <2>6. WorkTypes' /\ HeaderValid'
    BY SMTT(60), <1>0, <1>1, <2>1, <2>2, <2>3, <2>4, <2>5 DEF WorkOK, WorkTypes
  <2>7. ActiveSound'
    BY SMTT(60), <1>0, <1>1, <2>1, <2>2, <2>3, <2>4, <2>5 DEF WorkOK, WorkTypes
  <2>8. IdleSound' /\ WorkTracksActive'
    BY ZenonT(30), <2>1, <2>5
  <2> QED  BY ZenonT(60), <2>6, <2>7, <2>8 DEF WorkOK
<1>7. ASSUME NEW target \in Targets, SetTarget(target) PROVE WorkOK'
  <2>1. /\ live /\ ~arming /\ shareTarget' = target
        /\ IF active # NoJob
           THEN active' = active /\ arming' = (gate = "open") /\ missed' = (gate # "open")
           ELSE UNCHANGED <<active, arming, missed>>
        /\ UNCHANGED <<session, live, tip, usedIDs, gate, work>>
    BY <1>7, Zenon DEF SetTarget, startJob
  <2>2. live' \in BOOLEAN /\ arming' \in BOOLEAN /\ missed' \in BOOLEAN
    BY <1>0, <2>1, Zenon DEF WorkOK, WorkTypes
  <2>3. active # NoJob => (arming' <=> gate = "open") /\ (missed' <=> gate # "open")
    BY <2>1, ZenonT(60)
  <2>4. WorkTypes' /\ HeaderValid'
    BY SMTT(60), <1>0, <1>1, <2>1, <2>2, <2>3 DEF WorkOK, WorkTypes
  <2>5. ActiveSound'
    BY SMTT(60), <1>0, <1>1, <2>1, <2>2, <2>3 DEF WorkOK, WorkTypes
  <2>6. IdleSound' /\ WorkTracksActive'
    BY ZenonT(30), <1>0, <2>1, <2>3 DEF WorkOK
  <2> QED  BY Zenon, <2>4, <2>5, <2>6 DEF WorkOK
<1>8. CASE PriceLow \/ PriceIdlesWorkers \/ PriceRecovers
  <2>1. live' \in BOOLEAN /\ arming' \in BOOLEAN /\ missed' \in BOOLEAN
    BY <1>0, <1>8, Zenon DEF PriceLow, PriceIdlesWorkers, PriceRecovers, WorkOK, WorkTypes
  <2>2. CASE PriceLow
    BY ZenonT(60), <1>0, <1>1, <2>1, <2>2 DEF PriceLow, WorkOK, WorkTypes
  <2>3. CASE PriceIdlesWorkers
    BY ZenonT(60), <1>0, <1>1, <2>1, <2>3 DEF PriceIdlesWorkers, WorkOK, WorkTypes
  <2>4. CASE PriceRecovers
    BY ZenonT(60), <1>0, <1>1, <2>1, <2>4 DEF PriceRecovers, WorkOK, WorkTypes
  <2> QED  BY <1>8, <2>2, <2>3, <2>4, Zenon
<1>9. ASSUME UNCHANGED <<session, live, active, tip, shareTarget, usedIDs, arming, gate, work,
                         missed>>
      PROVE  WorkOK'
  BY ZenonT(60), <1>0, <1>9 DEF WorkOK, WorkTypes
<1>10. CASE Find \/ TakeShare \/ Refill \/ Done
  BY <1>9, <1>10, Zenon DEF Find, TakeShare, Refill, Done
<1>11. ASSUME NEW last, NEW claimed, SubmitSharesSuccess(last, claimed) PROVE WorkOK'
  BY <1>9, <1>11, Zenon DEF SubmitSharesSuccess
<1>12. ASSUME NEW seq, NEW category, SubmitSharesError(seq, category) PROVE WorkOK'
  BY <1>9, <1>12, Zenon DEF SubmitSharesError
<1> QED  BY SMTT(60), <1>2, <1>3, <1>4, <1>5, <1>6, <1>7, <1>8, <1>10, <1>11, <1>12
            DEF Next, PoolStep

\* The first state.
LEMMA InitSession == Init => SessionInv
<1> SUFFICES ASSUME Init PROVE SessionInv
  BY ZenonT(60)
<1>1. TypeOK
  <2>1. DOMAIN jobs = {} /\ DOMAIN inFlight = {}
    BY Zenon DEF Init, EmptyTable
  <2>2. live \in BOOLEAN /\ arming \in BOOLEAN /\ missed \in BOOLEAN
    BY ZenonT(60) DEF Init
  <2>3. tip \in TipSet
    BY DEF Init, NoTip, TipSet
  <2> QED  BY <2>1, <2>2, <2>3 DEF Init, TypeOK
<1>2. JobTableSound
  BY DEF Init, JobTableSound, EmptyTable
<1>3. ActiveSound /\ HeaderValid /\ IdleSound /\ WorkTracksActive
  BY Zenon DEF Init, ActiveSound, HeaderValid, IdleSound, WorkTracksActive, NoTip
<1>4. DOMAIN inFlight = {} /\ Cardinality({}) = 0
  BY FS_EmptySet, ZenonT(60) DEF Init
<1>5. VerdictsBounded /\ InFlightBounded /\ SessionBounded /\ YieldJustified
  BY <1>4 DEF Init, VerdictsBounded, InFlightBounded, SessionBounded, YieldJustified
<1> QED  BY <1>1, <1>2, <1>3, <1>5, ZenonT(60) DEF SessionInv

\* Every step of the session, its pool, the workers and the price goroutine.
LEMMA SessionStep == ASSUME SessionInv, [Next]_vars PROVE SessionInv'
<1>1. CASE Next
  <2>1. TableOK' /\ AccountOK' /\ CountTypes' /\ WorkOK'
    BY <1>1, JobTableStep, AccountStep, WorkStep, ZenonT(60)
  <2>2. merged' \in Seq(ShareSet)
    <3>1. merged \in Seq(ShareSet) /\ WorkTypes
      BY ZenonT(60) DEF SessionInv, TypeOK, WorkTypes
    <3>2. CASE Find
      <4> DEFINE share == FoundShare
      <4>1. work \in [session : 1 .. MaxSessions, job : JobSet, tip : TipSet, target : Nat]
        BY <3>1, <3>2, ZenonT(60) DEF Find, WorkTypes
      <4>2. share \in ShareSet
        BY <4>1 DEF FoundShare, ShareSet, JobSet, TipSet
      <4>3. merged' = Append(merged, share)
        BY <3>2, Zenon DEF Find
      <4> HIDE DEF share
      <4> QED  BY <3>1, <4>2, <4>3
    <3>3. CASE TakeShare
      BY <3>1, <3>3, HeadTail, ZenonT(60) DEF TakeShare
    <3>4. merged' = merged \/ Find \/ TakeShare
      <4>1. ASSUME NEW target, Open(target) \/ SetTarget(target) PROVE merged' = merged
        BY <4>1, Zenon DEF Open, SetTarget
      <4>2. ASSUME NEW id, NEW x, NewMiningJob(id, x) \/ SetNewPrevHash(id, x)
            PROVE  merged' = merged
        BY <4>2, ZenonT(60) DEF NewMiningJob, SetNewPrevHash
      <4>3. ASSUME NEW seq, NEW x, SubmitSharesSuccess(seq, x) \/ SubmitSharesError(seq, x)
            PROVE  merged' = merged
        BY SMTT(30), <4>3 DEF SubmitSharesSuccess, SubmitSharesError
      <4>4. CASE \/ End \/ YieldFailover \/ Arm \/ Refill
                 \/ PriceLow \/ PriceIdlesWorkers \/ PriceRecovers \/ Done
        BY Zenon, <4>4 DEF End, YieldFailover, Arm, Refill, PriceLow, PriceIdlesWorkers,
                    PriceRecovers, Done
      <4> QED  BY SMTT(60), <1>1, <4>1, <4>2, <4>3, <4>4 DEF Next, PoolStep
    <3> QED  BY <3>1, <3>2, <3>3, <3>4, ZenonT(60)
  <2>3. strays' \subseteq {"session", "tip"}
    <3>1. strays \subseteq {"session", "tip"}
      BY ZenonT(60) DEF SessionInv, TypeOK
    <3>2. strays' = strays \/ TakeShare
      BY ZenonT(60), <1>1
         DEF Next, PoolStep, Open, End, YieldFailover, Arm, NewMiningJob, SetNewPrevHash,
         SetTarget, Find, Refill, SubmitSharesSuccess, SubmitSharesError,
         PriceLow, PriceIdlesWorkers, PriceRecovers, Done
    <3>3. CASE TakeShare
      BY ZenonT(60), <3>1, <3>3 DEF TakeShare, StrayKinds
    <3> QED  BY Zenon, <3>1, <3>2, <3>3
  <2>4. TypeOK'
    BY ZenonT(60), <2>1, <2>2, <2>3 DEF TypeOK, TableOK, CountTypes, WorkOK, WorkTypes
  <2> QED  BY <2>1, <2>4, Zenon DEF SessionInv, TableOK, AccountOK, WorkOK
<1>2. CASE UNCHANGED vars
  <2>1. TypeOK'
    BY <1>2, ZenonT(60) DEF SessionInv, TypeOK
  <2>2. JobTableSound' /\ ActiveSound' /\ HeaderValid'
    BY <1>2, ZenonT(60) DEF SessionInv, JobTableSound, ActiveSound, HeaderValid
  <2>3. IdleSound' /\ WorkTracksActive'
    BY ZenonT(60), <1>2 DEF SessionInv, TypeOK, IdleSound, WorkTracksActive
  <2>4. VerdictsBounded' /\ InFlightBounded' /\ SessionBounded' /\ YieldJustified'
    BY <1>2, Zenon
    DEF SessionInv, VerdictsBounded, InFlightBounded, SessionBounded, YieldJustified
  <2> QED  BY <2>1, <2>2, <2>3, <2>4, ZenonT(60) DEF SessionInv
<1> QED  BY <1>1, <1>2, Zenon

\* The inductive invariant of the session.
THEOREM SessionInvariant == Spec => []SessionInv
<1>1. SessionInv /\ [Next]_vars => SessionInv'
  BY SessionStep, Zenon
<1> QED  BY InitSession, <1>1, PTL DEF Spec

\* Every variable of a session keeps its type (runSession's job table, share target,
\* sequence numbers and counters).
THEOREM SessionTypeCorrect == Spec => []TypeOK
<1>1. SessionInv => TypeOK
  BY ZenonT(60) DEF SessionInv
<1> QED  BY SessionInvariant, <1>1, PTL

\* storeBoundedJob and SetNewPrevHash keep the job map and its insertion order in step,
\* within jobsCap, whatever job_ids the pool sends or repeats.
THEOREM JobTableNeverDrifts == Spec => []JobTableSound
<1>1. SessionInv => JobTableSound
  BY ZenonT(60) DEF SessionInv
<1> QED  BY SessionInvariant, <1>1, PTL

\* The workers never grind a job on a tip the pool did not mean it for, across tip
\* changes, held future jobs, retargets, curtailment and reconnects.
THEOREM HeadersAlwaysValid == Spec => []HeaderValid
<1>1. SessionInv => HeaderValid
  BY Zenon DEF SessionInv
<1> QED  BY SessionInvariant, <1>1, PTL

\* updateWork keeps the workers on the active job, tip and target, across tip changes,
\* retargets, curtailment and reconnects, unless the gate or a missing target stopped it.
THEOREM WorkNeverLags == Spec => []WorkTracksActive
<1>1. SessionInv => WorkTracksActive
  BY Zenon DEF SessionInv
<1> QED  BY SessionInvariant, <1>1, PTL

\* No batch acknowledgement or reject, in any order, is counted for a share that was
\* not submitted or was settled before.
THEOREM NoVerdictCountedTwice == Spec => []VerdictsBounded
<1>1. SessionInv => VerdictsBounded
  BY Zenon DEF SessionInv
<1> QED  BY SessionInvariant, <1>1, PTL

\* The bookkeeping of open submits stays within submitTimesCap.
THEOREM OpenSubmitsBounded == Spec => []InFlightBounded
<1>1. SessionInv => InFlightBounded
  BY Zenon DEF SessionInv
<1> QED  BY SessionInvariant, <1>1, PTL

\* A pool is left for a poor yield only on enough shares of the session itself.
THEOREM YieldVerdictJustified == Spec => []YieldJustified
<1>1. SessionInv => YieldJustified
  BY Zenon DEF SessionInv
<1> QED  BY SessionInvariant, <1>1, PTL

\* A step that leaves the job table alone and brings no new share.
LEMMA QuietFresh ==
  ASSUME FreshInv, UNCHANGED <<session, jobs, active, tip, usedIDs, strays>>,
         Shares' \subseteq Shares
  PROVE  FreshInv'
BY ZenonT(60) DEF FreshInv

\* Work that is kept or withdrawn, and waiting shares that are kept or taken, are no new shares.
LEMMA NoNewShare ==
  ASSUME merged \in Seq(ShareSet), work' \in {work, NoWork},
         merged' = merged \/ (merged # <<>> /\ merged' = Tail(merged))
  PROVE  Shares' \subseteq Shares
<1>1. {merged'[i] : i \in DOMAIN merged'} \subseteq {merged[i] : i \in DOMAIN merged}
  BY HeadTail
<1>2. work' # NoWork => work # NoWork /\ FoundShare' = FoundShare
  BY Zenon DEF FoundShare
<1> QED  BY <1>1, <1>2, Zenon DEF Shares

\* A fresh id names no share, and a job that is named has had none.
LEMMA FreshStep == ASSUME SessionInv, FreshInv, [Next]_vars PROVE FreshInv'
<1> SUFFICES ASSUME FreshIDs PROVE FreshInv'
  BY Zenon DEF FreshInv
<1>0. /\ merged \in Seq(ShareSet) /\ usedIDs \subseteq JobIDs
      /\ \A i \in DOMAIN jobs : i \in JobIDs /\ jobs[i] \in JobSet /\ jobs[i].id = i
      /\ active \in JobSet \cup {NoJob} /\ tip.n \in 0 .. MaxTips /\ NoJob.id = 0
      /\ live \in BOOLEAN /\ arming \in BOOLEAN
  BY Zenon DEF SessionInv, TypeOK, NoJob, TipSet
<1>1. ASSUME NEW target \in Targets, Open(target) PROVE FreshInv'
  <2>1. /\ work = NoWork /\ work' = NoWork /\ merged' = merged
        /\ active' = NoJob /\ DOMAIN jobs' = {} /\ usedIDs' = usedIDs /\ strays' = strays
    BY <1>1, Zenon DEF Open, SessionInv, IdleSound, EmptyTable
  <2>2. Shares' \subseteq Shares
    BY <1>0, <2>1, NoNewShare, Zenon
  <2>3. \A s \in Shares : s.id # 0
    <3>1. \A s \in Shares : s.id \in usedIDs
      BY Zenon DEF FreshInv
    <3> QED  BY <1>0, <3>1, Zenon
  <2> QED  BY <1>0, <2>1, <2>2, <2>3, ZenonT(60) DEF FreshInv
<1>2. CASE End \/ YieldFailover \/ PriceLow \/ PriceIdlesWorkers \/ PriceRecovers \/ Refill
  <2>1. /\ work' \in {work, NoWork} /\ merged' = merged
        /\ UNCHANGED <<session, jobs, active, tip, usedIDs, strays>>
    BY <1>2, Zenon DEF End, YieldFailover, PriceLow, PriceIdlesWorkers, PriceRecovers, Refill
  <2> QED  BY <1>0, <2>1, NoNewShare, QuietFresh, ZenonT(60)
<1>3. CASE Arm
  <2>1. UNCHANGED <<session, jobs, active, tip, usedIDs, strays, merged>>
    BY <1>3, Zenon DEF Arm
  <2>2. CASE work' = work
    BY <1>0, <2>1, <2>2, NoNewShare, QuietFresh, ZenonT(60)
  <2>3. CASE work' # work
    <3>1. work'.session = session /\ work'.job = active /\ work'.tip = tip
      BY <1>3, <2>3, Zenon DEF Arm
    <3>2. FoundShare'.session = session /\ FoundShare'.id = active.id /\ FoundShare'.tip = tip.n
      BY <3>1, Zenon DEF FoundShare
    <3>3. Shares' \subseteq Shares \cup {FoundShare'}
      BY <2>1, Zenon DEF Shares
    <3>4. active # NoJob
      BY <1>3, Zenon DEF SessionInv, ActiveSound, Arm
    <3>5. active.id \in usedIDs
      BY <1>0, <3>4, ZenonT(60) DEF FreshInv, JobSet
    <3> QED  BY <2>1, <3>2, <3>3, <3>5, ZenonT(60) DEF FreshInv
  <2> QED  BY <2>2, <2>3, Zenon
<1>4. ASSUME NEW id \in JobIDs, NEW future \in BOOLEAN, NewMiningJob(id, future)
      PROVE  FreshInv'
  <2> DEFINE job == [id |-> id, future |-> future, born |-> tip.n]
  <2>1. /\ id \notin usedIDs /\ usedIDs' = usedIDs \cup {id}
        /\ UNCHANGED <<session, tip, work, merged, strays>>
        /\ \/ active' = active
           \/ ~future /\ active' = job
    BY <1>4, ZenonT(60) DEF NewMiningJob, startJob
  <2>2. DOMAIN jobs' \subseteq DOMAIN jobs \cup {id}
        /\ \A i \in DOMAIN jobs' : jobs'[i] = IF i = id THEN job ELSE jobs[i]
    BY SMTT(60), <1>4 DEF NewMiningJob, storeBoundedJob
  <2>3. Shares' = Shares
    BY <2>1, ZenonT(60) DEF Shares, FoundShare
  <2>4. job.id = id /\ job.future = future
    BY Zenon
  <2> HIDE DEF job
  <2>5. \A s \in Shares : s.id # id
    BY <2>1, Zenon DEF FreshInv
  <2>6. active'.id \in {active.id, id}
    BY <2>1, <2>4, Zenon
  <2>7. DOMAIN jobs' \subseteq usedIDs' /\ active'.id \in usedIDs' \cup {0}
    BY <2>1, <2>2, <2>6, Zenon DEF FreshInv
  <2>8. \A s \in Shares' :
          s.id \in usedIDs' /\ (s.id = active'.id => s.session = session' /\ s.tip = tip'.n)
    BY <2>1, <2>3, <2>5, <2>6, ZenonT(60) DEF FreshInv
  <2>9. ASSUME NEW i \in DOMAIN jobs', jobs'[i].future, jobs'[i].born = tip'.n
        PROVE  i # active'.id /\ \A s \in Shares' : s.id # i
    <3>1. CASE i = id
      <4>1. future
        BY <2>2, <2>4, <2>9, <3>1, ZenonT(60)
      <4>2. active.id # id
        BY <1>0, <2>1 DEF FreshInv
      <4> QED  BY <2>1, <2>3, <2>5, <3>1, <4>1, <4>2, ZenonT(60)
    <3>2. CASE i # id
      <4>1. i \in DOMAIN jobs /\ jobs'[i] = jobs[i]
        BY <2>2, <3>2, ZenonT(60)
      <4> QED  BY <2>1, <2>3, <2>6, <2>9, <3>2, <4>1, ZenonT(60) DEF FreshInv
    <3> QED  BY <3>1, <3>2, Zenon
  <2> QED  BY <2>1, <2>7, <2>8, <2>9, ZenonT(60) DEF FreshInv
<1>5. ASSUME NEW id \in JobIDs, NEW valid \in NBitsValid, SetNewPrevHash(id, valid)
      PROVE  FreshInv'
  <2>1. /\ tip'.n = tip.n + 1 /\ UNCHANGED <<session, usedIDs, merged, strays>>
        /\ DOMAIN jobs' \subseteq {id} \cap DOMAIN jobs
        /\ \A i \in DOMAIN jobs' : jobs'[i] = jobs[i]
    BY SMTT(60), <1>5 DEF SetNewPrevHash, NewTip
  <2>2. id \in DOMAIN jobs => /\ jobs[id].future /\ jobs[id].born = tip.n
                              /\ active' = jobs[id] /\ work' = work
    BY SMTT(60), <1>5 DEF SetNewPrevHash, Nameable, startJob
  <2>3. id \notin DOMAIN jobs => active' = NoJob /\ work' = NoWork
    BY <1>5 DEF SetNewPrevHash
  <2>4. Shares' \subseteq Shares
    BY <1>0, <2>1, <2>2, <2>3, NoNewShare, ZenonT(60)
  <2>5. \A s \in Shares' : s.id # active'.id
    BY SMTT(60), <1>0, <2>2, <2>3, <2>4 DEF FreshInv
  <2>6. \A i \in DOMAIN jobs' : jobs'[i].born # tip'.n
    BY SMTT(60), <1>0, <2>1, <2>2
  <2>7. active'.id \in usedIDs \cup {0} /\ DOMAIN jobs' \subseteq usedIDs
    BY SMTT(60), <1>0, <2>1, <2>2, <2>3 DEF FreshInv
  <2> QED  BY <2>1, <2>4, <2>5, <2>6, <2>7, ZenonT(60) DEF FreshInv
<1>6. ASSUME NEW target \in Targets, SetTarget(target) PROVE FreshInv'
  <2>1. /\ work' = work /\ merged' = merged
        /\ UNCHANGED <<session, jobs, active, tip, usedIDs, strays>>
    BY <1>6, Zenon DEF SetTarget, startJob
  <2> QED  BY <1>0, <2>1, NoNewShare, QuietFresh, ZenonT(60)
<1>7. ASSUME NEW x, NEW y, SubmitSharesSuccess(x, y) \/ SubmitSharesError(x, y)
      PROVE  FreshInv'
  <2>1. /\ work' = work /\ merged' = merged
        /\ UNCHANGED <<session, jobs, active, tip, usedIDs, strays>>
    BY <1>7, Zenon DEF SubmitSharesSuccess, SubmitSharesError
  <2> QED  BY <1>0, <2>1, NoNewShare, QuietFresh, ZenonT(60)
<1>8. CASE Find
  <2>1. /\ work # NoWork /\ work' = work /\ merged' = Append(merged, FoundShare)
        /\ UNCHANGED <<session, jobs, active, tip, usedIDs, strays>>
    BY <1>8, Zenon DEF Find
  <2>2. FoundShare' = FoundShare
    BY <2>1, ZenonT(60) DEF FoundShare
  <2>3. {merged'[i] : i \in DOMAIN merged'} = {merged[i] : i \in DOMAIN merged} \cup {FoundShare}
    <3>1. merged \in Seq(ShareSet) /\ merged' = Append(merged, FoundShare)  BY <1>0, <2>1, Zenon
    <3> QED  BY ONLY <3>1, Appended
  <2>4. Shares' \subseteq Shares
    BY <2>1, <2>2, <2>3, ZenonT(60) DEF Shares
  <2> QED  BY <2>1, <2>4, QuietFresh, ZenonT(60)
<1>9. CASE TakeShare
  <2>1. /\ merged # <<>> /\ merged' = Tail(merged) /\ work' = work
        /\ UNCHANGED <<session, jobs, active, tip, usedIDs>>
        /\ \/ strays' = strays
           \/ ~NotActive(Head(merged)) /\ strays' = strays \cup StrayKinds(Head(merged))
    BY <1>9, Zenon DEF TakeShare
  <2>2. Head(merged) \in Shares
    <3>1. merged \in Seq(ShareSet) /\ merged # <<>>  BY <1>0, <2>1, Zenon
    <3>2. 1 \in DOMAIN merged /\ Head(merged) = merged[1]  BY ONLY <3>1
    <3> QED  BY <3>2, Zenon DEF Shares
  <2>3. ~NotActive(Head(merged)) => StrayKinds(Head(merged)) = {}
    BY <2>2, Zenon DEF FreshInv, NotActive, StrayKinds
  <2>4. strays' = strays
    BY <2>1, <2>3, Zenon
  <2> QED  BY <1>0, <2>1, <2>4, NoNewShare, QuietFresh, ZenonT(30)
<1>10. CASE UNCHANGED vars
  BY <1>0, <1>10, NoNewShare, QuietFresh, Zenon
<1> QED  BY ZenonT(60), <1>1, <1>2, <1>3, <1>4, <1>5, <1>6, <1>7, <1>8, <1>9, <1>10
            DEF Next, PoolStep, Done

\* A pool that reuses no job_id is sent only shares of this session and of the current
\* tip, whatever waits in the share channel across tips, retargets and reconnects.
THEOREM SubmitsStayCurrent == Spec => []SubmitsCurrent
<1>1. Init => FreshInv
  <2>1. ASSUME Init PROVE Shares = {} /\ DOMAIN jobs = {} /\ active.id = 0 /\ strays = {}
    BY <2>1 DEF Init, Shares, EmptyTable, NoJob
  <2> QED  BY <2>1, Zenon DEF FreshInv
<1>2. FreshInv => SubmitsCurrent
  BY Zenon DEF FreshInv, SubmitsCurrent
<1>3. SessionInv /\ FreshInv /\ [Next]_vars => FreshInv'
  BY FreshStep, Zenon
<1> QED  BY <1>1, <1>2, <1>3, SessionInvariant, PTL DEF Spec
=============================================================================
