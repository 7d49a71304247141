----------------------------- MODULE SV2Session -----------------------------
(***************************************************************************)
(* The Stratum V2 session of internal/engine/run.go (runSession) with the  *)
(* goroutines it shares state with: the workers that grind its jobs, the   *)
(* price goroutine that curtails them, and the reconnect loop that idles   *)
(* them between sessions. The channel of found shares outlives a session.  *)
(* A handler is one action, except that startJob reads the curtailment     *)
(* gate first and gives the workers their work in a later step (Arm).      *)
(* Frames for a foreign channel (except SetNewPrevHash), of an unknown or  *)
(* of a misplaced type are dropped by the code and are no steps here.      *)
(***************************************************************************)
EXTENDS Integers, Sequences, FiniteSets, Functions

CONSTANTS
  JobIDs,          \* job_id values, naturals
  MaxTips,         \* bound: SetNewPrevHash messages per session
  Targets,         \* share targets; 0 is "none assigned"
  NBitsValid,      \* subset of BOOLEAN: does the tip's nBits decode to a target
  FreshIDs,        \* the pool never uses a job_id twice
  Curtailment,     \* the price goroutine is configured
  JobsCap,         \* jobsCap
  SubmitTimesCap,  \* submitTimesCap
  SubmitBurst,     \* submitBurst
  YieldMinJudged,  \* yieldFailoverMinJudged
  MaxSeq,          \* bound: shares taken per session
  MergedCap,       \* bound: found shares waiting
  MaxSessions      \* bound: sessions

ASSUME JobIDsAssumption == JobIDs \subseteq Nat
ASSUME CapAssumption ==
  /\ JobsCap \in Nat \ {0} /\ SubmitTimesCap \in Nat \ {0, 1}
  /\ SubmitBurst \in Nat \ {0} /\ YieldMinJudged \in Nat \ {0}
ASSUME BoundAssumption ==
  /\ MaxTips \in Nat /\ MaxSeq \in Nat /\ MergedCap \in Nat /\ MaxSessions \in Nat
ASSUME InputAssumption ==
  /\ Targets \subseteq Nat /\ 1 \notin Targets
  /\ NBitsValid \subseteq BOOLEAN /\ FreshIDs \in BOOLEAN /\ Curtailment \in BOOLEAN
  /\ 0 \notin JobIDs

VARIABLES
  session,        \* number of the current or last session
  live,           \* the session loop runs
  jobs,           \* job_id -> job, the outstanding jobs
  jobOrder,       \* their insertion order
  active,         \* job the workers should hash, or NoJob
  tip,            \* prevHash and nBits, or NoTip
  shareTarget,
  arming,         \* startJob read an open gate and is about to call updateWork
  gate,           \* price goroutine: "open", "raised" (gate stored), "idled" (workers idled)
  work,           \* what a worker grinds, or NoWork
  merged,         \* found shares, oldest first
  usedIDs,        \* job_ids the pool has used
  tokens,         \* submit limiter
  seqNum,
  inFlight,       \* submitTimes and submitTargets: seq -> target of the share
  submitted, accepted, rejected, transitions,  \* engine-lifetime counters
  startAccepted, startRejected,                \* their values at session start
  verdict,        \* "yield" when the session ended itself with errYieldDegraded
  strays,         \* history: "session", "tip": why a submitted share was not current
  missed          \* history: the workers were not given the active job, or it was taken away

jobVars == <<jobs, jobOrder, active, tip, shareTarget, usedIDs>>
countVars == <<submitted, accepted, rejected, transitions>>
startVars == <<startAccepted, startRejected>>
submitVars == <<tokens, seqNum, inFlight>>
vars == <<session, live, jobVars, arming, gate, work, merged, submitVars,
          countVars, startVars, verdict, strays, missed>>

NoJob == [id |-> 0, future |-> FALSE, born |-> 0]
NoTip == [n |-> 0, job |-> 0, valid |-> TRUE]
NoWork == [session |-> 0, job |-> NoJob, tip |-> NoTip, target |-> 0]

\* born is the tip at which the job was received: history.
JobSet == [id : JobIDs, future : BOOLEAN, born : 0 .. MaxTips]
TipSet == [n : 0 .. MaxTips, job : JobIDs \cup {0}, valid : BOOLEAN]

EmptyTable == [i \in {} |-> NoJob]

\* The network target decoded from nBits: no pool assigns it as a share target.
BlockTarget == 1

Init ==
  /\ session = 0 /\ live = FALSE
  /\ jobs = EmptyTable /\ jobOrder = <<>> /\ active = NoJob /\ tip = NoTip
  /\ shareTarget = 0
  /\ arming = FALSE /\ gate = "open"
  /\ work = NoWork /\ merged = <<>> /\ usedIDs = {}
  /\ tokens = SubmitBurst /\ seqNum = 0 /\ inFlight = [s \in {} |-> 0]
  /\ submitted = 0 /\ accepted = 0 /\ rejected = 0 /\ transitions = 0
  /\ startAccepted = 0 /\ startRejected = 0
  /\ verdict = "none" /\ strays = {} /\ missed = FALSE

\* The handshake succeeded: every session variable starts afresh.
Open(target) ==
  /\ ~live /\ session < MaxSessions
  /\ session' = session + 1 /\ live' = TRUE
  /\ jobs' = EmptyTable /\ jobOrder' = <<>> /\ active' = NoJob /\ tip' = NoTip
  /\ shareTarget' = target
  /\ tokens' = SubmitBurst /\ seqNum' = 0 /\ inFlight' = [s \in {} |-> 0]
  /\ startAccepted' = accepted /\ startRejected' = rejected
  /\ verdict' = "none" /\ missed' = FALSE
  /\ UNCHANGED <<usedIDs, arming, gate, work, merged, submitted, accepted, rejected,
                 transitions, strays>>

\* The session returns (connection closed, CloseChannel, read or send error, shutdown)
\* and the reconnect loop idles the workers.
End ==
  /\ live /\ ~arming
  /\ live' = FALSE
  /\ work' = NoWork
  /\ UNCHANGED <<session, jobVars, arming, gate, merged, submitVars, countVars,
                 startVars, verdict, strays, missed>>

yieldDegraded(acc, rej) ==
  acc + rej >= YieldMinJudged /\ 10 * acc < 9 * (acc + rej)

\* The stats tick finds the share acceptance of this session below the floor.
YieldFailover ==
  /\ live /\ ~arming
  /\ yieldDegraded(accepted - startAccepted, rejected - startRejected)
  /\ live' = FALSE
  /\ verdict' = "yield"
  /\ work' = NoWork
  /\ UNCHANGED <<session, jobVars, arming, gate, merged, submitVars, countVars,
                 startVars, strays, missed>>

\* startJob: record the job, then look at the gate.
startJob(job) ==
  /\ active' = job
  /\ arming' = (gate = "open")
  /\ missed' = (gate # "open")

\* updateWork has no target: the pool set none and the tip's nBits do not decode.
NoTarget == shareTarget = 0 /\ ~tip.valid

\* updateWork; without a target the workers are left untouched.
Arm ==
  /\ arming
  /\ arming' = FALSE
  /\ missed' = NoTarget
  /\ work' = IF NoTarget THEN work
             ELSE [session |-> session, job |-> active, tip |-> tip,
                   target |-> IF shareTarget = 0 THEN BlockTarget ELSE shareTarget]
  /\ UNCHANGED <<session, live, jobVars, gate, merged, submitVars, countVars,
                 startVars, verdict, strays>>

storeUnordered(job) ==
  /\ jobs' = [i \in DOMAIN jobs \cup {job.id} |-> IF i = job.id THEN job ELSE jobs[i]]
  /\ jobOrder' = IF Len(jobOrder) < JobsCap THEN Append(jobOrder, job.id)
                 ELSE Append(Tail(jobOrder), job.id)

\* A new job_id goes to the end of the order, a known one keeps its place; the
\* oldest is evicted beyond the cap.
storeBoundedJob(job) ==
  LET order == IF job.id \in DOMAIN jobs THEN jobOrder ELSE Append(jobOrder, job.id)
      evicted == IF Len(order) > JobsCap THEN {order[1]} ELSE {}
      kept == (DOMAIN jobs \cup {job.id}) \ evicted
  IN  /\ jobs' = [i \in kept |-> IF i = job.id THEN job ELSE jobs[i]]
      /\ jobOrder' = IF evicted = {} THEN order ELSE Tail(order)

\* A job with ntime_start is mined now if the tip is known, any other is held.
NewMiningJob(id, future) ==
  /\ live /\ ~arming
  /\ FreshIDs => id \notin usedIDs
  /\ LET job == [id |-> id, future |-> future, born |-> tip.n]
     IN  /\ storeBoundedJob(job)
         /\ IF ~future /\ tip # NoTip THEN startJob(job) ELSE UNCHANGED <<active, arming, missed>>
  /\ usedIDs' = IF FreshIDs THEN usedIDs \cup {id} ELSE {}
  /\ UNCHANGED <<session, live, tip, shareTarget, gate, work, merged, submitVars,
                 countVars, startVars, verdict, strays>>

\* The pool names a job: with fresh ids, a future job sent since the last tip.
Nameable(id) ==
  FreshIDs /\ id \in DOMAIN jobs => jobs[id].future /\ jobs[id].born = tip.n

NewTip(id, valid) == [n |-> tip.n + 1, job |-> id, valid |-> valid]

\* The tip changes and invalidates every job except the named one; an unknown job
\* stops the workers. The channel it is addressed to is not looked at.
SetNewPrevHash(id, valid) ==
  /\ live /\ ~arming /\ tip.n < MaxTips /\ Nameable(id)
  /\ tip' = NewTip(id, valid)
  /\ IF id \in DOMAIN jobs
     THEN startJob(jobs[id]) /\ UNCHANGED work
     ELSE active' = NoJob /\ work' = NoWork /\ missed' = FALSE /\ UNCHANGED arming
  /\ jobs' = [i \in {id} \cap DOMAIN jobs |-> jobs[i]]
  /\ jobOrder' = IF id \in DOMAIN jobs THEN <<id>> ELSE <<>>
  /\ UNCHANGED <<session, live, shareTarget, usedIDs, gate, merged, submitVars,
                 countVars, startVars, verdict, strays>>

SetTargetLazy(target) ==
  /\ live /\ ~arming
  /\ shareTarget' = target
  /\ UNCHANGED <<session, live, jobs, jobOrder, active, tip, usedIDs, arming, gate, work,
                 merged, submitVars, countVars, startVars, verdict, strays, missed>>

\* The new share target applies at once to the job being hashed.
SetTarget(target) ==
  /\ live /\ ~arming
  /\ shareTarget' = target
  /\ IF active # NoJob THEN startJob(active) ELSE UNCHANGED <<active, arming, missed>>
  /\ UNCHANGED <<session, live, jobs, jobOrder, tip, usedIDs, gate, work, merged,
                 submitVars, countVars, startVars, verdict, strays>>

\* The share a worker finds now.
FoundShare ==
  [session |-> work.session, id |-> work.job.id, tip |-> work.tip.n, target |-> work.target]

\* A worker finds a share; a full channel loses it.
Find ==
  /\ work # NoWork /\ Len(merged) < MergedCap
  /\ merged' = Append(merged, FoundShare)
  /\ UNCHANGED <<session, live, jobVars, arming, gate, work, submitVars, countVars,
                 startVars, verdict, strays, missed>>

\* Above the cap, entries older than half a cap's worth of sequence numbers go.
Reap(flight) ==
  IF Cardinality(DOMAIN flight) > SubmitTimesCap
  THEN Restrict(flight, {q \in DOMAIN flight : q >= seqNum + 1 - SubmitTimesCap \div 2})
  ELSE flight

StrayKinds(share) ==
  (IF share.session # session THEN {"session"} ELSE {})
    \cup (IF share.session = session /\ share.tip # tip.n THEN {"tip"} ELSE {})

NotActiveAny(share) == active = NoJob

\* Superseded or leftover: not for the job being hashed.
NotActive(share) == active = NoJob \/ share.id # active.id

\* The session takes a share: drop it (superseded job, no token) or submit it.
TakeShare ==
  /\ live /\ ~arming /\ merged # <<>> /\ seqNum < MaxSeq
  /\ seqNum' = seqNum + 1
  /\ merged' = Tail(merged)
  /\ LET share == Head(merged) IN
     \/ /\ NotActive(share) \/ tokens = 0
        /\ UNCHANGED <<tokens, inFlight, submitted, strays>>
     \/ /\ ~NotActive(share) /\ tokens > 0
        /\ tokens' = tokens - 1
        /\ submitted' = submitted + 1
        /\ inFlight' = Reap([q \in DOMAIN inFlight \cup {seqNum + 1} |->
                               IF q = seqNum + 1 THEN share.target ELSE inFlight[q]])
        /\ strays' = strays \cup StrayKinds(share)
  /\ UNCHANGED <<session, live, jobVars, arming, gate, work, accepted, rejected,
                 transitions, startVars, verdict, missed>>

\* One tick of the limiter's refill goroutine.
Refill ==
  /\ live /\ tokens < SubmitBurst
  /\ tokens' = tokens + 1
  /\ UNCHANGED <<session, live, jobVars, arming, gate, work, merged, seqNum, inFlight,
                 countVars, startVars, verdict, strays, missed>>

\* Locally settled submits are both the floor and the ceiling of what is credited.
Credit(claimed, settled) ==
  IF claimed = 0 \/ claimed > settled THEN settled ELSE claimed

\* A batch acknowledgement settles every submit up to last.
SubmitSharesSuccess(last, claimed) ==
  /\ live /\ ~arming /\ last <= seqNum
  /\ LET settled == {q \in DOMAIN inFlight : q <= last} IN
     /\ inFlight' = Restrict(inFlight, DOMAIN inFlight \ settled)
     /\ accepted' = accepted + Credit(claimed, Cardinality(settled))
  /\ UNCHANGED <<session, live, jobVars, arming, gate, work, merged, tokens, seqNum,
                 submitted, rejected, transitions, startVars, verdict, strays, missed>>

\* Only an outstanding submit can be rejected.
Settles(seq) == seq <= seqNum /\ seq \in DOMAIN inFlight

\* The share was ground under another target than the current one.
transitionReject(category, issued, current) ==
  category = "difficulty" /\ issued # 0 /\ issued # current

\* A reject settles one submit; one that a retarget explains is not held against the pool.
SubmitSharesError(seq, category) ==
  /\ live /\ ~arming /\ Settles(seq)
  /\ inFlight' = Restrict(inFlight, DOMAIN inFlight \ {seq})
  /\ IF seq \in DOMAIN inFlight /\ transitionReject(category, inFlight[seq], shareTarget)
     THEN transitions' = transitions + 1 /\ UNCHANGED rejected
     ELSE rejected' = rejected + 1 /\ UNCHANGED transitions
  /\ UNCHANGED <<session, live, jobVars, arming, gate, work, merged, tokens, seqNum,
                 submitted, accepted, startVars, verdict, strays, missed>>

\* Price goroutine: the gate is stored first, the workers are idled next; recovery
\* only opens the gate.
PriceLow ==
  /\ Curtailment /\ gate = "open"
  /\ gate' = "raised"
  /\ UNCHANGED <<session, live, jobVars, arming, work, merged, submitVars, countVars,
                 startVars, verdict, strays, missed>>

PriceIdlesWorkers ==
  /\ gate = "raised"
  /\ gate' = "idled" /\ work' = NoWork /\ missed' = (active # NoJob)
  /\ UNCHANGED <<session, live, jobVars, arming, merged, submitVars, countVars,
                 startVars, verdict, strays>>

PriceRecovers ==
  /\ gate = "idled"
  /\ gate' = "open"
  /\ UNCHANGED <<session, live, jobVars, arming, work, merged, submitVars, countVars,
                 startVars, verdict, strays, missed>>

Done ==
  /\ ~live /\ session = MaxSessions
  /\ UNCHANGED vars

PoolStep ==
  \/ \E id \in JobIDs, future \in BOOLEAN : NewMiningJob(id, future)
  \/ \E id \in JobIDs, valid \in NBitsValid : SetNewPrevHash(id, valid)
  \/ \E target \in Targets : SetTarget(target)
  \/ \E last \in 0 .. MaxSeq, claimed \in 0 .. MaxSeq : SubmitSharesSuccess(last, claimed)
  \/ \E seq \in 0 .. MaxSeq, category \in {"difficulty", "stale"} : SubmitSharesError(seq, category)

Next ==
  \/ \E target \in Targets : Open(target)
  \/ End \/ YieldFailover
  \/ PoolStep
  \/ Arm \/ Find \/ TakeShare \/ Refill
  \/ PriceLow \/ PriceIdlesWorkers \/ PriceRecovers
  \/ Done

Spec == Init /\ [][Next]_vars
-----------------------------------------------------------------------------
ShareSet == [session : 0 .. MaxSessions, id : JobIDs, tip : 0 .. MaxTips, target : Nat]

\* Every variable keeps its type; in particular no sequence number beyond the last
\* submit is in flight.
TypeOK ==
  /\ session \in 0 .. MaxSessions /\ live \in BOOLEAN
  /\ DOMAIN jobs \subseteq JobIDs /\ \A i \in DOMAIN jobs : jobs[i] \in JobSet /\ jobs[i].id = i
  /\ jobOrder \in Seq(JobIDs)
  /\ active \in JobSet \cup {NoJob}
  /\ tip \in TipSet
  /\ shareTarget \in Nat
  /\ arming \in BOOLEAN /\ gate \in {"open", "raised", "idled"}
  /\ work = NoWork \/ work \in [session : 1 .. MaxSessions, job : JobSet, tip : TipSet, target : Nat]
  /\ merged \in Seq(ShareSet)
  /\ usedIDs \subseteq JobIDs
  /\ tokens \in 0 .. SubmitBurst /\ seqNum \in 0 .. MaxSeq
  /\ DOMAIN inFlight \subseteq 1 .. seqNum /\ \A q \in DOMAIN inFlight : inFlight[q] \in Nat
  /\ submitted \in Nat /\ accepted \in Nat /\ rejected \in Nat /\ transitions \in Nat
  /\ startAccepted \in 0 .. accepted /\ startRejected \in 0 .. rejected
  /\ verdict \in {"none", "yield"}
  /\ strays \subseteq {"session", "tip"} /\ missed \in BOOLEAN

\* The job table and its insertion order never drift apart: the order lists exactly the
\* stored ids, each once, and never more than the cap.
JobTableSound ==
  /\ {jobOrder[i] : i \in DOMAIN jobOrder} = DOMAIN jobs
  /\ \A i, j \in DOMAIN jobOrder : jobOrder[i] = jobOrder[j] => i = j
  /\ Len(jobOrder) <= JobsCap

\* Workers only ever grind a job against a chain tip the pool meant it for: the job
\* arrived for that tip, or that tip's SetNewPrevHash named it.
HeaderValid ==
  work # NoWork =>
    /\ work.tip # NoTip
    /\ work.tip.job = work.job.id \/ (~work.job.future /\ work.job.born = work.tip.n)

\* Whatever the pool sends, the workers grind exactly the active job at the current tip
\* and share target, unless curtailment withheld that job or took it away, or neither a
\* share target nor the tip's nBits gave it a target.
WorkTracksActive ==
  live /\ ~arming /\ ~missed =>
    work = IF active = NoJob THEN NoWork
           ELSE [session |-> session, job |-> active, tip |-> tip,
                 target |-> IF shareTarget = 0 THEN BlockTarget ELSE shareTarget]

\* No share is credited or counted rejected that was not submitted, and none twice:
\* verdicts and open submits never exceed the submits.
VerdictsBounded ==
  accepted + rejected + transitions + Cardinality(DOMAIN inFlight) <= submitted

\* A pool that never answers cannot grow the bookkeeping of open submits.
InFlightBounded == Cardinality(DOMAIN inFlight) <= SubmitTimesCap

\* A yield verdict rests on shares of the session it ends, never on what an earlier
\* session's pool accepted or rejected.
YieldJustified == verdict = "yield" => seqNum >= YieldMinJudged

\* A job becomes active only at a tip it is valid for, and a tip change replaces it.
ActiveSound ==
  /\ active # NoJob =>
       /\ tip # NoTip
       /\ tip.job = active.id \/ (~active.future /\ active.born = tip.n)
  /\ arming => live /\ active # NoJob
  /\ live => session >= 1

\* Between sessions the workers are idle.
IdleSound == ~live => work = NoWork

\* The verdicts and open submits of this session never exceed the shares it took.
SessionBounded ==
  (accepted - startAccepted) + (rejected - startRejected)
    + Cardinality(DOMAIN inFlight) <= seqNum

\* The inductive invariant behind the invariants above.
SessionInv ==
  /\ TypeOK /\ JobTableSound /\ ActiveSound /\ HeaderValid
  /\ IdleSound /\ WorkTracksActive
  /\ VerdictsBounded /\ InFlightBounded /\ SessionBounded /\ YieldJustified

\* A pool that never reuses a job_id is only sent shares ground in this session for
\* the current tip.
SubmitsCurrent == FreshIDs => strays = {}

\* The shares that wait, and the one that may be found next.
Shares ==
  {merged[i] : i \in DOMAIN merged} \cup (IF work = NoWork THEN {} ELSE {FoundShare})

\* The inductive invariant behind SubmitsCurrent: a share with the id of the active job is
\* of this session and tip, and a job that can still be named has no shares.
FreshInv ==
  FreshIDs =>
    /\ DOMAIN jobs \subseteq usedIDs /\ active.id \in usedIDs \cup {0}
    /\ \A s \in Shares :
         s.id \in usedIDs /\ (s.id = active.id => s.session = session /\ s.tip = tip.n)
    /\ \A i \in DOMAIN jobs :
         jobs[i].future /\ jobs[i].born = tip.n => i # active.id /\ \A s \in Shares : s.id # i
    /\ strays = {}

\* "While curtailed ... the workers stay idle": once the price goroutine has idled them
\* no worker holds work until the gate opens again.
CurtailedIdle == gate = "idled" /\ ~arming => work = NoWork
=============================================================================
