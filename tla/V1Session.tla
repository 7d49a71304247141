------------------------------ MODULE V1Session ------------------------------
(***************************************************************************)
(* The engine's side of Stratum V1: runSessionV1 of internal/engine/run.go *)
(* over the channels of the V1 client, with the submit goroutines it       *)
(* spawns (they outlive it), the workers and the price goroutine. The      *)
(* client appears as its promise: a new job goes to the end of its Jobs()  *)
(* (readyJobs) and may push out older ones, DifficultyUpdates()            *)
(* (readyDiffs) holds the difficulty announced last, and a difficulty is   *)
(* stored before it is announced. While DialURL negotiates, two goroutines *)
(* apply what the pool sends, the read loop and the one that replays the   *)
(* messages that came before the authorization; after it, the read loop.   *)
(* A handler that arms the workers reads the gate first and sets the work  *)
(* in a later step (applyJob).                                             *)
(***************************************************************************)
EXTENDS Integers, Sequences, FiniteSets

CONSTANTS
  Diffs,           \* difficulties the pool sets, naturals above BlockTarget
  BadDiffs,        \* those of them that convert to no target
  NBitsValid,      \* subset of BOOLEAN: does a job's nBits decode to a target
  JobNames,        \* job ids the pool uses, strings of its choice
  WireID,          \* the number each stands for: its decimal value or a 32-bit hash
  ReadyCap,        \* capacity of the Jobs() channel
  SubmitBurst,     \* submitBurst
  YieldMinJudged,  \* yieldFailoverMinJudged
  MaxJobs,         \* bound: jobs sent, over all sessions
  MaxRetargets,    \* bound: difficulties sent, over all sessions
  MaxSubmits,      \* bound: shares submitted
  MergedCap,       \* bound: found shares waiting
  MaxSessions      \* bound: sessions

\* The target of a job whose pool has set no difficulty.
BlockTarget == 1

\* What the proofs need of the constants.
SessionsOK ==
  /\ ReadyCap \in Nat /\ SubmitBurst \in Nat /\ MaxJobs \in Nat /\ MaxRetargets \in Nat
  /\ MaxSubmits \in Nat /\ MaxSessions \in Nat
  /\ Diffs \subseteq Nat \ {0} /\ NBitsValid \subseteq BOOLEAN
  /\ WireID \in [JobNames -> Nat]

VARIABLES
  session, phase,        \* its number; "off", "dial" (DialURL), "run", "parked" (reconnect wait)
  open,                  \* the client's channels are open
  sentIDs,               \* the wire id of every job the pool has sent, over all sessions
  sentDiffs,             \* how many difficulties it has sent
  poolDifficulty,        \* per session: SuggestedDifficulty()
  announcing,            \* per goroutine: the difficulty it has stored and not announced, or 0
  readyJobs, readyDiffs,
  haveJob, lastJob, appliedDifficulty,
  arming,                \* what applyJob is about to give the workers, or NoWork
  gate,                  \* price goroutine: "open", "raised" (gate stored), "idled"
  work, merged, tokens,
  flights,               \* submit goroutines
  submitted, accepted, rejected, transitions, failed,  \* engine-lifetime counts
  sessAccepted, sessRejected,                          \* this session's verdicts
  verdict,               \* "yield" when the session ended with errYieldDegraded
  newest,                \* history: the last job taken from readyJobs in this session
  missed,                \* history: something was not applied since the last job was
  announced,             \* history: the difficulty announced last in this session, or 0
  crossed,               \* history: the one stored last may have been announced earlier, or not at all
  strays,                \* history: shares submitted that were not found for the current job
  sessSubmitted          \* history: shares submitted in this session

clientVars == <<open, sentIDs, sentDiffs, poolDifficulty, announcing, readyJobs, readyDiffs,
                announced, crossed>>
jobVars == <<haveJob, lastJob, appliedDifficulty, arming>>
countVars == <<submitted, accepted, rejected, transitions, failed>>
sessVars == <<sessAccepted, sessRejected>>
sessHistory == <<newest, missed, strays, sessSubmitted>>
sessionVars == <<session, phase, clientVars, jobVars, gate, work, merged, tokens, flights,
                 countVars, sessVars, verdict, sessHistory>>

Sessions == 1 .. MaxSessions
Announcers == {"reader", "negotiator"}
Quiet == [g \in Announcers |-> 0]
NoPoolJob == [n |-> 0, name |-> "", valid |-> TRUE]
NoWork == [session |-> 0, job |-> NoPoolJob, target |-> 0]

SessionInit ==
  /\ session = 0 /\ phase = "off" /\ open = FALSE /\ sentIDs = <<>> /\ sentDiffs = 0
  /\ poolDifficulty = [s \in Sessions |-> 0] /\ announcing = Quiet
  /\ readyJobs = <<>> /\ readyDiffs = <<>>
  /\ haveJob = FALSE /\ lastJob = NoPoolJob /\ appliedDifficulty = 0 /\ arming = NoWork
  /\ gate = "open" /\ work = NoWork /\ merged = <<>> /\ tokens = SubmitBurst /\ flights = {}
  /\ submitted = 0 /\ accepted = 0 /\ rejected = 0 /\ transitions = 0 /\ failed = 0
  /\ sessAccepted = 0 /\ sessRejected = 0 /\ verdict = "none"
  /\ newest = NoPoolJob /\ missed = FALSE /\ announced = 0 /\ crossed = FALSE /\ strays = {}
  /\ sessSubmitted = 0

\* DialURL: the connection stands and the client negotiates; every variable of the
\* session starts afresh.
Connect ==
  /\ phase = "off" /\ session < MaxSessions
  /\ session' = session + 1 /\ phase' = "dial" /\ open' = TRUE
  /\ announcing' = Quiet /\ readyJobs' = <<>> /\ readyDiffs' = <<>> /\ announced' = 0 /\ crossed' = FALSE
  /\ haveJob' = FALSE /\ lastJob' = NoPoolJob /\ appliedDifficulty' = 0
  /\ tokens' = SubmitBurst /\ sessAccepted' = 0 /\ sessRejected' = 0
  /\ verdict' = "none" /\ newest' = NoPoolJob /\ missed' = FALSE /\ sessSubmitted' = 0
  /\ UNCHANGED <<sentIDs, sentDiffs, poolDifficulty, arming, gate, work, merged, flights,
                 countVars, strays>>

\* Negotiate returns, with the replay behind it, and runSessionV1 starts.
Negotiated ==
  /\ phase = "dial" /\ announcing["negotiator"] = 0
  /\ phase' = "run"
  /\ UNCHANGED <<session, clientVars, jobVars, gate, work, merged, tokens, flights, countVars,
                 sessVars, verdict, sessHistory>>

\* The session is over and the workers idle: runSessionV1 returned, or DialURL failed.
Return ==
  /\ phase' = "off" /\ open' = FALSE /\ work' = NoWork
  /\ UNCHANGED <<session, sentIDs, sentDiffs, poolDifficulty, announcing, readyJobs, readyDiffs,
                 announced, crossed, jobVars, gate, merged, tokens, flights, countVars, sessVars,
                 sessHistory>>

\* Negotiate fails only short of the authorization, when no message has been applied.
DialFails ==
  /\ phase = "dial" /\ readyJobs = <<>> /\ poolDifficulty[session] = 0
  /\ Return /\ UNCHANGED verdict

Running == phase = "run" /\ arming = NoWork

Shutdown == (Running \/ phase = "parked") /\ Return /\ UNCHANGED verdict

yieldDegraded(acc, rej) ==
  acc + rej >= YieldMinJudged /\ 10 * acc < 9 * (acc + rej)

\* The stats tick judges this session by its own verdicts.
YieldFailover ==
  /\ Running /\ yieldDegraded(sessAccepted, sessRejected)
  /\ verdict' = "yield"
  /\ Return

\* readyJobs is closed and drained: park for the wait the pool asked for, or return.
JobsClosed ==
  /\ Running /\ ~open /\ readyJobs = <<>>
  /\ phase' = "parked"
  /\ UNCHANGED <<session, clientVars, jobVars, gate, work, merged, tokens, flights, countVars,
                 sessVars, verdict, sessHistory>>
-----------------------------------------------------------------------------
\* Goroutine g may apply the pool's next message: the read loop until it has closed the
\* channels, the negotiator as long as it replays.
Applies(g) ==
  /\ announcing[g] = 0
  /\ IF g = "reader" THEN phase # "off" /\ open ELSE phase = "dial"

\* v1JobWireID: what the engine knows the pool's job id by, for a job and its shares.
v1JobWireID(name) == WireID[name]

\* The pool's notify reaches readyJobs; k older jobs are pushed out. A job has a number of
\* its own for the properties; its name the pool may have used before.
Notify(g, name, valid, k) ==
  /\ Applies(g) /\ open /\ Len(sentIDs) < MaxJobs
  /\ Len(readyJobs) - k < ReadyCap
  /\ sentIDs' = Append(sentIDs, v1JobWireID(name))
  /\ readyJobs' = Append(SubSeq(readyJobs, k + 1, Len(readyJobs)),
                         [n |-> Len(sentIDs) + 1, name |-> name, valid |-> valid])
  /\ UNCHANGED <<session, phase, open, sentDiffs, poolDifficulty, announcing, readyDiffs, announced,
                 crossed, jobVars, gate, work, merged, tokens, flights, countVars, sessVars,
                 verdict, sessHistory>>

\* handleSetDifficulty stores the difficulty before it takes sendMu ...
StoreDifficulty(g, d) ==
  /\ Applies(g) /\ sentDiffs < MaxRetargets
  /\ sentDiffs' = sentDiffs + 1
  /\ poolDifficulty' = [poolDifficulty EXCEPT ![session] = d]
  /\ announcing' = [announcing EXCEPT ![g] = d]
  /\ crossed' = \E h \in Announcers \ {g} : announcing[h] # 0
  /\ UNCHANGED <<session, phase, open, sentIDs, readyJobs, readyDiffs, announced, jobVars, gate,
                 work, merged, tokens, flights, countVars, sessVars, verdict, sessHistory>>

\* ... and under it announces its own one, in place of any that waits, unless the channels
\* are closed.
Announce(g) ==
  /\ phase # "off" /\ announcing[g] # 0
  /\ announcing' = [announcing EXCEPT ![g] = 0]
  /\ IF open THEN readyDiffs' = <<announcing[g]>> /\ announced' = announcing[g] /\ UNCHANGED crossed
     ELSE crossed' = TRUE /\ UNCHANGED <<readyDiffs, announced>>
  /\ UNCHANGED <<session, phase, open, sentIDs, sentDiffs, poolDifficulty, readyJobs, jobVars, gate,
                 work, merged, tokens, flights, countVars, sessVars, verdict, sessHistory>>

\* The client's read loop ends and closes the channels.
PoolCloses ==
  /\ Applies("reader")
  /\ open' = FALSE
  /\ UNCHANGED <<session, phase, sentIDs, sentDiffs, poolDifficulty, announcing, readyJobs, readyDiffs,
                 announced, crossed, jobVars, gate, work, merged, tokens, flights, countVars,
                 sessVars, verdict, sessHistory>>
-----------------------------------------------------------------------------
\* v1JobTarget: 0 stands for its error.
v1JobTarget(valid, d) ==
  IF ~valid \/ d \in BadDiffs THEN 0 ELSE IF d = 0 THEN BlockTarget ELSE d

\* A job is ignored while curtailed and skipped without a target; otherwise it becomes
\* the current job at the difficulty in force.
HandleJob ==
  /\ Running /\ readyJobs # <<>>
  /\ readyJobs' = Tail(readyJobs)
  /\ newest' = Head(readyJobs)
  /\ LET job == Head(readyJobs)
         target == v1JobTarget(job.valid, poolDifficulty[session])
     IN  IF gate = "open" /\ target # 0
         THEN /\ arming' = [session |-> session, job |-> job, target |-> target]
              /\ haveJob' = TRUE /\ lastJob' = job /\ appliedDifficulty' = poolDifficulty[session]
              /\ missed' = FALSE
         ELSE missed' = TRUE /\ UNCHANGED jobVars
  /\ UNCHANGED <<session, phase, open, sentIDs, sentDiffs, poolDifficulty, announcing, readyDiffs,
                 announced, crossed, gate, work, merged, tokens, flights, countVars, sessVars,
                 verdict, strays, sessSubmitted>>

KnownStored(d) == d = poolDifficulty[session]

\* A job or an earlier retarget has applied the difficulty.
Known(d) == d = appliedDifficulty

\* A retarget re-issues the last applied job, unless the difficulty is already applied.
HandleRetarget ==
  /\ Running /\ readyDiffs # <<>>
  /\ readyDiffs' = <<>>
  /\ LET d == Head(readyDiffs)
         target == v1JobTarget(lastJob.valid, d)
     IN  IF ~haveJob \/ gate # "open" \/ Known(d)
         THEN missed' = (missed \/ gate # "open") /\ UNCHANGED jobVars
         ELSE /\ appliedDifficulty' = d
              /\ arming' = IF target = 0 THEN NoWork
                           ELSE [session |-> session, job |-> lastJob, target |-> target]
              /\ missed' = (missed \/ target = 0)
              /\ UNCHANGED <<haveJob, lastJob>>
  /\ UNCHANGED <<session, phase, open, sentIDs, sentDiffs, poolDifficulty, announcing, readyJobs,
                 announced, crossed, gate, work, merged, tokens, flights, countVars, sessVars,
                 verdict, newest, strays, sessSubmitted>>

\* applyJob hands the work to the workers.
applyJob ==
  /\ arming # NoWork
  /\ work' = arming /\ arming' = NoWork
  /\ UNCHANGED <<session, phase, clientVars, haveJob, lastJob, appliedDifficulty, gate, merged,
                 tokens, flights, countVars, sessVars, verdict, sessHistory>>
-----------------------------------------------------------------------------
\* A worker finds a share; a full channel loses it.
Find ==
  /\ work # NoWork /\ Len(merged) < MergedCap
  /\ merged' = Append(merged, [n |-> work.job.n, id |-> v1JobWireID(work.job.name), target |-> work.target])
  /\ UNCHANGED <<session, phase, clientVars, jobVars, gate, work, tokens, flights, countVars,
                 sessVars, verdict, sessHistory>>

\* Left over from a dead session, or for a superseded job, as far as wire ids tell.
Superseded(share) == ~(haveJob /\ share.id = v1JobWireID(lastJob.name))

\* The session takes a share: drop it (superseded, no token) or spawn its submit, under
\* the name of the current job.
TakeShare ==
  /\ Running /\ merged # <<>> /\ submitted < MaxSubmits
  /\ merged' = Tail(merged)
  /\ LET share == Head(merged) IN
     \/ /\ Superseded(share) \/ tokens = 0
        /\ UNCHANGED <<tokens, flights, submitted, strays, sessSubmitted>>
     \/ /\ ~Superseded(share) /\ tokens > 0
        /\ tokens' = tokens - 1
        /\ submitted' = submitted + 1 /\ sessSubmitted' = sessSubmitted + 1
        /\ flights' = flights \cup {[seq |-> submitted + 1, session |-> session, target |-> share.target]}
        /\ strays' = IF share.n = lastJob.n THEN strays ELSE strays \cup {share}
  /\ UNCHANGED <<session, phase, clientVars, jobVars, gate, work, accepted, rejected,
                 transitions, failed, sessVars, verdict, newest, missed>>

\* One tick of the limiter's refill goroutine.
Refill ==
  /\ phase \notin {"off", "dial"} /\ tokens < SubmitBurst
  /\ tokens' = tokens + 1
  /\ UNCHANGED <<session, phase, clientVars, jobVars, gate, work, merged, flights, countVars,
                 sessVars, verdict, sessHistory>>

CreditsAny(f) == f.session <= session

\* A submit goroutine writes to the counters of the session that spawned it.
Credits(f) == f.session = session

SubmitAccepted(f) ==
  /\ f \in flights
  /\ flights' = flights \ {f}
  /\ accepted' = accepted + 1
  /\ sessAccepted' = IF Credits(f) THEN sessAccepted + 1 ELSE sessAccepted
  /\ UNCHANGED <<session, phase, clientVars, jobVars, gate, work, merged, tokens, submitted,
                 rejected, transitions, failed, sessRejected, verdict, sessHistory>>

\* A reject that a retarget explains; without a convertible difficulty there is no
\* current target to compare with.
transitionReject(category, issued, current) ==
  category = "difficulty" /\ current \notin BadDiffs \cup {0} /\ issued # current

SubmitRejected(f, category) ==
  /\ f \in flights
  /\ flights' = flights \ {f}
  /\ IF transitionReject(category, f.target, poolDifficulty[f.session])
     THEN /\ transitions' = transitions + 1
          /\ UNCHANGED <<rejected, sessRejected>>
     ELSE /\ rejected' = rejected + 1
          /\ sessRejected' = IF Credits(f) THEN sessRejected + 1 ELSE sessRejected
          /\ UNCHANGED transitions
  /\ UNCHANGED <<session, phase, clientVars, jobVars, gate, work, merged, tokens, submitted,
                 accepted, failed, sessAccepted, verdict, newest, missed, strays,
                 sessSubmitted>>

SubmitFailsCounted(f) ==
  /\ f \in flights
  /\ flights' = flights \ {f}
  /\ failed' = failed + 1 /\ rejected' = rejected + 1
  /\ UNCHANGED <<session, phase, clientVars, jobVars, gate, work, merged, tokens, submitted,
                 accepted, transitions, sessVars, verdict, sessHistory>>

\* No answer: the submit is neither accepted nor rejected.
SubmitFails(f) ==
  /\ f \in flights
  /\ flights' = flights \ {f}
  /\ failed' = failed + 1
  /\ UNCHANGED <<session, phase, clientVars, jobVars, gate, work, merged, tokens, submitted,
                 accepted, rejected, transitions, sessVars, verdict, sessHistory>>

-----------------------------------------------------------------------------
\* Price goroutine: store the gate, then idle the workers; recovery only opens the gate.
PriceLow ==
  /\ gate = "open"
  /\ gate' = "raised"
  /\ UNCHANGED <<session, phase, clientVars, jobVars, work, merged, tokens, flights, countVars,
                 sessVars, verdict, sessHistory>>

PriceIdlesWorkers ==
  /\ gate = "raised"
  /\ gate' = "idled" /\ work' = NoWork /\ missed' = TRUE
  /\ UNCHANGED <<session, phase, clientVars, jobVars, merged, tokens, flights, countVars,
                 sessVars, verdict, newest, strays, sessSubmitted>>

PriceRecovers ==
  /\ gate = "idled"
  /\ gate' = "open"
  /\ UNCHANGED <<session, phase, clientVars, jobVars, work, merged, tokens, flights, countVars,
                 sessVars, verdict, sessHistory>>

PoolStep ==
  \/ \E g \in Announcers :
       \/ \E name \in JobNames, valid \in NBitsValid, k \in 0 .. Len(readyJobs) : Notify(g, name, valid, k)
       \/ \E d \in Diffs : StoreDifficulty(g, d)
       \/ Announce(g)
  \/ PoolCloses

SubmitStep ==
  \E f \in flights :
    \/ SubmitAccepted(f)
    \/ \E category \in {"difficulty", "stale"} : SubmitRejected(f, category)
    \/ SubmitFails(f)

SessionDone == phase = "off" /\ session = MaxSessions /\ UNCHANGED sessionVars

SessionNext ==
  \/ Connect \/ Negotiated \/ DialFails \/ Shutdown \/ YieldFailover \/ JobsClosed
  \/ PoolStep \/ HandleJob \/ HandleRetarget \/ applyJob
  \/ Find \/ TakeShare \/ Refill \/ SubmitStep
  \/ PriceLow \/ PriceIdlesWorkers \/ PriceRecovers
  \/ SessionDone

SessionSpec == SessionInit /\ [][SessionNext]_sessionVars
-----------------------------------------------------------------------------
PoolJobs == [n : 1 .. MaxJobs, name : JobNames, valid : BOOLEAN]
Works == [session : Sessions, job : PoolJobs, target : Nat \ {0}]
Shares == [n : 1 .. MaxJobs, id : Nat, target : Nat]

\* The client's part of the state has its types, and its channels their capacities.
ClientTypeOK ==
  /\ open \in BOOLEAN
  /\ sentIDs \in Seq(Nat) /\ Len(sentIDs) <= MaxJobs /\ sentDiffs \in 0 .. MaxRetargets
  /\ poolDifficulty \in [Sessions -> Diffs \cup {0}]
  /\ announcing \in [Announcers -> Diffs \cup {0}] /\ announced \in Diffs \cup {0} /\ crossed \in BOOLEAN
  /\ readyJobs \in Seq(PoolJobs) /\ Len(readyJobs) <= ReadyCap
  /\ readyDiffs \in Seq(Diffs) /\ Len(readyDiffs) <= 1

\* The engine's part has its types, and no bucket exceeds its capacity.
EngineTypeOK ==
  /\ session \in 0 .. MaxSessions /\ phase \in {"off", "dial", "run", "parked"}
  /\ haveJob \in BOOLEAN /\ lastJob \in PoolJobs \cup {NoPoolJob} /\ appliedDifficulty \in Diffs \cup {0}
  /\ arming \in Works \cup {NoWork} /\ work \in Works \cup {NoWork}
  /\ gate \in {"open", "raised", "idled"}
  /\ merged \in Seq(Shares)
  /\ tokens \in 0 .. SubmitBurst
  /\ flights \subseteq [seq : 1 .. submitted, session : Sessions, target : Nat]
  /\ submitted \in 0 .. MaxSubmits /\ accepted \in Nat /\ rejected \in Nat
  /\ transitions \in Nat /\ failed \in Nat /\ sessAccepted \in Nat /\ sessRejected \in Nat
  /\ verdict \in {"none", "yield"} /\ newest \in PoolJobs \cup {NoPoolJob} /\ missed \in BOOLEAN
  /\ sessSubmitted \in 0 .. submitted

\* Every variable keeps its type, and no channel or bucket exceeds its capacity.
SessionTypeOK == ClientTypeOK /\ EngineTypeOK

\* Once the session has caught up with both channels, and nothing was skipped since the
\* last job, the workers grind the newest job at the pool's current difficulty, whatever
\* the order in which jobs and retargets were stored, announced and taken. Only if the two
\* goroutines of the negotiation set the difficulty at the same time, or the channels
\* closed under the replay, may it be the one announced last, until the next retarget.
WorkFollowsPool ==
  Running /\ gate = "open" /\ haveJob /\ ~missed /\ announcing = Quiet /\ readyJobs = <<>> /\ readyDiffs = <<>> =>
    \E d \in {poolDifficulty[session]} \cup IF crossed THEN {announced} ELSE {} :
      work = [session |-> session, job |-> newest, target |-> v1JobTarget(newest.valid, d)]

\* Every submit has one outcome: accepted, rejected, excused, failed or still open.
EveryShareAccounted ==
  accepted + rejected + transitions + failed + Cardinality(flights) = submitted

\* The submit goroutines of this session.
OwnFlights == {f \in flights : f.session = session}

\* No two jobs of the pool, over all sessions, go by the same wire id.
DistinctIDs == \A i, j \in DOMAIN sentIDs : sentIDs[i] = sentIDs[j] => i = j

\* A session is judged by its own submits: what the submit goroutines of an earlier
\* session report late is never held against, or credited to, the present pool; and as
\* long as the wire ids of the pool's jobs are distinct, no share is submitted for another
\* job than the one it was found for, which may be of an earlier session.
YieldOwnShares ==
  /\ sessAccepted + sessRejected + Cardinality(OwnFlights) <= sessSubmitted
  /\ DistinctIDs => strays = {}

-----------------------------------------------------------------------------
\* What SessionTypeOK leaves open: only a running session arms, an idle engine has no work, there
\* is a job when the session says so, and after the negotiation the read loop is alone.
PhaseInv ==
  /\ phase # "run" => arming = NoWork
  /\ phase = "off" => work = NoWork
  /\ phase # "off" => session \in Sessions
  /\ phase = "dial" => ~haveJob
  /\ phase \in {"run", "parked"} => announcing["negotiator"] = 0
  /\ phase # "off" /\ announcing["reader"] # 0 => open
  /\ haveJob => lastJob \in PoolJobs

\* Why WorkFollowsPool holds. What waits in readyDiffs is the difficulty announced last;
\* unless two goroutines crossed, one at most is announcing, and that is what was stored
\* last; the last job is the newest one taken, and it is armed or with the workers, at the
\* difficulty applied last.
FollowInv ==
  /\ \A s \in Sessions : s > session => poolDifficulty[s] = 0
  /\ readyDiffs # <<>> => Head(readyDiffs) = announced
  /\ phase # "off" /\ ~crossed =>
       \/ announcing = Quiet /\ announced = poolDifficulty[session]
       \/ /\ poolDifficulty[session] # 0
          /\ \E g \in Announcers : announcing = [Quiet EXCEPT ![g] = poolDifficulty[session]]
  /\ haveJob /\ ~missed =>
       /\ lastJob = newest
       /\ announcing = Quiet /\ readyDiffs = <<>> /\ phase # "off" =>
            appliedDifficulty \in {poolDifficulty[session], announced}
       /\ phase # "off" =>
            LET w == [session |-> session, job |-> lastJob,
                      target |-> v1JobTarget(lastJob.valid, appliedDifficulty)]
            IN  arming = w \/ (arming = NoWork /\ work = w)

\* Why the counts add up: a submit goroutine is new when it is spawned, and none is of a
\* session still to come.
CountInv ==
  /\ IsFiniteSet(flights) /\ \A f \in flights : f.session <= session
  /\ EveryShareAccounted
  /\ sessAccepted + sessRejected + Cardinality(OwnFlights) <= sessSubmitted

Elements(q) == {q[i] : i \in DOMAIN q}

\* A job that goes by the wire id recorded under its number.
Recorded(job) == job.n \in DOMAIN sentIDs /\ v1JobWireID(job.name) = sentIDs[job.n]

\* Why no share strays: every job in hand, and every share found, is recorded in sentIDs.
StrayInv ==
  /\ DistinctIDs => strays = {}
  /\ \A w \in {arming, work} \ {NoWork} : Recorded(w.job)
  /\ haveJob => Recorded(lastJob)
  /\ \A job \in Elements(readyJobs) : Recorded(job)
  /\ \A share \in Elements(merged) : share.n \in DOMAIN sentIDs /\ share.id = sentIDs[share.n]

-----------------------------------------------------------------------------
\* "Can never re-arm a stale job": the workers are only ever given the newest job that
\* the session has taken from the pool.
NeverRearmsStale == [][work' # work /\ work' # NoWork => work'.job = newest]_sessionVars
=============================================================================
