--------------------------- MODULE V1SessionProofs ---------------------------
(***************************************************************************)
(* The engine's side of Stratum V1, for any number of sessions, jobs,      *)
(* difficulties and shares: the workers follow the pool, every share has   *)
(* one outcome, and a session is judged by its own shares.                 *)
(***************************************************************************)
EXTENDS V1Session, FiniteSetTheorems, TLAPS

USE DEF clientVars, jobVars, countVars, sessVars, sessHistory

\* The types of what is put into work: a target that is not 0 is a natural.
LEMMA TargetType ==
  ASSUME SessionsOK, NEW valid, NEW d \in Diffs \cup {0}, v1JobTarget(valid, d) # 0
  PROVE  v1JobTarget(valid, d) \in Nat \ {0}
  BY Zenon DEF SessionsOK, v1JobTarget, BlockTarget

\* Types at the start and across every step.
LEMMA TypeInit == ASSUME SessionsOK, SessionInit PROVE SessionTypeOK /\ PhaseInv
<1>1. SessionTypeOK
  <2>1. flights \subseteq [seq : 1 .. submitted, session : Sessions, target : Nat]
    BY Zenon DEF SessionInit
  <2>2. /\ readyJobs \in Seq(PoolJobs) /\ Len(readyJobs) <= ReadyCap
        /\ readyDiffs \in Seq(Diffs) /\ Len(readyDiffs) <= 1
        /\ merged \in Seq(Shares)
    BY DEF SessionInit, SessionsOK
  <2>3. /\ session \in 0 .. MaxSessions /\ sentIDs \in Seq(Nat) /\ Len(sentIDs) <= MaxJobs
        /\ sentDiffs \in 0 .. MaxRetargets /\ tokens \in 0 .. SubmitBurst
        /\ submitted \in 0 .. MaxSubmits /\ sessSubmitted \in 0 .. submitted
        /\ accepted \in Nat /\ rejected \in Nat /\ transitions \in Nat /\ failed \in Nat
        /\ sessAccepted \in Nat /\ sessRejected \in Nat
    BY DEF SessionInit, SessionsOK
  <2>4. /\ poolDifficulty \in [Sessions -> Diffs \cup {0}]
        /\ announcing \in [Announcers -> Diffs \cup {0}]
    BY Zenon DEF SessionInit, Quiet
  <2> QED  BY <2>1, <2>2, <2>3, <2>4, Zenon DEF SessionInit, SessionTypeOK, ClientTypeOK, EngineTypeOK
<1>2. PhaseInv  BY Zenon DEF SessionInit, PhaseInv, Quiet, Announcers
<1> QED  BY <1>1, <1>2, Zenon

\* Every step keeps the types and the phases.
LEMMA TypeStep ==
  ASSUME SessionsOK, SessionTypeOK, PhaseInv, [SessionNext]_sessionVars
  PROVE  SessionTypeOK' /\ PhaseInv'
<1>a. ASSUME UNCHANGED <<session, phase, jobVars, gate, work, merged, tokens, flights, countVars,
                         sessVars, verdict, sessHistory>>
      PROVE  EngineTypeOK'
  BY <1>a, ZenonT(120) DEF SessionTypeOK, EngineTypeOK
<1>c. ASSUME UNCHANGED clientVars PROVE ClientTypeOK'
  BY <1>c, ZenonT(60) DEF SessionTypeOK, ClientTypeOK
<1>r. ASSUME Return, UNCHANGED verdict \/ verdict' = "yield", arming = NoWork
      PROVE  SessionTypeOK' /\ PhaseInv'
  <2>1. ClientTypeOK'  BY <1>r, ZenonT(60) DEF Return, SessionTypeOK, ClientTypeOK
  <2>2. EngineTypeOK'  BY <1>r, ZenonT(60) DEF Return, SessionTypeOK, EngineTypeOK
  <2>3. PhaseInv'  BY <1>r, Zenon DEF Return, PhaseInv
  <2> QED  BY <2>1, <2>2, <2>3, Zenon DEF SessionTypeOK
<1>2. CASE DialFails \/ Shutdown \/ YieldFailover
  BY <1>2, <1>r, Zenon DEF DialFails, Shutdown, YieldFailover, Running, PhaseInv
<1>4. CASE Negotiated \/ JobsClosed
  <2>1. /\ phase' \in {"run", "parked"} /\ phase # "off" /\ announcing["negotiator"] = 0 /\ arming = NoWork
        /\ UNCHANGED <<session, clientVars, jobVars, gate, work, merged, tokens, flights, countVars,
                        sessVars, verdict, sessHistory>>
    BY <1>4, Zenon DEF Negotiated, JobsClosed, Running, PhaseInv
  <2>2. EngineTypeOK'  BY <2>1, ZenonT(60) DEF SessionTypeOK, EngineTypeOK
  <2>3. PhaseInv'  BY <2>1, Zenon DEF PhaseInv
  <2> QED  BY <1>c, <2>1, <2>2, <2>3, Zenon DEF SessionTypeOK
<1>5. CASE PoolStep
  <2>1. ASSUME NEW g \in Announcers, NEW name \in JobNames, NEW valid \in NBitsValid,
               NEW k \in 0 .. Len(readyJobs), Notify(g, name, valid, k)
        PROVE  SessionTypeOK' /\ PhaseInv'
    <3>0. /\ readyJobs \in Seq(PoolJobs) /\ Len(readyJobs) <= ReadyCap /\ sentIDs \in Seq(Nat)
          /\ Len(sentIDs) \in Nat /\ Len(sentIDs) < MaxJobs /\ MaxJobs \in Nat
      BY <2>1 DEF Notify, SessionsOK, SessionTypeOK, ClientTypeOK
    <3>1. [n |-> Len(sentIDs) + 1, name |-> name, valid |-> valid] \in PoolJobs
      <4>1. Len(sentIDs) + 1 \in 1 .. MaxJobs /\ valid \in BOOLEAN  BY <3>0 DEF SessionsOK
      <4> QED  BY <4>1, Zenon DEF PoolJobs
    <3>2. /\ SubSeq(readyJobs, k + 1, Len(readyJobs)) \in Seq(PoolJobs)
          /\ Len(SubSeq(readyJobs, k + 1, Len(readyJobs))) = Len(readyJobs) - k
      BY SMTT(60), <3>0
    <3>3. readyJobs' \in Seq(PoolJobs) /\ Len(readyJobs') <= ReadyCap
      BY SMTT(60), <2>1, <3>0, <3>1, <3>2 DEF Notify, SessionsOK
    <3>4. v1JobWireID(name) \in Nat  BY Zenon DEF v1JobWireID, SessionsOK
    <3>5. sentIDs' \in Seq(Nat) /\ Len(sentIDs') <= MaxJobs
      BY SMTT(60), <2>1, <3>0, <3>4 DEF Notify
    <3>6. UNCHANGED <<session, phase, open, sentDiffs, poolDifficulty, announcing, readyDiffs, announced,
                      crossed, jobVars, gate, work, merged, tokens, flights, countVars, sessVars,
                      verdict, sessHistory>>
      BY <2>1, Zenon DEF Notify
    <3>7. ClientTypeOK'  BY <3>3, <3>5, <3>6, ZenonT(60) DEF SessionTypeOK, ClientTypeOK
    <3>8. PhaseInv'  BY <3>6, Zenon DEF PhaseInv
    <3> QED  BY <1>a, <3>6, <3>7, <3>8, Zenon DEF SessionTypeOK
  <2>2. ASSUME NEW g \in Announcers, NEW d \in Diffs, StoreDifficulty(g, d)
        PROVE  SessionTypeOK' /\ PhaseInv'
    <3>1. sentDiffs' \in 0 .. MaxRetargets
      BY <2>2 DEF StoreDifficulty, SessionsOK, SessionTypeOK, ClientTypeOK
    <3>2. /\ poolDifficulty' \in [Sessions -> Diffs \cup {0}]
          /\ announcing' \in [Announcers -> Diffs \cup {0}] /\ crossed' \in BOOLEAN
      BY <2>2, ZenonT(60) DEF StoreDifficulty, SessionTypeOK, ClientTypeOK
    <3>3. UNCHANGED <<session, phase, open, sentIDs, readyJobs, readyDiffs, announced, jobVars, gate,
                      work, merged, tokens, flights, countVars, sessVars, verdict, sessHistory>>
      BY <2>2, Zenon DEF StoreDifficulty
    <3>4. ClientTypeOK'  BY <3>1, <3>2, <3>3, ZenonT(60) DEF SessionTypeOK, ClientTypeOK
    <3>5. \A h \in Announcers : h # g => announcing'[h] = announcing[h]
      BY <2>2, Zenon DEF StoreDifficulty, SessionTypeOK, ClientTypeOK
    <3>6. IF g = "reader" THEN phase # "off" /\ open ELSE phase = "dial"
      BY <2>2, Zenon DEF StoreDifficulty, Applies
    <3>7. g = "reader" \/ (g = "negotiator" /\ g # "reader")  BY Zenon DEF Announcers
    <3>8. phase' \in {"run", "parked"} => announcing'["negotiator"] = 0
      BY <3>3, <3>5, <3>6, <3>7, Zenon DEF Announcers, PhaseInv
    <3>9. phase' # "off" /\ announcing'["reader"] # 0 => open'
      BY <3>3, <3>5, <3>6, <3>7, Zenon DEF Announcers, PhaseInv
    <3>10. PhaseInv'  BY <3>3, <3>8, <3>9, Zenon DEF PhaseInv
    <3> QED  BY <1>a, <3>3, <3>4, <3>10, Zenon DEF SessionTypeOK
  <2>3. ASSUME NEW g \in Announcers, Announce(g) PROVE SessionTypeOK' /\ PhaseInv'
    <3>0. announcing[g] \in Diffs  BY <2>3, Zenon DEF Announce, SessionTypeOK, ClientTypeOK
    <3>1. readyDiffs' \in Seq(Diffs) /\ Len(readyDiffs') <= 1 /\ announced' \in Diffs \cup {0}
          /\ crossed' \in BOOLEAN
      <4>1. CASE open
        <5>1. readyDiffs' = <<announcing[g]>> /\ announced' = announcing[g] /\ crossed' = crossed
          BY <2>3, <4>1, Zenon DEF Announce
        <5>2. readyDiffs' \in Seq(Diffs) /\ Len(readyDiffs') <= 1  BY <3>0, <5>1
        <5> QED  BY <3>0, <5>1, <5>2, Zenon DEF SessionTypeOK, ClientTypeOK
      <4>2. CASE ~open  BY <2>3, <4>2, Zenon DEF Announce, SessionTypeOK, ClientTypeOK
      <4> QED  BY <4>1, <4>2, Zenon
    <3>2. announcing' \in [Announcers -> Diffs \cup {0}]
      BY <2>3, ZenonT(60) DEF Announce, SessionTypeOK, ClientTypeOK
    <3>3. UNCHANGED <<session, phase, open, sentIDs, sentDiffs, poolDifficulty, readyJobs, jobVars,
                      gate, work, merged, tokens, flights, countVars, sessVars, verdict,
                      sessHistory>>
      BY <2>3, Zenon DEF Announce
    <3>4. ClientTypeOK'  BY <3>1, <3>2, <3>3, ZenonT(60) DEF SessionTypeOK, ClientTypeOK
    <3>5. \A h \in Announcers : announcing'[h] \in {0, announcing[h]}
      BY <2>3, Zenon DEF Announce, SessionTypeOK, ClientTypeOK
    <3>6. announcing'["reader"] \in {0, announcing["reader"]}
          /\ announcing'["negotiator"] \in {0, announcing["negotiator"]}
      BY <3>5, Zenon DEF Announcers
    <3>7. PhaseInv'  BY <3>3, <3>6, Zenon DEF PhaseInv
    <3> QED  BY <1>a, <3>3, <3>4, <3>7, Zenon DEF SessionTypeOK
  <2>4. CASE PoolCloses
    <3>1. announcing'["reader"] = 0  BY <2>4, Zenon DEF PoolCloses, Applies
    <3>2. /\ open' = FALSE
          /\ UNCHANGED <<session, phase, sentIDs, sentDiffs, poolDifficulty, announcing, readyJobs,
                         readyDiffs, announced, crossed, jobVars, gate, work, merged, tokens, flights,
                         countVars, sessVars, verdict, sessHistory>>
      BY <2>4, Zenon DEF PoolCloses
    <3>3. ClientTypeOK'  BY <3>2, ZenonT(60) DEF SessionTypeOK, ClientTypeOK
    <3>4. PhaseInv'  BY <3>1, <3>2, Zenon DEF PhaseInv
    <3> QED  BY <1>a, <3>2, <3>3, <3>4, Zenon DEF SessionTypeOK
  <2> QED  BY <1>5, <2>1, <2>2, <2>3, <2>4, ZenonT(60) DEF PoolStep
<1> USE DEF SessionTypeOK, ClientTypeOK, EngineTypeOK, PhaseInv
<1>1. CASE Connect
  <2>1. session + 1 \in Sessions  BY <1>1 DEF Connect, SessionsOK, Sessions
  <2>2. session' \in 0 .. MaxSessions /\ session' \in Sessions
    BY <1>1, <2>1 DEF Connect, Sessions
  <2>3. SessionTypeOK'
    <3>1. /\ readyJobs' \in Seq(PoolJobs) /\ Len(readyJobs') <= ReadyCap
          /\ readyDiffs' \in Seq(Diffs) /\ Len(readyDiffs') <= 1
          /\ tokens' \in 0 .. SubmitBurst /\ sessSubmitted' \in 0 .. submitted'
          /\ sessAccepted' \in Nat /\ sessRejected' \in Nat
      BY <1>1 DEF Connect, SessionsOK
    <3>2. announcing' \in [Announcers -> Diffs \cup {0}]  BY <1>1, Zenon DEF Connect, Quiet
    <3> QED  BY <1>1, <2>2, <3>1, <3>2, ZenonT(60) DEF Connect
  <2>4. PhaseInv'
    <3>1. announcing'["reader"] = 0  BY <1>1, Zenon DEF Connect, Quiet, Announcers
    <3> QED  BY <1>1, <2>2, <3>1, Zenon DEF Connect
  <2> QED  BY <2>3, <2>4, Zenon
<1>6. CASE HandleJob
  <2> DEFINE job == Head(readyJobs)
             target == v1JobTarget(job.valid, poolDifficulty[session])
             armed == [session |-> session, job |-> job, target |-> target]
  <2>1. /\ job \in PoolJobs /\ readyJobs' \in Seq(PoolJobs) /\ Len(readyJobs') <= ReadyCap /\ newest' = job
        /\ session \in Sessions /\ poolDifficulty[session] \in Diffs \cup {0}
    <3>1. readyJobs # <<>> /\ readyJobs' = Tail(readyJobs) /\ newest' = job /\ phase = "run"
      BY <1>6, Zenon DEF HandleJob, Running
    <3>2. session \in Sessions /\ poolDifficulty[session] \in Diffs \cup {0}  BY <3>1, Zenon
    <3>3. job \in PoolJobs /\ Tail(readyJobs) \in Seq(PoolJobs) /\ Len(Tail(readyJobs)) <= ReadyCap
      BY <3>1 DEF SessionsOK
    <3> QED  BY <3>1, <3>2, <3>3, Zenon
  <2>2. CASE gate = "open" /\ target # 0
    <3>1. armed \in Works  BY <2>1, <2>2, TargetType, Zenon DEF Works
    <3>2. arming' = armed /\ haveJob' = TRUE /\ lastJob' = job
          /\ appliedDifficulty' = poolDifficulty[session] /\ missed' = FALSE
      BY <1>6, <2>2, ZenonT(30) DEF HandleJob
    <3> HIDE DEF job, armed
    <3> QED  BY <1>6, <2>1, <3>1, <3>2, ZenonT(60) DEF HandleJob, Running
  <2>3. CASE ~(gate = "open" /\ target # 0)
    <3>1. missed' = TRUE /\ UNCHANGED jobVars  BY <1>6, <2>3, Zenon DEF HandleJob
    <3> HIDE DEF job
    <3> QED  BY <1>6, <2>1, <3>1 DEF HandleJob, Running
  <2> QED  BY <2>2, <2>3, Zenon
<1>7. CASE HandleRetarget
  <2> DEFINE d == Head(readyDiffs)
             target == v1JobTarget(lastJob.valid, d)
             armed == [session |-> session, job |-> lastJob, target |-> target]
  <2>1. /\ d \in Diffs /\ readyDiffs' = <<>> /\ readyDiffs' \in Seq(Diffs) /\ Len(readyDiffs') = 0
        /\ session \in Sessions /\ phase = "run" /\ phase' = phase
    BY SMTT(60), <1>7 DEF HandleRetarget, Running, SessionsOK
  <2>2. CASE ~haveJob \/ gate # "open" \/ Known(d)
    <3>1. missed' \in BOOLEAN /\ UNCHANGED jobVars  BY <1>7, <2>2, ZenonT(60) DEF HandleRetarget
    <3> QED  BY <1>7, <2>1, <3>1 DEF HandleRetarget
  <2>3. CASE ~(~haveJob \/ gate # "open" \/ Known(d))
    <3>1. /\ appliedDifficulty' = d /\ arming' = (IF target = 0 THEN NoWork ELSE armed)
          /\ missed' \in BOOLEAN /\ UNCHANGED <<haveJob, lastJob>>
      BY <1>7, <2>3, ZenonT(60) DEF HandleRetarget
    <3>2. target # 0 => armed \in Works  BY <2>1, <2>3, TargetType, ZenonT(60) DEF Works
    <3>3. arming' \in Works \cup {NoWork}  BY <3>1, <3>2, ZenonT(60)
    <3> HIDE DEF d
    <3> QED  BY SMTT(60), <1>7, <2>1, <3>1, <3>3 DEF HandleRetarget
  <2> QED  BY <2>2, <2>3, ZenonT(60)
<1>8. CASE applyJob  BY SMTT(60), <1>8 DEF applyJob
<1>9. CASE Find
  <2>1. work \in Works  BY <1>9, Zenon DEF Find
  <2>2. [n |-> work.job.n, id |-> v1JobWireID(work.job.name), target |-> work.target] \in Shares
    BY <2>1, ZenonT(60) DEF Works, PoolJobs, Shares, v1JobWireID, SessionsOK
  <2>3. merged' \in Seq(Shares)
    BY <1>9, <2>2 DEF Find
  <2> QED  BY <1>9, <2>3 DEF Find
<1>10. CASE TakeShare
  <2> DEFINE share == Head(merged)
  <2>1. /\ share \in Shares
        /\ merged' \in Seq(Shares)
    <3>1. merged # <<>> /\ merged' = Tail(merged)  BY <1>10, ZenonT(60) DEF TakeShare
    <3> QED  BY <3>1
  <2>2. CASE UNCHANGED <<tokens, flights, submitted, strays, sessSubmitted>>
    BY SMTT(60), <1>10, <2>1, <2>2 DEF TakeShare
  <2>3. CASE /\ tokens > 0 /\ tokens' = tokens - 1
             /\ submitted' = submitted + 1 /\ sessSubmitted' = sessSubmitted + 1
             /\ flights' = flights \cup {[seq |-> submitted + 1, session |-> session,
                                         target |-> share.target]}
    <3>1. submitted' \in 0 .. MaxSubmits /\ session \in Sessions
      BY <1>10, <2>3 DEF TakeShare, Running, SessionsOK
    <3>2. [seq |-> submitted + 1, session |-> session, target |-> share.target]
            \in [seq : 1 .. submitted', session : Sessions, target : Nat]
      <4>1. share.target \in Nat  BY <2>1, ZenonT(60) DEF Shares
      <4>2. submitted + 1 \in 1 .. submitted'  BY SMTT(60), <2>3, <3>1
      <4> QED  BY <3>1, <4>1, <4>2, ZenonT(60)
    <3>3. [seq : 1 .. submitted, session : Sessions, target : Nat]
            \subseteq [seq : 1 .. submitted', session : Sessions, target : Nat]
      BY SMTT(60), <2>3
    <3>4. flights' \subseteq [seq : 1 .. submitted', session : Sessions, target : Nat]
      BY <2>3, <3>2, <3>3, Zenon
    <3> QED  BY <1>10, <2>1, <2>3, <3>1, <3>4 DEF TakeShare, SessionsOK
  <2> QED  BY <1>10, <2>2, <2>3, ZenonT(60) DEF TakeShare
<1>11. CASE Refill  BY <1>11 DEF Refill, SessionsOK
<1>12. CASE SubmitStep
  <2>1. PICK f \in flights : \/ SubmitAccepted(f) \/ SubmitFails(f)
                            \/ \E category \in {"difficulty", "stale"} : SubmitRejected(f, category)
    BY <1>12, ZenonT(60) DEF SubmitStep
  <2>2. CASE SubmitAccepted(f)  BY SMTT(60), <2>2 DEF SubmitAccepted
  <2>3. CASE SubmitFails(f)  BY SMTT(60), <2>3 DEF SubmitFails
  <2>4. ASSUME NEW category, SubmitRejected(f, category) PROVE SessionTypeOK' /\ PhaseInv'
    <3>1. /\ flights' \subseteq flights
          /\ rejected' \in Nat /\ sessRejected' \in Nat /\ transitions' \in Nat
      <4>1. /\ flights' = flights \ {f}
            /\ rejected' \in {rejected, rejected + 1}
            /\ sessRejected' \in {sessRejected, sessRejected + 1}
            /\ transitions' \in {transitions, transitions + 1}
        BY <2>4, Zenon DEF SubmitRejected
      <4> QED  BY SMTT(60), <4>1
    <3> QED  BY SMTT(60), <2>4, <3>1 DEF SubmitRejected
  <2> QED  BY <2>1, <2>2, <2>3, <2>4, ZenonT(60)
<1>13. CASE PriceLow \/ PriceIdlesWorkers \/ PriceRecovers
  <2>1. CASE PriceLow  BY SMTT(60), <2>1 DEF PriceLow
  <2>2. CASE PriceIdlesWorkers  BY SMTT(60), <2>2 DEF PriceIdlesWorkers
  <2>3. CASE PriceRecovers  BY SMTT(60), <2>3 DEF PriceRecovers
  <2> QED  BY <1>13, <2>1, <2>2, <2>3, ZenonT(60)
<1>14. CASE SessionDone \/ UNCHANGED sessionVars
  <2>1. UNCHANGED sessionVars  BY <1>14, Zenon DEF SessionDone
  <2> QED  BY <2>1 DEF sessionVars
<1> QED
  BY <1>1, <1>2, <1>4, <1>5, <1>6, <1>7, <1>8, <1>9, <1>10, <1>11, <1>12,
     <1>13, <1>14, ZenonT(60)
  DEF SessionNext

\* Every variable of the session keeps its type; the queues and the bucket stay in bounds.
THEOREM SessionTypes == ASSUME SessionsOK PROVE SessionSpec => []SessionTypeOK
  BY TypeInit, TypeStep, PTL DEF SessionSpec
-----------------------------------------------------------------------------
\* The last job at the difficulty applied last.
Current ==
  [session |-> session, job |-> lastJob, target |-> v1JobTarget(lastJob.valid, appliedDifficulty)]

\* What FollowInv says of the two announcers.
Agreed ==
  \/ announcing = Quiet /\ announced = poolDifficulty[session]
  \/ /\ poolDifficulty[session] # 0
     /\ \E g \in Announcers : announcing = [Quiet EXCEPT ![g] = poolDifficulty[session]]

\* A goroutine stores a difficulty, alone or while the other one is announcing.
LEMMA StoreAgrees ==
  ASSUME SessionsOK, SessionTypeOK, PhaseInv, NEW g \in Announcers, NEW d \in Diffs,
         StoreDifficulty(g, d), ~crossed'
  PROVE  Agreed'
<1>1. session \in Sessions  BY Zenon DEF StoreDifficulty, Applies, PhaseInv
<1>2. poolDifficulty'[session'] = d /\ announcing' = [announcing EXCEPT ![g] = d]
  BY <1>1, Zenon DEF StoreDifficulty, SessionTypeOK, ClientTypeOK, EngineTypeOK
<1>3. \A h \in Announcers : announcing[h] = 0  BY Zenon DEF StoreDifficulty, Applies
<1>4. announcing = Quiet  BY <1>3, ZenonT(30) DEF SessionTypeOK, ClientTypeOK, EngineTypeOK, Quiet
<1>5. d # 0  BY DEF SessionsOK
<1> QED  BY <1>2, <1>4, <1>5, Zenon DEF Agreed

\* It announces it.
LEMMA AnnounceAgrees ==
  ASSUME SessionsOK, SessionTypeOK, PhaseInv, NEW g \in Announcers, Announce(g), ~crossed', Agreed
  PROVE  Agreed'
<1>1. /\ announcing[g] # 0 /\ announcing' = [announcing EXCEPT ![g] = 0] /\ announced' = announcing[g]
      /\ UNCHANGED <<session, poolDifficulty>>
  BY Zenon DEF Announce
<1>2. announcing # Quiet  BY <1>1, Zenon DEF Quiet
<1>3. PICK h \in Announcers : announcing = [Quiet EXCEPT ![h] = poolDifficulty[session]]
  BY <1>2, Zenon DEF Agreed
<1>4. h = g  BY <1>1, <1>3, Zenon DEF Quiet
<1>5. announcing' = Quiet  BY <1>1, <1>3, <1>4 DEF Quiet
<1>6. announced' = poolDifficulty[session]  BY <1>1, <1>3, <1>4, Zenon DEF Quiet
<1> QED  BY <1>1, <1>5, <1>6, Zenon DEF Agreed

\* Every step keeps the last job armed, or with the workers, as FollowInv says.
LEMMA FollowStep ==
  ASSUME SessionsOK, SessionTypeOK, PhaseInv, FollowInv, [SessionNext]_sessionVars
  PROVE  FollowInv'
<1> DEFINE Fresh == \A s \in Sessions : s > session => poolDifficulty[s] = 0
           Waits == readyDiffs # <<>> => Head(readyDiffs) = announced
           Follows ==
      /\ lastJob = newest
      /\ announcing = Quiet /\ readyDiffs = <<>> /\ phase # "off" =>
           appliedDifficulty \in {poolDifficulty[session], announced}
      /\ phase # "off" => arming = Current \/ (arming = NoWork /\ work = Current)
<1>a. FollowInv <=> /\ Fresh /\ Waits /\ (phase # "off" /\ ~crossed => Agreed)
                    /\ haveJob /\ ~missed => Follows
  BY Zenon DEF FollowInv, Current, Agreed
<1>b. FollowInv' <=> /\ Fresh' /\ Waits' /\ (phase' # "off" /\ ~crossed' => Agreed')
                     /\ haveJob' /\ ~missed' => Follows'
  BY Zenon DEF FollowInv, Current, Agreed
<1>c. haveJob \in BOOLEAN /\ missed \in BOOLEAN /\ crossed \in BOOLEAN  BY Zenon DEF SessionTypeOK, ClientTypeOK, EngineTypeOK
<1>d. ASSUME UNCHANGED <<session, phase, poolDifficulty, announcing, readyDiffs, announced, crossed,
                         haveJob, lastJob, appliedDifficulty, arming, work, newest, missed>>
      PROVE  FollowInv'
  BY <1>d, Zenon DEF FollowInv
<1>1. CASE Connect
  <2>1. /\ announcing' = Quiet /\ announced' = 0 /\ readyDiffs' = <<>> /\ haveJob' = FALSE
        /\ UNCHANGED poolDifficulty /\ session' = session + 1 /\ session < MaxSessions
    BY <1>1, Zenon DEF Connect
  <2>2. session \in Nat /\ session + 1 \in Sessions /\ session + 1 > session
    BY <2>1 DEF SessionTypeOK, ClientTypeOK, EngineTypeOK, SessionsOK, Sessions
  <2>3. poolDifficulty'[session'] = 0  BY <1>a, <2>1, <2>2, Zenon
  <2>4. Agreed'  BY <2>1, <2>3, Zenon DEF Agreed
  <2>5. Fresh'  BY <1>a, <2>1, <2>2 DEF Sessions
  <2> QED  BY <1>b, <2>1, <2>4, <2>5, Zenon
<1>2. CASE Shutdown \/ YieldFailover \/ DialFails
  <2>1. Return  BY <1>2, Zenon DEF Shutdown, YieldFailover, DialFails
  <2> QED  BY <2>1, Zenon DEF Return, FollowInv
<1>3. CASE JobsClosed \/ Negotiated
  <2>1. /\ UNCHANGED <<session, poolDifficulty, announcing, readyDiffs, announced, crossed, haveJob,
                        lastJob, appliedDifficulty, arming, work, newest, missed>>
        /\ phase # "off" /\ phase' # "off"
    BY <1>3, Zenon DEF JobsClosed, Negotiated, Running
  <2>2. Current' = Current /\ (Agreed' <=> Agreed)  BY <2>1, Zenon DEF Current, Agreed
  <2> QED  BY <1>a, <1>b, <2>1, <2>2, Zenon
<1>4. CASE PoolStep
  <2>1. ASSUME NEW g, NEW name, NEW valid, NEW k, Notify(g, name, valid, k) PROVE FollowInv'
    BY <1>d, <2>1, Zenon DEF Notify
  <2>2. ASSUME NEW g \in Announcers, NEW d \in Diffs, StoreDifficulty(g, d) PROVE FollowInv'
    <3>1. /\ announcing' = [announcing EXCEPT ![g] = d]
          /\ poolDifficulty' = [poolDifficulty EXCEPT ![session] = d]
          /\ phase # "off"
          /\ UNCHANGED <<session, phase, readyDiffs, announced, haveJob, lastJob,
                         appliedDifficulty, arming, work, newest, missed>>
      BY <2>2, Zenon DEF StoreDifficulty, Applies
    <3>2. announcing' # Quiet
      <4>1. announcing'[g] = d /\ Quiet[g] = 0 /\ d # 0
        BY <3>1 DEF SessionTypeOK, ClientTypeOK, Quiet, SessionsOK
      <4> QED  BY <4>1, Zenon
    <3>3. Fresh'  BY <1>a, <3>1 DEF SessionTypeOK, ClientTypeOK, EngineTypeOK, Sessions
    <3>4. haveJob' /\ ~missed' => Follows'  BY <1>a, <3>1, <3>2, Zenon DEF Current
    <3>5. ~crossed' => Agreed'  BY <2>2, StoreAgrees, Zenon
    <3> QED  BY <1>a, <1>b, <3>1, <3>3, <3>4, <3>5, Zenon
  <2>3. ASSUME NEW g \in Announcers, Announce(g) PROVE FollowInv'
    <3>1. /\ UNCHANGED <<session, phase, poolDifficulty, haveJob, lastJob, appliedDifficulty, arming,
                         work, newest, missed>>
          /\ phase # "off" /\ announcing[g] # 0
          /\ IF open THEN readyDiffs' = <<announcing[g]>> /\ announced' = announcing[g]
                           /\ UNCHANGED crossed
             ELSE crossed' = TRUE /\ UNCHANGED <<readyDiffs, announced>>
      BY <2>3, Zenon DEF Announce
    <3>2. CASE open
      <4>1. readyDiffs' # <<>> /\ Head(readyDiffs') = announced'  BY <3>1, <3>2
      <4>2. ~crossed' => Agreed'  BY <1>a, <2>3, <3>1, <3>2, AnnounceAgrees, Zenon
      <4>3. haveJob' /\ ~missed' => Follows'  BY <1>a, <3>1, <4>1, Zenon DEF Current
      <4> QED  BY <1>a, <1>b, <3>1, <4>1, <4>2, <4>3, Zenon
    <3>3. CASE ~open
      <4>1. phase = "dial"
        BY <3>1, <3>3, Zenon DEF PhaseInv, SessionTypeOK, ClientTypeOK, EngineTypeOK, Announcers
      <4>2. ~haveJob'  BY <3>1, <4>1, Zenon DEF PhaseInv
      <4> QED  BY <1>a, <1>b, <3>1, <3>3, <4>2, Zenon
    <3> QED  BY <3>2, <3>3, Zenon
  <2>4. CASE PoolCloses  BY <1>d, <2>4, Zenon DEF PoolCloses
  <2> QED  BY <1>4, <2>1, <2>2, <2>3, <2>4, Zenon DEF PoolStep
<1>5. CASE HandleJob
  <2> DEFINE job == Head(readyJobs)
             target == v1JobTarget(job.valid, poolDifficulty[session])
  <2>1. /\ UNCHANGED <<session, phase, poolDifficulty, announcing, readyDiffs, announced, crossed,
                        work>>
        /\ newest' = job
    BY <1>5, Zenon DEF HandleJob
  <2>2. Fresh' /\ Waits' /\ (phase' # "off" /\ ~crossed' => Agreed')
    BY <1>a, <2>1, Zenon DEF Agreed
  <2>3. CASE gate = "open" /\ target # 0
    <3>1. /\ arming' = [session |-> session, job |-> job, target |-> target]
          /\ lastJob' = job /\ appliedDifficulty' = poolDifficulty[session]
      BY <1>5, <2>3, Zenon DEF HandleJob
    <3>2. arming' = Current'  BY <2>1, <3>1, Zenon DEF Current
    <3>3. Follows'  BY <2>1, <3>1, <3>2, Zenon
    <3> QED  BY <1>b, <2>2, <3>3, Zenon
  <2>4. CASE ~(gate = "open" /\ target # 0)
    <3>1. missed'  BY <1>5, <2>4, Zenon DEF HandleJob
    <3> QED  BY <1>b, <2>2, <3>1, Zenon
  <2> QED  BY <2>3, <2>4, Zenon
<1>6. CASE HandleRetarget
  <2> DEFINE d == Head(readyDiffs)
             target == v1JobTarget(lastJob.valid, d)
  <2>1. /\ UNCHANGED <<session, phase, poolDifficulty, announcing, announced, crossed, work, newest>>
        /\ readyDiffs # <<>> /\ readyDiffs' = <<>> /\ arming = NoWork /\ phase = "run"
    BY <1>6, Zenon DEF HandleRetarget, Running
  <2>2. d = announced  BY <1>a, <2>1, Zenon
  <2>3. Fresh' /\ Waits' /\ (phase' # "off" /\ ~crossed' => Agreed')
    BY <1>a, <2>1, Zenon DEF Agreed
  <2>4. CASE ~haveJob \/ gate # "open" \/ Known(d)
    <3>1. /\ missed' = (missed \/ gate # "open")
          /\ UNCHANGED <<haveJob, lastJob, appliedDifficulty, arming>>
      BY <1>6, <2>4, Zenon DEF HandleRetarget
    <3>2. ASSUME haveJob', ~missed' PROVE Follows'
      <4>1. haveJob /\ ~missed /\ d = appliedDifficulty
        BY <1>c, <2>4, <3>1, <3>2, Zenon DEF Known
      <4>2. Follows /\ Current' = Current  BY <1>a, <2>1, <3>1, <4>1, ZenonT(60) DEF Current
      <4> QED  BY <2>1, <2>2, <3>1, <4>1, <4>2, Zenon
    <3> QED  BY <1>b, <2>3, <3>2, Zenon
  <2>5. CASE ~(~haveJob \/ gate # "open" \/ Known(d))
    <3>1. /\ appliedDifficulty' = d /\ UNCHANGED <<haveJob, lastJob>>
          /\ arming' = IF target = 0 THEN NoWork
                        ELSE [session |-> session, job |-> lastJob, target |-> target]
          /\ missed' = (missed \/ target = 0)
      BY <1>6, <2>5, Zenon DEF HandleRetarget
    <3>2. ASSUME haveJob', ~missed' PROVE Follows'
      <4>1. haveJob /\ ~missed /\ target # 0  BY <1>c, <3>1, <3>2, Zenon
      <4>2. arming' = Current'  BY <2>1, <3>1, <4>1, Zenon DEF Current
      <4>3. lastJob = newest  BY <1>a, <4>1, Zenon
      <4> QED  BY <2>1, <2>2, <3>1, <4>2, <4>3, Zenon
    <3> QED  BY <1>b, <2>3, <3>2, Zenon
  <2> QED  BY <2>4, <2>5, Zenon
<1>7. CASE applyJob
  <2>1. /\ UNCHANGED <<session, phase, poolDifficulty, announcing, readyDiffs, announced, crossed,
                        haveJob, lastJob, appliedDifficulty, newest, missed>>
        /\ arming # NoWork /\ work' = arming /\ arming' = NoWork
    BY <1>7, Zenon DEF applyJob
  <2>2. Current' = Current  BY <2>1, Zenon DEF Current
  <2>3. Fresh' /\ Waits' /\ (phase' # "off" /\ ~crossed' => Agreed')
    BY <1>a, <2>1, Zenon DEF Agreed
  <2> QED  BY <1>a, <1>b, <2>1, <2>2, <2>3, Zenon
<1>8. CASE Find \/ TakeShare \/ Refill \/ PriceLow \/ PriceRecovers
  BY <1>8, <1>d, Zenon DEF Find, TakeShare, Refill, PriceLow, PriceRecovers
<1>9. CASE SubmitStep
  BY <1>9, <1>d, Zenon DEF SubmitStep, SubmitAccepted, SubmitRejected, SubmitFails
<1>10. CASE PriceIdlesWorkers
  BY <1>10, Zenon DEF PriceIdlesWorkers, FollowInv
<1>11. CASE SessionDone \/ UNCHANGED sessionVars
  BY <1>11, <1>d, Zenon DEF SessionDone, sessionVars
<1> QED
  BY <1>1, <1>2, <1>3, <1>4, <1>5, <1>6, <1>7, <1>8, <1>9, <1>10, <1>11, ZenonT(60) DEF SessionNext

\* However jobs, the price gate and the difficulties that two goroutines store and announce
\* interleave: a session that has caught up with its channels and skipped nothing has its
\* workers on the newest job at the pool's current difficulty, or, where two announcements
\* crossed, at the one announced last.
THEOREM WorkersFollowPool == ASSUME SessionsOK PROVE SessionSpec => []WorkFollowsPool
<1>1. SessionInit => SessionTypeOK /\ PhaseInv /\ FollowInv
  <2>1. SessionInit => FollowInv  BY Zenon DEF SessionInit, FollowInv
  <2> QED  BY <2>1, TypeInit, Zenon
<1>2. SessionTypeOK /\ PhaseInv /\ FollowInv /\ [SessionNext]_sessionVars
        => (SessionTypeOK /\ PhaseInv /\ FollowInv)'
  BY TypeStep, FollowStep, Zenon
<1>3. SessionTypeOK /\ PhaseInv /\ FollowInv => WorkFollowsPool
  <2> SUFFICES ASSUME SessionTypeOK, PhaseInv, FollowInv, Running, haveJob, ~missed,
                      announcing = Quiet, readyDiffs = <<>>
               PROVE  \E d \in {poolDifficulty[session]} \cup IF crossed THEN {announced} ELSE {} :
                        work = [session |-> session, job |-> newest,
                                target |-> v1JobTarget(newest.valid, d)]
    BY Zenon DEF WorkFollowsPool
  <2>1. session # 0 /\ arming = NoWork /\ phase # "off"  BY DEF Running, PhaseInv, Sessions
  <2>2. Current # NoWork  BY <2>1, Zenon DEF Current, NoWork
  <2>3. /\ lastJob = newest /\ appliedDifficulty \in {poolDifficulty[session], announced}
        /\ work = Current
    BY <2>1, <2>2, Zenon DEF FollowInv, Current
  <2>4. ASSUME ~crossed PROVE announced = poolDifficulty[session]
    <3>1. ASSUME NEW g \in Announcers, announcing = [Quiet EXCEPT ![g] = poolDifficulty[session]]
          PROVE  poolDifficulty[session] = 0
      BY <3>1, Zenon DEF Quiet
    <3> QED  BY <2>1, <2>4, <3>1, Zenon DEF FollowInv
  <2>5. crossed \in BOOLEAN  BY Zenon DEF SessionTypeOK, ClientTypeOK, EngineTypeOK
  <2> QED  BY <2>3, <2>4, <2>5, Zenon DEF Current
<1> QED  BY <1>1, <1>2, <1>3, PTL DEF SessionSpec
-----------------------------------------------------------------------------
\* A submit goroutine ends: there is one less, and one less of its session.
LEMMA FlightEnds ==
  ASSUME SessionTypeOK, CountInv, NEW f \in flights, flights' = flights \ {f}, session' = session
  PROVE  /\ IsFiniteSet(flights') /\ Cardinality(flights') = Cardinality(flights) - 1
         /\ Cardinality(flights) \in Nat /\ Cardinality(OwnFlights) \in Nat
         /\ Cardinality(OwnFlights') =
              IF Credits(f) THEN Cardinality(OwnFlights) - 1 ELSE Cardinality(OwnFlights)
         /\ Cardinality(OwnFlights') \in Nat
<1>1. IsFiniteSet(flights) /\ IsFiniteSet(flights')
  BY FS_RemoveElement, Zenon DEF CountInv
<1>2. Cardinality(flights') = Cardinality(flights) - 1 /\ Cardinality(flights) \in Nat
  BY <1>1, FS_RemoveElement, FS_CardinalityType, Zenon
<1>3. IsFiniteSet(OwnFlights)  BY <1>1, FS_Subset, Zenon DEF OwnFlights
<1>4. OwnFlights' = IF Credits(f) THEN OwnFlights \ {f} ELSE OwnFlights
  BY DEF OwnFlights, Credits
<1>5. Credits(f) => f \in OwnFlights  BY Zenon DEF OwnFlights, Credits
<1> QED  BY <1>1, <1>2, <1>3, <1>4, <1>5, FS_RemoveElement, FS_CardinalityType, Zenon

\* Every step keeps the counts in balance.
LEMMA CountStep ==
  ASSUME SessionsOK, SessionTypeOK, PhaseInv, CountInv, [SessionNext]_sessionVars
  PROVE  CountInv'
<1>a. ASSUME UNCHANGED <<session, flights, submitted, accepted, rejected, transitions, failed,
                         sessAccepted, sessRejected, sessSubmitted>>
      PROVE  CountInv'
  BY <1>a, Zenon DEF CountInv, EveryShareAccounted, OwnFlights
<1>b. /\ submitted \in Nat /\ accepted \in Nat /\ rejected \in Nat /\ transitions \in Nat
      /\ failed \in Nat /\ sessAccepted \in Nat /\ sessRejected \in Nat /\ sessSubmitted \in Nat
      /\ session \in Nat
  BY DEF SessionTypeOK, ClientTypeOK, EngineTypeOK
<1>c. /\ accepted + rejected + transitions + failed + Cardinality(flights) = submitted
      /\ sessAccepted + sessRejected + Cardinality(OwnFlights) <= sessSubmitted
  BY ZenonT(60) DEF CountInv, EveryShareAccounted
<1>1. CASE Connect
  <2>1. OwnFlights' = {}
    BY SMTT(60), <1>1 DEF Connect, CountInv, OwnFlights, SessionTypeOK, ClientTypeOK, EngineTypeOK
  <2>2. Cardinality(OwnFlights') = 0  BY <2>1, FS_EmptySet, Zenon
  <2>3. \A f \in flights' : f.session <= session'
    BY SMTT(60), <1>1 DEF Connect, CountInv, SessionTypeOK, ClientTypeOK, EngineTypeOK, Sessions
  <2> QED  BY SMTT(60), <1>1, <2>2, <2>3 DEF Connect, CountInv, EveryShareAccounted
<1>2. CASE TakeShare
  <2> DEFINE f == [seq |-> submitted + 1, session |-> session, target |-> Head(merged).target]
  <2>1. CASE UNCHANGED <<flights, submitted, sessSubmitted>>
    BY <1>2, <1>a, <2>1, Zenon DEF TakeShare
  <2>2. CASE /\ submitted' = submitted + 1 /\ sessSubmitted' = sessSubmitted + 1
             /\ flights' = flights \cup {f}
    <3>1. f \notin flights  BY DEF SessionTypeOK, ClientTypeOK, EngineTypeOK
    <3>2. f.session = session  BY Zenon
    <3> HIDE DEF f
    <3>3. UNCHANGED <<session, accepted, rejected, transitions, failed, sessAccepted, sessRejected>>
      BY <1>2, Zenon DEF TakeShare
    <3>4. IsFiniteSet(flights) /\ IsFiniteSet(OwnFlights)
      BY FS_Subset, Zenon DEF CountInv, OwnFlights
    <3>5. OwnFlights' = OwnFlights \cup {f} /\ f \notin OwnFlights
      BY <2>2, <3>1, <3>2, <3>3, ZenonT(60) DEF OwnFlights
    <3>6. /\ IsFiniteSet(flights') /\ Cardinality(flights') = Cardinality(flights) + 1
          /\ Cardinality(OwnFlights') = Cardinality(OwnFlights) + 1
          /\ Cardinality(flights) \in Nat /\ Cardinality(OwnFlights) \in Nat
      BY <2>2, <3>1, <3>4, <3>5, FS_AddElement, FS_CardinalityType, ZenonT(60)
    <3>7. \A g \in flights' : g.session <= session'
      BY SMTT(60), <1>b, <2>2, <3>2, <3>3 DEF CountInv
    <3>8. /\ accepted + rejected + transitions + failed + Cardinality(flights') = submitted'
          /\ sessAccepted + sessRejected + Cardinality(OwnFlights') <= sessSubmitted'
      BY <1>b, <1>c, <2>2, <3>6
    <3> QED  BY <3>3, <3>6, <3>7, <3>8, Zenon DEF CountInv, EveryShareAccounted
  <2> QED  BY <1>2, <2>1, <2>2, Zenon DEF TakeShare
<1>3. CASE SubmitStep
  <2>1. PICK f \in flights : \/ SubmitAccepted(f) \/ SubmitFails(f)
                            \/ \E category \in {"difficulty", "stale"} : SubmitRejected(f, category)
    BY <1>3, Zenon DEF SubmitStep
  <2>2. flights' = flights \ {f} /\ UNCHANGED <<session, submitted, sessSubmitted>>
    BY <2>1, Zenon DEF SubmitAccepted, SubmitRejected, SubmitFails
  <2>3. /\ IsFiniteSet(flights') /\ Cardinality(flights') = Cardinality(flights) - 1
        /\ Cardinality(flights) \in Nat /\ Cardinality(OwnFlights) \in Nat
        /\ Cardinality(OwnFlights') =
             IF Credits(f) THEN Cardinality(OwnFlights) - 1 ELSE Cardinality(OwnFlights)
        /\ Cardinality(OwnFlights') \in Nat
    BY <2>2, FlightEnds, Zenon
  <2>4. \A g \in flights' : g.session <= session'  BY <2>2, Zenon DEF CountInv
  <2>5. ASSUME /\ \/ accepted' = accepted + 1 /\ UNCHANGED <<rejected, transitions, failed>>
                  \/ rejected' = rejected + 1 /\ UNCHANGED <<accepted, transitions, failed>>
                  \/ transitions' = transitions + 1 /\ UNCHANGED <<accepted, rejected, failed>>
                  \/ failed' = failed + 1 /\ UNCHANGED <<accepted, rejected, transitions>>
               /\ \/ UNCHANGED <<sessAccepted, sessRejected>>
                  \/ Credits(f) /\ sessAccepted' = sessAccepted + 1 /\ UNCHANGED sessRejected
                  \/ Credits(f) /\ sessRejected' = sessRejected + 1 /\ UNCHANGED sessAccepted
        PROVE  CountInv'
    <3>1. EveryShareAccounted'
      BY SMTT(60), <1>b, <1>c, <2>2, <2>3, <2>5 DEF EveryShareAccounted
    <3>2. (sessAccepted + sessRejected + Cardinality(OwnFlights) <= sessSubmitted)'
      BY <1>b, <1>c, <2>2, <2>3, <2>5 DEF Credits
    <3> QED  BY <2>3, <2>4, <3>1, <3>2, ZenonT(60) DEF CountInv
  <2>6. CASE SubmitAccepted(f)  BY <2>5, <2>6, Zenon DEF SubmitAccepted, Credits
  <2>7. CASE SubmitFails(f)  BY <2>5, <2>7, Zenon DEF SubmitFails
  <2>8. ASSUME NEW category, SubmitRejected(f, category) PROVE CountInv'
    BY <2>5, <2>8, Zenon DEF SubmitRejected
  <2> QED  BY <2>1, <2>6, <2>7, <2>8, ZenonT(60)
<1>4. CASE PoolStep
  BY <1>4, <1>a, Zenon DEF PoolStep, Notify, StoreDifficulty, Announce, PoolCloses
<1>5. CASE Negotiated \/ DialFails \/ Shutdown \/ YieldFailover \/ JobsClosed
  BY <1>5, <1>a, Zenon DEF Negotiated, DialFails, Shutdown, YieldFailover, JobsClosed, Return
<1>6. CASE HandleJob \/ HandleRetarget \/ applyJob \/ Find \/ Refill
  BY <1>6, <1>a, Zenon DEF HandleJob, HandleRetarget, applyJob, Find, Refill
<1>7. CASE PriceLow \/ PriceIdlesWorkers \/ PriceRecovers
  BY <1>7, <1>a, Zenon DEF PriceLow, PriceIdlesWorkers, PriceRecovers
<1>8. CASE SessionDone \/ UNCHANGED sessionVars
  BY <1>8, <1>a, Zenon DEF SessionDone, sessionVars
<1> QED  BY <1>1, <1>2, <1>3, <1>4, <1>5, <1>6, <1>7, <1>8, ZenonT(60) DEF SessionNext

\* CountInv holds before the first session.
LEMMA CountInit == ASSUME SessionInit PROVE CountInv
<1>1. OwnFlights = {} /\ flights = {}  BY Zenon DEF SessionInit, OwnFlights
<1>2. IsFiniteSet(flights) /\ Cardinality(flights) = 0 /\ Cardinality(OwnFlights) = 0
  BY <1>1, FS_EmptySet, Zenon
<1> QED  BY <1>1, <1>2 DEF SessionInit, CountInv, EveryShareAccounted

\* Every share that runSessionV1 submits is accepted, rejected, excused, failed or in
\* flight, and only one of these, though its goroutine may outlive its session.
THEOREM SharesStayAccounted == ASSUME SessionsOK PROVE SessionSpec => []EveryShareAccounted
<1>1. SessionInit => SessionTypeOK /\ PhaseInv /\ CountInv  BY TypeInit, CountInit, ZenonT(60)
<1>2. SessionTypeOK /\ PhaseInv /\ CountInv /\ [SessionNext]_sessionVars
        => (SessionTypeOK /\ PhaseInv /\ CountInv)'
  BY TypeStep, CountStep, Zenon
<1>3. CountInv => EveryShareAccounted  BY Zenon DEF CountInv
<1> QED  BY <1>1, <1>2, <1>3, PTL DEF SessionSpec
-----------------------------------------------------------------------------
\* What a queue holds as it shrinks and grows.
LEMMA QueueElements ==
  ASSUME NEW S, NEW q \in Seq(S)
  PROVE  /\ Elements(<<>>) = {} /\ Elements(q) \subseteq S
         /\ q # <<>> => Head(q) \in Elements(q) /\ Elements(Tail(q)) \subseteq Elements(q)
         /\ \A x \in S : Elements(Append(q, x)) = Elements(q) \cup {x}
         /\ \A k \in 0 .. Len(q) : Elements(SubSeq(q, k + 1, Len(q))) \subseteq Elements(q)
<1>1. Elements(<<>>) = {} /\ Elements(q) \subseteq S  BY DEF Elements
<1>2. ASSUME q # <<>> PROVE Head(q) \in Elements(q) /\ Elements(Tail(q)) \subseteq Elements(q)
  <2>1. Head(q) = q[1] /\ 1 \in DOMAIN q  BY <1>2
  <2>2. ASSUME NEW i \in DOMAIN Tail(q) PROVE Tail(q)[i] = q[i + 1] /\ i + 1 \in DOMAIN q
    BY <1>2, <2>2
  <2>3. Head(q) \in Elements(q)  BY <2>1, Zenon DEF Elements
  <2>4. Elements(Tail(q)) \subseteq Elements(q)  BY <2>2, Zenon DEF Elements
  <2> QED  BY <2>3, <2>4, Zenon
<1>3. ASSUME NEW x \in S PROVE Elements(Append(q, x)) = Elements(q) \cup {x}
  <2>1. /\ DOMAIN Append(q, x) = 1 .. Len(q) + 1 /\ DOMAIN q = 1 .. Len(q) /\ Len(q) \in Nat
        /\ \A i \in 1 .. Len(q) : Append(q, x)[i] = q[i]
        /\ Append(q, x)[Len(q) + 1] = x
    OBVIOUS
  <2>2. Elements(Append(q, x)) \subseteq Elements(q) \cup {x}  BY <2>1 DEF Elements
  <2>3. Elements(q) \cup {x} \subseteq Elements(Append(q, x))  BY <2>1 DEF Elements
  <2> QED  BY <2>2, <2>3, Zenon
<1>4. ASSUME NEW k \in 0 .. Len(q)
      PROVE  Elements(SubSeq(q, k + 1, Len(q))) \subseteq Elements(q)
  <2>1. /\ DOMAIN SubSeq(q, k + 1, Len(q)) = 1 .. Len(q) - k
        /\ \A i \in 1 .. Len(q) - k : SubSeq(q, k + 1, Len(q))[i] = q[i + k] /\ i + k \in DOMAIN q
    BY SMTT(60)
  <2> QED  BY <2>1, Zenon DEF Elements
<1> QED  BY <1>1, <1>2, <1>3, <1>4, ZenonT(60)

\* Every step keeps the jobs in hand and the shares found on record.
LEMMA StrayStep ==
  ASSUME SessionsOK, SessionTypeOK, PhaseInv, StrayInv, [SessionNext]_sessionVars
  PROVE  StrayInv'
<1> USE DEF StrayInv
<1>t. sentIDs \in Seq(Nat) /\ readyJobs \in Seq(PoolJobs) /\ merged \in Seq(Shares) /\ haveJob \in BOOLEAN
  BY SMTT(60) DEF SessionTypeOK, ClientTypeOK, EngineTypeOK
<1>e. /\ Elements(<<>>) = {} /\ Elements(readyJobs) \subseteq PoolJobs /\ Elements(merged) \subseteq Shares
      /\ readyJobs # <<>> => /\ Head(readyJobs) \in Elements(readyJobs)
                           /\ Elements(Tail(readyJobs)) \subseteq Elements(readyJobs)
      /\ merged # <<>> => /\ Head(merged) \in Elements(merged)
                           /\ Elements(Tail(merged)) \subseteq Elements(merged)
  BY <1>t, QueueElements, Zenon
<1>r. ASSUME UNCHANGED sentIDs
      PROVE  (DistinctIDs' <=> DistinctIDs) /\ \A job : Recorded(job)' <=> Recorded(job)
  BY <1>r, Zenon DEF DistinctIDs, Recorded
<1>a. ASSUME UNCHANGED <<sentIDs, readyJobs, haveJob, lastJob, merged, strays>>,
             arming' \in {arming, work, NoWork}, work' \in {arming, work, NoWork}
      PROVE  StrayInv'
  BY <1>a, Zenon DEF DistinctIDs, Recorded
<1>1. CASE Connect
  <2>1. /\ UNCHANGED <<sentIDs, merged, strays, arming, work>>
        /\ readyJobs' = <<>> /\ haveJob' = FALSE
    BY <1>1, Zenon DEF Connect
  <2> QED  BY <1>e, <2>1, Zenon DEF DistinctIDs, Recorded
<1>2. CASE Negotiated \/ DialFails \/ Shutdown \/ YieldFailover \/ JobsClosed
  BY <1>2, <1>a, Zenon DEF Negotiated, DialFails, Shutdown, YieldFailover, JobsClosed, Return
<1>3. CASE PoolStep
  <2>1. ASSUME NEW g, NEW name \in JobNames, NEW valid \in NBitsValid, NEW k \in 0 .. Len(readyJobs),
               Notify(g, name, valid, k)
        PROVE  StrayInv'
    <3>0. PICK job : job = [n |-> Len(sentIDs) + 1, name |-> name, valid |-> valid]  BY Zenon
    <3> DEFINE rest == SubSeq(readyJobs, k + 1, Len(readyJobs))
               id == v1JobWireID(name)
    <3>1. /\ UNCHANGED <<haveJob, lastJob, merged, strays, arming, work>>
          /\ sentIDs' = Append(sentIDs, id) /\ readyJobs' = Append(rest, job)
          /\ Len(sentIDs) < MaxJobs
      BY <2>1, <3>0, Zenon DEF Notify
    <3>2. job \in PoolJobs
      <4>1. Len(sentIDs) + 1 \in 1 .. MaxJobs /\ valid \in BOOLEAN
        BY SMTT(60), <1>t, <3>1 DEF SessionsOK
      <4> QED  BY <3>0, <4>1, ZenonT(60) DEF PoolJobs
    <3>3. rest \in Seq(PoolJobs) /\ Elements(rest) \subseteq Elements(readyJobs)
      BY SMTT(60), <1>t, <2>1, QueueElements
    <3>4. id \in Nat  BY Zenon DEF v1JobWireID, SessionsOK
    <3>5. job.n = Len(sentIDs) + 1 /\ v1JobWireID(job.name) = id  BY <3>0, Zenon
    <3> HIDE DEF rest, id
    <3>6. Elements(readyJobs') \subseteq Elements(readyJobs) \cup {job}
      BY <3>1, <3>2, <3>3, QueueElements
    <3>7. /\ DOMAIN sentIDs \subseteq DOMAIN sentIDs' /\ \A i \in DOMAIN sentIDs : sentIDs'[i] = sentIDs[i]
          /\ job.n \in DOMAIN sentIDs' /\ sentIDs'[job.n] = id
      BY <1>t, <3>1, <3>4, <3>5
    <3>8. DistinctIDs' => DistinctIDs  BY <3>7, Zenon DEF DistinctIDs
    <3>9. (\A j : Recorded(j) => Recorded(j)') /\ Recorded(job)'
      BY <3>5, <3>7, Zenon DEF Recorded
    <3>10. \A j \in Elements(readyJobs') : Recorded(j)'  BY <3>6, <3>9, Zenon
    <3>11. \A share \in Elements(merged') : share.n \in DOMAIN sentIDs' /\ share.id = sentIDs'[share.n]
      BY <3>1, <3>7, Zenon
    <3>12. haveJob' => Recorded(lastJob)'  BY <3>1, <3>7, Zenon DEF Recorded
    <3>13. \A w \in {arming, work} \ {NoWork} : Recorded(w.job)'  BY <3>9, Zenon
    <3>14. (\A w \in {arming, work} \ {NoWork} : Recorded(w.job))'  BY <3>1, <3>13, Zenon
    <3> QED  BY <3>1, <3>8, <3>10, <3>11, <3>12, <3>14, Zenon
  <2>2. ASSUME NEW g, NEW d, StoreDifficulty(g, d) PROVE StrayInv'
    BY <1>a, <2>2, Zenon DEF StoreDifficulty
  <2>3. ASSUME NEW g, Announce(g) PROVE StrayInv'  BY <1>a, <2>3, Zenon DEF Announce
  <2>4. CASE PoolCloses  BY <1>a, <2>4, Zenon DEF PoolCloses
  <2> QED  BY <1>3, <2>1, <2>2, <2>3, <2>4, ZenonT(60) DEF PoolStep
<1>4. CASE HandleJob
  <2> DEFINE job == Head(readyJobs)
  <2>1. /\ UNCHANGED <<sentIDs, merged, strays, work>>
        /\ readyJobs # <<>> /\ readyJobs' = Tail(readyJobs)
    BY <1>4, Zenon DEF HandleJob
  <2>2. CASE UNCHANGED jobVars  BY <1>e, <1>r, <2>1, <2>2, Zenon
  <2>3. ASSUME NEW target, haveJob' = TRUE, lastJob' = job,
               arming' = [session |-> session, job |-> job, target |-> target]
        PROVE  StrayInv'
    <3>1. arming'.job = job  BY <2>3, Zenon
    <3> QED  BY <1>e, <1>r, <2>1, <2>3, <3>1, Zenon
  <2> QED  BY <1>4, <2>2, <2>3, Zenon DEF HandleJob
<1>5. CASE HandleRetarget
  <2>1. UNCHANGED <<sentIDs, readyJobs, haveJob, lastJob, merged, strays, work>>
    BY <1>5, Zenon DEF HandleRetarget
  <2>2. CASE arming' \in {arming, NoWork}  BY <1>a, <2>1, <2>2, Zenon
  <2>3. ASSUME NEW target, haveJob,
               arming' = [session |-> session, job |-> lastJob, target |-> target]
        PROVE  StrayInv'
    <3>1. arming'.job = lastJob  BY <2>3, Zenon
    <3> QED  BY <1>r, <2>1, <2>3, <3>1, Zenon
  <2> QED  BY <1>5, <1>t, <2>2, <2>3, Zenon DEF HandleRetarget
<1>6. CASE Find
  <2> DEFINE share == [n |-> work.job.n, id |-> v1JobWireID(work.job.name), target |-> work.target]
  <2>1. /\ UNCHANGED <<sentIDs, readyJobs, haveJob, lastJob, strays, arming, work>>
        /\ merged' = Append(merged, share) /\ work # NoWork /\ work \in Works
    BY <1>6, Zenon DEF Find, SessionTypeOK, ClientTypeOK, EngineTypeOK
  <2>2. share \in Shares
    BY <2>1, Zenon DEF Works, PoolJobs, Shares, v1JobWireID, SessionsOK
  <2>3. share.n \in DOMAIN sentIDs /\ share.id = sentIDs[share.n]  BY <2>1, Zenon DEF Recorded
  <2> HIDE DEF share
  <2>4. Elements(merged') = Elements(merged) \cup {share}
    BY <1>t, <2>1, <2>2, QueueElements, ZenonT(60)
  <2> QED  BY <1>r, <2>1, <2>3, <2>4, Zenon
<1>7. CASE TakeShare
  <2> DEFINE share == Head(merged)
  <2>1. /\ UNCHANGED <<sentIDs, readyJobs, haveJob, lastJob, arming, work>>
        /\ merged # <<>> /\ merged' = Tail(merged)
    BY <1>7, Zenon DEF TakeShare
  <2>2. DistinctIDs => strays' = strays
    <3>1. CASE Superseded(share) \/ tokens = 0
      BY <1>7, <3>1 DEF TakeShare, SessionTypeOK, ClientTypeOK, EngineTypeOK
    <3>2. CASE ~Superseded(share)
      <4>1. /\ Recorded(lastJob) /\ share.id = v1JobWireID(lastJob.name)
            /\ share.n \in DOMAIN sentIDs /\ share.id = sentIDs[share.n]
        BY <1>e, <2>1, <3>2, ZenonT(60) DEF Superseded
      <4>2. DistinctIDs => share.n = lastJob.n  BY <4>1, Zenon DEF Recorded, DistinctIDs
      <4> QED  BY <1>7, <4>2, Zenon DEF TakeShare
    <3> QED  BY <3>1, <3>2, Zenon
  <2> QED  BY <1>e, <1>r, <2>1, <2>2, Zenon
<1>8. CASE SubmitStep
  BY <1>8, <1>a, Zenon DEF SubmitStep, SubmitAccepted, SubmitRejected, SubmitFails
<1>9. CASE applyJob \/ Refill \/ PriceLow \/ PriceIdlesWorkers \/ PriceRecovers
  BY <1>9, <1>a, Zenon DEF applyJob, Refill, PriceLow, PriceIdlesWorkers, PriceRecovers
<1>10. CASE SessionDone \/ UNCHANGED sessionVars
  BY <1>10, <1>a, Zenon DEF SessionDone, sessionVars
<1> QED  BY <1>1, <1>2, <1>3, <1>4, <1>5, <1>6, <1>7, <1>8, <1>9, <1>10, ZenonT(30) DEF SessionNext

\* The yield check judges a session by verdicts on its own submits, whatever job ids the
\* pool uses; and while their wire ids are distinct a share is submitted for the very job
\* it was found for, so never one of an earlier session.
THEOREM SessionsJudgedAlone == ASSUME SessionsOK PROVE SessionSpec => []YieldOwnShares
<1>1. SessionInit => SessionTypeOK /\ PhaseInv /\ CountInv /\ StrayInv
  <2>1. SessionInit => StrayInv  BY DEF SessionInit, StrayInv, Elements
  <2> QED  BY <2>1, TypeInit, CountInit, Zenon
<1>2. SessionTypeOK /\ PhaseInv /\ CountInv /\ StrayInv /\ [SessionNext]_sessionVars
        => (SessionTypeOK /\ PhaseInv /\ CountInv /\ StrayInv)'
  BY TypeStep, CountStep, StrayStep, Zenon
<1>3. CountInv /\ StrayInv => YieldOwnShares  BY Zenon DEF CountInv, StrayInv, YieldOwnShares
<1> QED  BY <1>1, <1>2, <1>3, PTL DEF SessionSpec
=============================================================================
