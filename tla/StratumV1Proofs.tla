--------------------------- MODULE StratumV1Proofs ---------------------------
(***************************************************************************)
(* Proofs about a Stratum V1 session, for every queue capacity and stash,  *)
(* any number of messages and of submitters that race the read loop, their *)
(* timers and Close. The session implements JobFeed: jobsCh is the queue,  *)
(* and every step of any goroutine offers a job, takes one, closes the     *)
(* feed, or leaves it as it is. A response channel is settled once. No     *)
(* message the pool pushes is lost on the way or applied twice, none is    *)
(* applied before authorization, and nothing is sent on the channels once  *)
(* they are closed.                                                        *)
(***************************************************************************)
EXTENDS StratumV1, TLAPS

ReaderPCs ==
  {"read", "response", "deliver", "stash", "flush", "apply", "cancelled", "ended"}

\* What reaches sendJob is a pool message, whatever way it took: over the wire to the read
\* loop, through the stash, and to the goroutine that applies it.
FeedInv ==
  /\ sent \in 0 .. MaxMsgs
  /\ wire \in Seq(Lines)
  /\ reader \in [pc : ReaderPCs, line : Lines \cup {NoMsg}]
  /\ reader.pc \in {"stash", "flush"} => reader.line \in Msgs
  /\ todo \in [Goroutines -> Seq(Msgs)]
  /\ preAuthQ \in Seq(Msgs)
  /\ extranonce \in -1 .. MaxMsgs
  /\ jobsCh \in Seq(Jobs)
  /\ carry \in [Goroutines -> Jobs \cup {NoJob}]

feedVars == <<sent, wire, reader, todo, preAuthQ, extranonce, jobsCh, carry>>

-----------------------------------------------------------------------------
\* What Head and Tail make of a queue.
LEMMA HeadTail ==
  ASSUME NEW S, NEW seq \in Seq(S), seq # << >>
  PROVE  /\ Head(seq) \in S /\ Tail(seq) \in Seq(S)
         /\ Len(Tail(seq)) = Len(seq) - 1
         /\ \A i \in 1 .. Len(Tail(seq)) : Tail(seq)[i] = seq[i + 1]
  OBVIOUS

\* The three ways sendJob changes a queue, as JobFeed puts them: it loses nothing, the
\* oldest job, or all of them.
LEMMA LoseNone ==
  ASSUME NEW S, NEW q \in Seq(S)
  PROVE  SubSeq(q, 1, Len(q)) = q
  OBVIOUS

\* A queue without its oldest job.
LEMMA LoseOldest ==
  ASSUME NEW S, NEW q \in Seq(S), q # <<>>
  PROVE  Tail(q) = SubSeq(q, 2, Len(q)) /\ Tail(q) \in Seq(S) /\ Head(q) \in S
<1>1. Tail(q) = SubSeq(q, 2, Len(q))  OBVIOUS
<1> QED  BY <1>1, HeadTail, Zenon

\* A queue that a clean job emptied holds that job.
LEMMA LoseAll ==
  ASSUME NEW S, NEW q \in Seq(S), NEW x \in S
  PROVE  Append(SubSeq(q, Len(q) + 1, Len(q)), x) = <<x>>
<1>1. SubSeq(q, Len(q) + 1, Len(q)) = <<>>  OBVIOUS
<1>2. Append(<<>>, x) = <<x>>  OBVIOUS
<1> QED  BY <1>1, <1>2, Zenon

\* A full queue is not empty.
LEMMA FullNonempty ==
  ASSUME NEW S, NEW q \in Seq(S), NEW cap \in Nat \ {0}, Len(q) >= cap
  PROVE  q # <<>>
  OBVIOUS

\* A line that is no response is a pool message.
LEMMA RoutedLine ==
  ASSUME NEW line \in Lines, line.kind \notin {"ok", "error"}
  PROVE  line \in Msgs
  BY Zenon DEF Lines

\* A message of the pool is a line with a number in range.
LEMMA MsgIsLine ==
  ASSUME NEW m \in Msgs
  PROVE  m \in Lines /\ m.n \in 1 .. MaxMsgs
  BY Zenon DEF Lines, Msgs

\* A message that becomes a job becomes one of JobFeed's jobs.
LEMMA JobTyped ==
  ASSUME NEW m \in Msgs, extranonce \in -1 .. MaxMsgs
  PROVE  completeV1Job(m) \in Jobs
  BY Zenon DEF completeV1Job, Jobs, Msgs

-----------------------------------------------------------------------------
\* FeedInv holds at the start.
LEMMA FeedInit == Init => FeedInv
<1> SUFFICES ASSUME Init PROVE FeedInv
  BY Zenon
<1>1. reader \in [pc : ReaderPCs, line : Lines \cup {NoMsg}] /\ reader.pc = "read"
  BY Zenon DEF Init, ReaderPCs
<1>2. todo \in [Goroutines -> Seq(Msgs)] /\ wire \in Seq(Lines) /\ preAuthQ \in Seq(Msgs)
      /\ jobsCh \in Seq(Jobs)
  BY DEF Init
<1>3. carry \in [Goroutines -> Jobs \cup {NoJob}]
  BY Zenon DEF Init
<1> QED  BY <1>1, <1>2, <1>3, BoundsAssumption DEF Init, FeedInv

\* The pool writes.
LEMMA PoolKeeps ==
  ASSUME FeedInv,
         \/ \E kind \in Kinds : PoolSends(kind)
         \/ \E id \in CallIDs, ok \in BOOLEAN : PoolAnswers(id, ok)
  PROVE  FeedInv'
<1>1. ASSUME NEW kind \in Kinds, PoolSends(kind) PROVE FeedInv'
  <2>1. [n |-> sent + 1, kind |-> kind] \in Lines /\ sent' \in 0 .. MaxMsgs
    BY <1>1, KindsAssumption, BoundsAssumption DEF PoolSends, FeedInv, Lines, Msgs
  <2>2. wire' \in Seq(Lines)
    BY <1>1, <2>1 DEF PoolSends, FeedInv
  <2>3. UNCHANGED <<reader, todo, preAuthQ, extranonce, jobsCh, carry>>
    BY <1>1, Zenon DEF PoolSends, stashVars, effectVars
  <2> QED  BY <2>1, <2>2, <2>3, Zenon DEF FeedInv
<1>2. ASSUME NEW id \in CallIDs, NEW ok \in BOOLEAN, PoolAnswers(id, ok) PROVE FeedInv'
  <2>1. [n |-> id, kind |-> IF ok THEN "ok" ELSE "error"] \in Lines
    BY Zenon DEF Lines
  <2>2. wire' \in Seq(Lines)
    BY <1>2, <2>1 DEF PoolAnswers, FeedInv
  <2>3. UNCHANGED <<sent, reader, todo, preAuthQ, extranonce, jobsCh, carry>>
    BY <1>2, Zenon DEF PoolAnswers, stashVars, effectVars
  <2> QED  BY <2>2, <2>3, Zenon DEF FeedInv
<1> QED  BY <1>1, <1>2, Zenon

\* The read loop moves a line from the wire to the stash or to the messages it applies.
LEMMA ReaderKeeps ==
  ASSUME FeedInv,
         dispatch \/ handleResponse \/ Deliver \/ stashPreAuth \/ ReaderFlush \/ ReadFails
           \/ closeChannels
  PROVE  FeedInv'
<1> DEFINE Typed(r) == r \in [pc : ReaderPCs, line : Lines \cup {NoMsg}]
<1>0. Typed([pc |-> "read", line |-> NoMsg]) /\ Typed([pc |-> "apply", line |-> NoMsg])
      /\ Typed([pc |-> "cancelled", line |-> NoMsg])
  BY Zenon DEF ReaderPCs
<1>1. CASE dispatch
  <2>1. Head(wire) \in Lines /\ wire' \in Seq(Lines)
    BY <1>1, HeadTail, Zenon DEF dispatch, FeedInv
  <2>2. Route(Head(wire)) \in {"response", "flush", "stash"}
        /\ (Route(Head(wire)) # "response" => Head(wire) \in Msgs)
    BY <2>1, RoutedLine, Zenon DEF Route
  <2>3. reader' = [pc |-> Route(Head(wire)), line |-> Head(wire)]
    BY <1>1, Zenon DEF dispatch
  <2>4. Typed(reader') /\ (reader'.pc \in {"stash", "flush"} => reader'.line \in Msgs)
    BY <2>1, <2>2, <2>3, Zenon DEF ReaderPCs
  <2>5. UNCHANGED <<sent, todo, preAuthQ, extranonce, jobsCh, carry>>
    BY <1>1, Zenon DEF dispatch, poolVars, stashVars, effectVars
  <2> QED  BY <2>1, <2>4, <2>5, Zenon DEF FeedInv
<1>2. CASE handleResponse \/ Deliver \/ ReadFails \/ closeChannels
  <2>1. Typed(reader') /\ reader'.pc \notin {"stash", "flush"}
    <3>1. CASE handleResponse
      <4>1. Typed(reader) /\ "deliver" \in ReaderPCs
        BY Zenon DEF FeedInv, ReaderPCs
      <4>2. reader' = [reader EXCEPT !.pc = "deliver"] \/ reader' = [pc |-> "read", line |-> NoMsg]
        BY <3>1, Zenon DEF handleResponse
      <4>3. reader' = [reader EXCEPT !.pc = "deliver"] => Typed(reader') /\ reader'.pc = "deliver"
        BY SMTT(30), <4>1
      <4>4. reader' = [pc |-> "read", line |-> NoMsg] => Typed(reader') /\ reader'.pc = "read"
        BY SMTT(30), <1>0
      <4> QED  BY SMTT(30), <4>2, <4>3, <4>4
    <3>2. CASE Deliver \/ ReadFails
      BY SMTT(30), <1>0, <3>2 DEF Deliver, ReadFails
    <3>3. CASE closeChannels
      <4>1. Typed(reader) /\ "ended" \in ReaderPCs
        BY Zenon DEF FeedInv, ReaderPCs
      <4>2. reader' = [reader EXCEPT !.pc = "ended"]
        BY <3>3, Zenon DEF closeChannels
      <4>3. Typed(reader') /\ reader'.pc = "ended"
        BY SMTT(30), <4>1, <4>2
      <4> QED  BY <4>3, Zenon
    <3> QED  BY <1>2, <3>1, <3>2, <3>3, Zenon
  <2>2. UNCHANGED <<sent, wire, todo, preAuthQ, extranonce, jobsCh, carry>>
    BY <1>2, Zenon
    DEF handleResponse, Deliver, ReadFails, closeChannels, poolVars, stashVars, effectVars
  <2> QED  BY <2>1, <2>2, Zenon DEF FeedInv
<1>3. CASE stashPreAuth
  <2>1. reader.line \in Msgs /\ preAuthQ \in Seq(Msgs)
    BY <1>3, Zenon DEF stashPreAuth, FeedInv
  <2>2. ASSUME Len(preAuthQ) >= PreAuthCap PROVE Tail(preAuthQ) \in Seq(Msgs)
    <3>1. PreAuthCap \in Nat \ {0}
      BY CapsAssumption, Zenon
    <3>2. preAuthQ # <<>>
      BY <2>1, <2>2, <3>1, FullNonempty, Zenon
    <3> QED  BY <2>1, <3>2, HeadTail, Zenon
  <2>3. preAuthQ' \in Seq(Msgs)
    BY <1>3, <2>1, <2>2 DEF stashPreAuth
  <2>4. Typed(reader') /\ reader'.pc = "read"
    BY <1>0, <1>3, Zenon DEF stashPreAuth
  <2>5. UNCHANGED <<sent, wire, todo, extranonce, jobsCh, carry>>
    BY <1>3, Zenon DEF stashPreAuth, poolVars, effectVars
  <2> QED  BY <2>3, <2>4, <2>5, Zenon DEF FeedInv
<1>4. CASE ReaderFlush
  <2>1. Append(preAuthQ, reader.line) \in Seq(Msgs)
    BY <1>4 DEF ReaderFlush, FeedInv
  <2>2. todo' \in [Goroutines -> Seq(Msgs)]
    BY Zenon, <1>4, <2>1 DEF ReaderFlush, FeedInv
  <2>5. preAuthQ' \in Seq(Msgs)
    BY <1>4 DEF ReaderFlush, TakeStash
  <2>3. Typed(reader') /\ reader'.pc = "apply"
    BY <1>0, <1>4, Zenon DEF ReaderFlush
  <2>4. UNCHANGED <<sent, wire, extranonce, jobsCh, carry>>
    BY <1>4, Zenon DEF ReaderFlush, poolVars, effectVars
  <2> QED  BY <2>2, <2>3, <2>4, <2>5, Zenon DEF FeedInv
<1> QED  BY <1>1, <1>2, <1>3, <1>4, Zenon

\* The queue after sendJob, in the terms of JobFeed.
LEMMA SendJobOffers ==
  ASSUME NEW q \in Seq(Jobs), NEW job \in Jobs
  PROVE  /\ sendJob(q, job) \in Seq(Jobs)
         /\ \E lost \in 0 .. Len(q) :
              /\ job.clean => lost = Len(q)
              /\ sendJob(q, job) = Append(SubSeq(q, lost + 1, Len(q)), job)
<1> DEFINE Offers(lost) ==
             /\ job.clean => lost = Len(q)
             /\ sendJob(q, job) = Append(SubSeq(q, lost + 1, Len(q)), job)
<1> SUFFICES sendJob(q, job) \in Seq(Jobs) /\ \E lost \in 0 .. Len(q) : Offers(lost)
  BY Zenon
<1>1. CASE job.clean
  <2>1. Offers(Len(q))
    BY <1>1, LoseAll, Zenon DEF sendJob
  <2>2. sendJob(q, job) \in Seq(Jobs) /\ Len(q) \in 0 .. Len(q)
    BY <1>1 DEF sendJob
  <2> HIDE DEF Offers
  <2> QED  BY <2>1, <2>2, Zenon
<1>2. CASE ~job.clean /\ Len(q) >= JobsChCap
  <2>1. JobsChCap \in Nat \ {0}
    BY CapsAssumption, Zenon
  <2>2. q # <<>>
    BY <1>2, <2>1, FullNonempty, Zenon
  <2>3. Tail(q) = SubSeq(q, 2, Len(q)) /\ Tail(q) \in Seq(Jobs)
    BY <2>2, LoseOldest, Zenon
  <2>4. sendJob(q, job) = Append(Tail(q), job)
    BY <1>2, Zenon DEF sendJob, DropOldest
  <2>5. Offers(1)
    <3>1. SubSeq(q, 1 + 1, Len(q)) = Tail(q)
      <4>1. 1 + 1 = 2
        OBVIOUS
      <4> QED  BY ONLY <2>3, <4>1, Zenon
    <3> QED  BY <1>2, <2>4, <3>1, Zenon
  <2>6. sendJob(q, job) \in Seq(Jobs) /\ 1 \in 0 .. Len(q)
    BY <2>2, <2>3, <2>4
  <2> HIDE DEF Offers
  <2> QED  BY <2>5, <2>6, Zenon
<1>3. CASE ~job.clean /\ ~(Len(q) >= JobsChCap)
  <2>1. sendJob(q, job) = Append(q, job)
    BY <1>3, Zenon DEF sendJob, DropOldest
  <2>2. Offers(0)
    BY <1>3, <2>1, LoseNone
  <2>3. sendJob(q, job) \in Seq(Jobs) /\ 0 \in 0 .. Len(q)
    BY <2>1
  <2> HIDE DEF Offers
  <2> QED  BY <2>2, <2>3, Zenon
<1> QED  BY <1>1, <1>2, <1>3, Zenon

\* A goroutine applies the next message it holds; whichever it is, at most the queue or
\* the extranonce changes, and the goroutine carries nothing afterwards.
LEMMA ApplyKeeps ==
  ASSUME FeedInv, NEW g \in Goroutines, dispatchPoolMsg(g)
  PROVE  FeedInv'
<1> DEFINE m == Head(todo[g])
<1>1. m \in Msgs /\ Tail(todo[g]) \in Seq(Msgs) /\ m.n \in 1 .. MaxMsgs
  <2>1. todo[g] \in Seq(Msgs) /\ todo[g] # <<>>
    BY Zenon DEF FeedInv, dispatchPoolMsg
  <2>2. m \in Msgs /\ Tail(todo[g]) \in Seq(Msgs)
    BY <2>1, HeadTail, Zenon
  <2> QED  BY <2>2, MsgIsLine, Zenon
<1>2. todo' \in [Goroutines -> Seq(Msgs)] /\ carry' \in [Goroutines -> Jobs \cup {NoJob}]
  BY <1>1, Zenon DEF dispatchPoolMsg, FeedInv
<1>3. UNCHANGED <<sent, wire, reader, preAuthQ>>
  BY Zenon DEF dispatchPoolMsg, poolVars, stashVars
<1>4. CASE handleNotify(g, m)
  <2>1. carry[g] \in Jobs /\ jobsCh \in Seq(Jobs)
    BY <1>4, Zenon DEF FeedInv, handleNotify
  <2>2. jobsCh' \in Seq(Jobs) /\ extranonce' = extranonce
    BY <1>4, <2>1, SendJobOffers, Zenon DEF handleNotify
  <2> QED  BY <1>2, <1>3, <2>2, Zenon DEF FeedInv
<1>5. CASE handleSetExtranonce(m)
  <2>1. extranonce' \in -1 .. MaxMsgs /\ jobsCh' = jobsCh
    BY <1>1, <1>5 DEF handleSetExtranonce
  <2> QED  BY <1>2, <1>3, <2>1, Zenon DEF FeedInv
<1>6. CASE handleSetDifficulty(g, m) \/ handleShowMessage(m) \/ handleVersionMask(g, m)
             \/ handleReconnect(m)
  <2>1. UNCHANGED <<jobsCh, extranonce>>
    BY <1>6, Zenon
    DEF handleSetDifficulty, handleShowMessage, handleVersionMask, handleReconnect
  <2> QED  BY <1>2, <1>3, <2>1, Zenon DEF FeedInv
<1> QED  BY <1>4, <1>5, <1>6, Zenon DEF dispatchPoolMsg

\* What a handler takes to sendMu has the number of the message it handles.
LEMMA AheadKeeps ==
  ASSUME FeedInv, NEW g \in Goroutines, AheadOfLock(g)
  PROVE  FeedInv'
<1> DEFINE m == Head(todo[g])
<1>1. m \in Msgs
  <2>1. todo[g] \in Seq(Msgs) /\ todo[g] # <<>>
    BY Zenon DEF FeedInv, AheadOfLock
  <2> QED  BY <2>1, HeadTail, Zenon
<1>2. completeV1Job(m) \in Jobs
  BY <1>1, JobTyped, Zenon DEF FeedInv
<1>3. JustNumber(m) \in Jobs
  <2>1. m.n \in 1 .. MaxMsgs
    BY <1>1, MsgIsLine, Zenon
  <2>2. 0 \in -1 .. MaxMsgs
    BY SMTT(30), BoundsAssumption
  <2> QED  BY <2>1, <2>2, Zenon DEF JustNumber, Jobs
<1>4. \E x \in Jobs : carry' = [carry EXCEPT ![g] = x]
  BY <1>2, <1>3, Zenon DEF AheadOfLock, completesJob, storesDifficulty, warnsOfMask
<1>5. carry' \in [Goroutines -> Jobs \cup {NoJob}]
  BY <1>4, Zenon DEF FeedInv
<1>6. UNCHANGED <<sent, wire, reader, todo, preAuthQ, extranonce, jobsCh>>
  BY Zenon DEF AheadOfLock, poolVars, stashVars
<1> QED  BY <1>5, <1>6, Zenon DEF FeedInv

\* Every other step leaves what FeedInv speaks of alone, but for the negotiator, who sets
\* the extranonce and takes the stash, and the engine, who takes jobs.
LEMMA OthersKeep ==
  ASSUME FeedInv, NEW g \in Goroutines, NEW c \in Callers,
         Replayed(g) \/ Subscribed \/ flushPreAuth \/ EngineTakes \/ NegotiateFails \/ Authorized
           \/ Ready \/ CloseStep \/ CallStep(c) \/ GiveUp(c) \/ EngineCloses \/ Done
  PROVE  FeedInv'
<1>1. CASE Replayed(g)
  <2>1. /\ reader' \in [pc : ReaderPCs, line : Lines \cup {NoMsg}]
        /\ reader'.pc \in {"stash", "flush"} => reader'.line \in Msgs
    BY <1>1, Zenon DEF Replayed, FeedInv, ReaderPCs
  <2>2. UNCHANGED <<sent, wire, todo, preAuthQ, extranonce, jobsCh, carry>>
    BY <1>1, Zenon DEF Replayed, poolVars, stashVars, effectVars
  <2> QED  BY <2>1, <2>2, Zenon DEF FeedInv
<1>2. CASE Subscribed
  <2>1. extranonce' \in -1 .. MaxMsgs
    BY <1>2, BoundsAssumption DEF Subscribed
  <2>2. UNCHANGED <<sent, wire, reader, todo, preAuthQ, jobsCh, carry>>
    BY <1>2, Zenon DEF Subscribed, poolVars, stashVars
  <2> QED  BY <2>1, <2>2, Zenon DEF FeedInv
<1>3. CASE flushPreAuth
  <2>1. todo' \in [Goroutines -> Seq(Msgs)]
    BY ZenonT(60), <1>3 DEF flushPreAuth, FeedInv
  <2>2. preAuthQ' \in Seq(Msgs)
    BY <1>3 DEF flushPreAuth, TakeStash
  <2>3. UNCHANGED <<sent, wire, reader, extranonce, jobsCh, carry>>
    BY <1>3, Zenon DEF flushPreAuth, poolVars, effectVars
  <2> QED  BY <2>1, <2>2, <2>3, Zenon DEF FeedInv
<1>4. CASE EngineTakes
  <2>0. jobsCh \in Seq(Jobs)
    BY Zenon DEF FeedInv
  <2>1. jobsCh' \in Seq(Jobs)
    <3>1. jobsCh # <<>> => Tail(jobsCh) \in Seq(Jobs)
      BY <2>0, HeadTail, Zenon
    <3>2. (jobsCh # <<>> /\ jobsCh' = Tail(jobsCh)) \/ jobsCh' = jobsCh
      BY <1>4, Zenon DEF EngineTakes
    <3> QED  BY <2>0, <3>1, <3>2, Zenon
  <2>2. UNCHANGED <<sent, wire, reader, todo, preAuthQ, extranonce, carry>>
    BY <1>4, Zenon DEF EngineTakes, poolVars, stashVars
  <2> QED  BY <2>1, <2>2, Zenon DEF FeedInv
<1>5. CASE NegotiateFails \/ Authorized \/ Ready \/ CloseStep \/ CallStep(c) \/ GiveUp(c)
             \/ EngineCloses \/ Done
  <2>1. UNCHANGED feedVars
    <3>1. CASE NegotiateFails \/ Authorized \/ Ready
      BY SMTT(60), <3>1
         DEF NegotiateFails, Authorized, Ready, poolVars, stashVars, effectVars, feedVars
    <3>2. CASE CloseStep \/ EngineCloses
      BY SMTT(30), <3>2
      DEF CloseStep, CloseCancels, CloseConn, EngineCloses, poolVars, stashVars,
        effectVars, feedVars
    <3>3. CASE CallStep(c) \/ GiveUp(c)
      BY ZenonT(60), <3>3
         DEF CallStep, StartCall, Register, Write, Receive, GiveUp, poolVars, stashVars,
        effectVars, feedVars
    <3>4. CASE Done
      BY <3>4, Zenon DEF Done, vars, poolVars, stashVars, effectVars, feedVars
    <3> QED  BY SMTT(60), <1>5, <3>1, <3>2, <3>3, <3>4
  <2> QED  BY <2>1, Zenon DEF FeedInv, feedVars
<1> QED  BY <1>1, <1>2, <1>3, <1>4, <1>5, Zenon

\* FeedInv is inductive.
LEMMA FeedStep == FeedInv /\ [Next]_vars => FeedInv'
<1> SUFFICES ASSUME FeedInv, [Next]_vars PROVE FeedInv'
  BY Zenon
<1>1. "reader" \in Goroutines /\ "negotiator" \in Goroutines /\ "negotiator" \in Callers
  BY Zenon DEF Goroutines, Callers
<1>2. CASE ReaderStep
  BY <1>1, <1>2, ReaderKeeps, ApplyKeeps, AheadKeeps, OthersKeep, Zenon DEF ReaderStep
<1>3. CASE NegotiatorStep
  BY <1>1, <1>3, ApplyKeeps, AheadKeeps, OthersKeep, Zenon DEF NegotiatorStep
<1>4. CASE (\E kind \in Kinds : PoolSends(kind))
             \/ (\E id \in CallIDs, ok \in BOOLEAN : PoolAnswers(id, ok)) \/ ReadFails
  BY <1>4, PoolKeeps, ReaderKeeps, Zenon
<1>5. CASE CloseStep \/ EngineTakes \/ EngineCloses \/ Done
             \/ (\E c \in Callers : CallStep(c) \/ GiveUp(c))
  BY <1>1, <1>5, OthersKeep, Zenon
<1>6. CASE UNCHANGED vars
  BY <1>6, Zenon DEF FeedInv, vars, poolVars, stashVars, effectVars
<1> QED  BY <1>2, <1>3, <1>4, <1>5, <1>6, ZenonT(30) DEF Next

-----------------------------------------------------------------------------
\* A message applied offers a job if it is a notify and the channels are open.
LEMMA ApplyOffers ==
  ASSUME FeedInv, NEW g \in Goroutines, dispatchPoolMsg(g)
  PROVE  [Feed!Next]_(Feed!vars)
<1> DEFINE m == Head(todo[g])
<1>2. UNCHANGED <<takenJob, closed>>
  BY Zenon DEF dispatchPoolMsg
<1>3. CASE handleNotify(g, m) /\ ~closed
  <2> DEFINE job == carry[g]
  <2>1. job \in Jobs /\ jobsCh \in Seq(Jobs)
    BY <1>3, Zenon DEF FeedInv, handleNotify
  <2>2. jobsCh' = sendJob(jobsCh, job)
    BY <1>3, Zenon DEF handleNotify
  <2> HIDE DEF job
  <2>3. PICK lost \in 0 .. Len(jobsCh) :
          /\ job.clean => lost = Len(jobsCh)
          /\ sendJob(jobsCh, job) = Append(SubSeq(jobsCh, lost + 1, Len(jobsCh)), job)
    BY ZenonT(60), <2>1, SendJobOffers
  <2>4. Feed!Offer(job, lost)
    BY <1>2, <1>3, <2>2, <2>3, Zenon DEF Feed!Offer
  <2> QED  BY <2>1, <2>3, <2>4, Zenon DEF Feed!Next
<1>4. CASE ~(handleNotify(g, m) /\ ~closed)
  <2>1. jobsCh' = jobsCh
    BY Zenon, <1>4 DEF dispatchPoolMsg, handleNotify, handleSetDifficulty, handleSetExtranonce,
      handleShowMessage, handleVersionMask, handleReconnect
  <2> QED  BY <1>2, <2>1, Zenon DEF Feed!vars
<1> QED  BY <1>3, <1>4, Zenon

\* Every step of the session is a step of the feed or leaves the feed alone.
LEMMA FeedSimulates == FeedInv /\ [Next]_vars => [Feed!Next]_(Feed!vars)
<1> SUFFICES ASSUME FeedInv, [Next]_vars PROVE [Feed!Next]_(Feed!vars)
  BY Zenon
<1>1. ASSUME NEW g \in Goroutines, dispatchPoolMsg(g) PROVE [Feed!Next]_(Feed!vars)
  BY <1>1, ApplyOffers, Zenon
<1>2. CASE EngineTakes
  <2>1. CASE jobsCh # <<>> /\ jobsCh' = Tail(jobsCh) /\ takenJob' = Head(jobsCh)
    BY <1>2, <2>1, Zenon DEF EngineTakes, Feed!Next, Feed!Take
  <2>2. CASE UNCHANGED <<jobsCh, takenJob>>
    BY <1>2, <2>2, Zenon DEF EngineTakes, Feed!vars
  <2> QED  BY SMTT(30), <1>2, <2>1, <2>2 DEF EngineTakes
<1>3. CASE closeChannels
  <2>1. closed' = TRUE /\ UNCHANGED <<jobsCh, takenJob>>
    BY <1>3, Zenon DEF closeChannels, effectVars, historyVars
  <2>2. CASE closed
    BY <2>1, <2>2, Zenon DEF Feed!vars
  <2>3. CASE ~closed
    BY <2>1, <2>3, Zenon DEF Feed!Next, Feed!Close
  <2> QED  BY <2>2, <2>3, Zenon
<1>4. CASE \/ \E kind \in Kinds : PoolSends(kind)
           \/ \E id \in CallIDs, ok \in BOOLEAN : PoolAnswers(id, ok)
           \/ dispatch \/ handleResponse \/ Deliver \/ stashPreAuth \/ ReaderFlush \/ ReadFails
           \/ \E g \in Goroutines : Replayed(g) \/ AheadOfLock(g)
  <2>1. UNCHANGED <<jobsCh, takenJob, closed>>
    BY ZenonT(60), <1>4
       DEF PoolSends, PoolAnswers, dispatch, handleResponse, Deliver, stashPreAuth,
      ReaderFlush, ReadFails, Replayed, AheadOfLock, effectVars, historyVars
  <2> QED  BY SMTT(30), <2>1 DEF Feed!vars
<1>5. CASE NegotiateFails \/ Subscribed \/ Authorized \/ flushPreAuth \/ Ready \/ CloseStep
             \/ EngineCloses
  <2>1. UNCHANGED <<jobsCh, takenJob, closed>>
    BY Zenon, <1>5 DEF NegotiateFails, Subscribed, Authorized, flushPreAuth, Ready, CloseStep,
      CloseCancels, CloseConn, EngineCloses, effectVars, historyVars
  <2> QED  BY <2>1, Zenon DEF Feed!vars
<1>6. CASE \E c \in Callers : CallStep(c) \/ GiveUp(c)
  <2>1. UNCHANGED <<jobsCh, takenJob, closed>>
    BY <1>6, Zenon
    DEF CallStep, StartCall, Register, Write, Receive, GiveUp, effectVars, historyVars
  <2> QED  BY <2>1, Zenon DEF Feed!vars
<1>7. CASE Done \/ UNCHANGED vars
  <2>1. UNCHANGED <<jobsCh, takenJob, closed>>
    BY <1>7, Zenon DEF Done, vars, effectVars, historyVars
  <2> QED  BY <2>1, Zenon DEF Feed!vars
<1>8. "reader" \in Goroutines /\ "negotiator" \in Goroutines
  BY Zenon DEF Goroutines
<1>9. CASE ReaderStep
  BY <1>1, <1>3, <1>4, <1>8, <1>9, ZenonT(30) DEF ReaderStep
<1>10. CASE NegotiatorStep
  BY <1>1, <1>4, <1>5, <1>8, <1>10, ZenonT(30) DEF NegotiatorStep
<1> QED  BY <1>2, <1>4, <1>5, <1>6, <1>7, <1>9, <1>10, ZenonT(30) DEF Next

\* A Stratum V1 session implements JobFeed: whichever goroutine applies the pool's
\* messages and whenever the engine takes, submits or closes, the newest job is never
\* lost, a clean job leaves no older one, and nothing is sent on the closed channel.
THEOREM SessionFeedsJobs == Spec => FeedsJobs
<1>1. Init => Feed!Init
  BY Zenon DEF Init, Feed!Init
<1> QED  BY <1>1, FeedInit, FeedStep, FeedSimulates, PTL DEF Spec, FeedsJobs, Feed!Spec

-----------------------------------------------------------------------------
Answer == {"ok", "error"}
CallerPCs == {"idle", "issued", "registered", "waiting", "ok", "failed"}

\* An id that is issued and not yet registered: nothing can have happened to its channel,
\* whatever the pool has answered.
Fresh(i) ==
  /\ i \in 1 .. nextID /\ i \notin pending /\ resp[i] = "none"
  /\ reader.pc = "deliver" => reader.line.n # i

\* What the read loop holds: an answer, and once it delivers it, the answer of a call that
\* it took out of pending itself.
InHand ==
  /\ reader.pc \in {"response", "deliver"} =>
       reader.line.n \in CallIDs /\ reader.line.kind \in Answer
  /\ reader.pc = "deliver" =>
       /\ reader.line.n \in 1 .. nextID /\ reader.line.n \notin pending
       /\ resp[reader.line.n] = "none"

\* A channel is used only after its call has left pending, and whoever takes a call out of
\* pending (the read loop to answer it, Close to cancel it, the caller to give up) is the
\* only one to do so; no id is registered twice.
CallInv ==
  /\ nextID \in 0 .. MaxCalls /\ pending \subseteq 1 .. nextID
  /\ resp \in [CallIDs -> {"none", "closed"} \cup Answer]
  /\ caller \in [Callers -> [pc : CallerPCs, id : 0 .. MaxCalls]]
  /\ \A i \in CallIDs : resp[i] # "none" => i <= nextID /\ i \notin pending
  /\ \A c \in Callers : caller[c].pc = "issued" => Fresh(caller[c].id)
  /\ \A c, d \in Callers :
       caller[c].pc = "issued" /\ caller[d].pc = "issued" /\ c # d => caller[c].id # caller[d].id
  /\ InHand

\* CallInv holds at the start.
LEMMA CallInit == Init => CallInv
  BY BoundsAssumption DEF Init, CallInv, InHand, CallIDs, IdleCall, CallerPCs, NoMsg

\* The pool only ever adds a line.
LEMMA PoolKeepsCalls ==
  ASSUME CallInv,
         \/ \E kind \in Kinds : PoolSends(kind)
         \/ \E id \in CallIDs, ok \in BOOLEAN : PoolAnswers(id, ok)
  PROVE  CallInv'
<1>1. UNCHANGED <<reader, nextID, pending, resp, caller>>
  BY ZenonT(60) DEF PoolSends, PoolAnswers, callVars
<1> QED  BY <1>1, ZenonT(60) DEF CallInv, InHand, Fresh

\* The read loop takes a line off the wire, a call out of pending, and answers it.
LEMMA ReaderKeepsCalls ==
  ASSUME FeedInv, CallInv, dispatch \/ handleResponse \/ Deliver
  PROVE  CallInv'
<1> DEFINE n == reader.line.n
<1>0. \A i : i \in 1 .. nextID => i \in CallIDs
  BY BoundsAssumption DEF CallInv, CallIDs
<1>1. CASE dispatch
  <2>1. UNCHANGED <<nextID, pending, resp, caller>>
    BY <1>1, Zenon DEF dispatch, callVars
  <2>2. Head(wire) \in Lines
    BY <1>1, HeadTail, Zenon DEF dispatch, FeedInv
  <2>3. reader' = [pc |-> Route(Head(wire)), line |-> Head(wire)]
    BY <1>1, Zenon DEF dispatch
  <2>4. reader'.pc # "deliver" /\ (reader'.pc = "response" => Head(wire).kind \in Answer)
    BY <2>3, Zenon DEF Route, Answer
  <2>5. Head(wire).kind \in Answer => Head(wire).n \in CallIDs
    BY <2>2, Zenon DEF Lines, Msgs, Answer, AllKinds
  <2>6. InHand'
    BY <2>3, <2>4, <2>5, Zenon DEF InHand
  <2>7. \A i : Fresh(i) => Fresh(i)'
    BY <2>1, <2>4, Zenon DEF Fresh
  <2> QED  BY <2>1, <2>6, <2>7, ZenonT(60) DEF CallInv
<1>2. CASE handleResponse
  <2>1. UNCHANGED <<nextID, resp, caller>> /\ pending' = pending \ {n}
    BY <1>2, Zenon DEF handleResponse
  <2>2. n \in CallIDs /\ reader.line.kind \in Answer
    BY <1>2, Zenon DEF handleResponse, CallInv, InHand
  <2>3. CASE n \in pending
    <3>1. reader'.line = reader.line /\ reader'.pc = "deliver"
      BY <1>2, <2>3, Zenon DEF handleResponse, FeedInv
    <3>2. resp[n] = "none" /\ n \in 1 .. nextID
      BY <2>2, <2>3, Zenon DEF CallInv
    <3>3. InHand'
      BY <2>1, <2>2, <3>1, <3>2, Zenon DEF InHand
    <3>4. \A i : Fresh(i) => Fresh(i)'
      BY <2>1, <2>3, <3>1, Zenon DEF Fresh
    <3> QED  BY <2>1, <3>3, <3>4, ZenonT(60) DEF CallInv
  <2>4. CASE n \notin pending
    <3>1. reader'.pc = "read"
      BY <1>2, <2>4, Zenon DEF handleResponse
    <3>2. InHand' /\ \A i : Fresh(i) => Fresh(i)'
      BY <2>1, <3>1, Zenon DEF InHand, Fresh
    <3> QED  BY <2>1, <3>2, ZenonT(60) DEF CallInv
  <2> QED  BY <2>3, <2>4, Zenon
<1>3. CASE Deliver
  <2>1. UNCHANGED <<nextID, pending, caller>> /\ reader'.pc = "read"
    BY <1>3, Zenon DEF Deliver
  <2>2. reader.pc = "deliver" /\ n \in 1 .. nextID /\ n \notin pending /\ reader.line.kind \in Answer
    BY <1>3, Zenon DEF Deliver, CallInv, InHand
  <2>3. n \in CallIDs /\ n <= nextID
    BY <1>0, <2>2 DEF CallInv
  <2>4. resp' = [resp EXCEPT ![n] = reader.line.kind]
    BY <1>3, Zenon DEF Deliver
  <2> HIDE DEF n
  <2>5. /\ resp' \in [CallIDs -> {"none", "closed"} \cup Answer]
        /\ \A i \in CallIDs : resp'[i] # "none" => i <= nextID /\ i \notin pending
        /\ \A i \in CallIDs : i # n => resp'[i] = resp[i]
    BY <2>2, <2>3, <2>4, Zenon DEF CallInv
  <2>6. \A i : Fresh(i) => Fresh(i)'
    <3>1. \A i : Fresh(i) => i # n /\ i \in CallIDs
      BY <1>0, <2>2, Zenon DEF Fresh, n
    <3> QED  BY <2>1, <2>5, <3>1, ZenonT(60) DEF Fresh
  <2>7. InHand'
    BY <2>1, Zenon DEF InHand
  <2> QED  BY <2>1, <2>5, <2>6, <2>7, ZenonT(60) DEF CallInv
<1> QED  BY <1>1, <1>2, <1>3, Zenon

\* Both places that cancel the pending calls close exactly the channels of these.
LEMMA CancelKeepsCalls ==
  ASSUME FeedInv, CallInv, ReadFails \/ CloseCancels
  PROVE  CallInv'
<1>1. UNCHANGED <<nextID, caller>> /\ (reader' = reader \/ reader'.pc = "cancelled")
  <2>1. CASE ReadFails
    BY <2>1 DEF ReadFails
  <2>2. CASE CloseCancels
    BY <2>2 DEF CloseCancels
  <2> QED  BY <2>1, <2>2, Zenon
<1>2. /\ pending' = {}
      /\ resp' = [i \in CallIDs |-> IF i \in pending THEN "closed" ELSE resp[i]]
  BY Zenon DEF ReadFails, CloseCancels, cancelPending
<1>3. /\ resp' \in [CallIDs -> {"none", "closed"} \cup Answer]
      /\ \A i \in CallIDs : resp'[i] # "none" => i <= nextID /\ i \notin pending'
      /\ \A i \in CallIDs : i \notin pending => resp'[i] = resp[i]
  BY <1>2, BoundsAssumption DEF CallInv, CallIDs
<1>4. \A i : i \in 1 .. nextID => i \in CallIDs
  BY BoundsAssumption DEF CallInv, CallIDs
<1>5. \A c \in Callers : caller[c].pc = "issued" => Fresh(caller[c].id)'
  BY <1>1, <1>2, <1>3, <1>4, Zenon DEF CallInv, Fresh
<1>6. InHand'
  <2>1. CASE ReadFails
    BY <2>1, Zenon DEF ReadFails, InHand
  <2>2. CASE CloseCancels
    <3>1. UNCHANGED reader
      BY <2>2, Zenon DEF CloseCancels
    <3>2. reader.pc = "deliver" => reader.line.n \in CallIDs
      BY ZenonT(60), <1>4 DEF CallInv, InHand
    <3> QED  BY <1>1, <1>2, <1>3, <3>1, <3>2, ZenonT(30) DEF CallInv, InHand
  <2> QED  BY <2>1, <2>2, Zenon
<1> QED  BY <1>1, <1>2, <1>3, <1>5, <1>6, Zenon DEF CallInv, InHand

\* A call takes an id that nobody has used, and registers it before it is written.
LEMMA StartKeepsCalls ==
  ASSUME FeedInv, CallInv, NEW c \in Callers, StartCall(c)
  PROVE  CallInv'
<1>1. UNCHANGED <<reader, pending, resp>>
  BY Zenon DEF StartCall
<1>2. nextID' = nextID + 1 /\ nextID' \in 0 .. MaxCalls /\ nextID \in Nat
  BY BoundsAssumption DEF StartCall, CallInv
<1>3. caller' = [caller EXCEPT ![c] = [pc |-> "issued", id |-> nextID + 1]]
  BY Zenon DEF StartCall
<1>4. /\ caller' \in [Callers -> [pc : CallerPCs, id : 0 .. MaxCalls]]
      /\ caller'[c].id = nextID + 1
      /\ \A d \in Callers : d # c => caller'[d] = caller[d]
  BY <1>2, <1>3, Zenon DEF CallInv, CallerPCs
<1>5. (\A d \in Callers : caller[d].pc = "issued" => Fresh(caller[d].id))'
  <2>1. nextID + 1 \in 1 .. nextID' /\ nextID + 1 \in CallIDs
    BY SMTT(60), <1>2, BoundsAssumption DEF CallIDs
  <2>2. nextID + 1 \notin pending /\ resp[nextID + 1] = "none"
        /\ (reader.pc = "deliver" => reader.line.n # nextID + 1)
    BY <1>2, <2>1 DEF CallInv, InHand
  <2>3. \A i : Fresh(i) => Fresh(i)'
    BY <1>1, <1>2 DEF Fresh
  <2>4. \A i : i = nextID + 1 => Fresh(i)'
    BY <1>1, <2>1, <2>2, Zenon DEF Fresh
  <2>5. \A d \in Callers : d # c /\ caller[d].pc = "issued" => Fresh(caller[d].id)
    BY ZenonT(60) DEF CallInv
  <2> HIDE DEF Fresh
  <2> QED  BY <1>4, <2>3, <2>4, <2>5, Zenon
<1>6. \A d, e \in Callers :
        caller'[d].pc = "issued" /\ caller'[e].pc = "issued" /\ d # e =>
          caller'[d].id # caller'[e].id
  <2>1. \A d \in Callers : d # c /\ caller[d].pc = "issued" => caller[d].id <= nextID
    BY SMTT(60) DEF CallInv, Fresh
  <2> QED  BY SMTT(60), <1>2, <1>4, <2>1 DEF CallInv
<1>7. \A i \in CallIDs : resp'[i] # "none" => i <= nextID' /\ i \notin pending'
  BY <1>1, <1>2 DEF CallInv, CallIDs
<1>8. pending' \subseteq 1 .. nextID'
  BY SMTT(60), <1>1, <1>2 DEF CallInv
<1>9. InHand'
  BY SMTT(60), <1>1, <1>2 DEF CallInv, InHand
<1> QED  BY <1>1, <1>2, <1>4, <1>5, <1>6, <1>7, <1>8, <1>9, ZenonT(30) DEF CallInv

\* A call that registers is pending under an id of its own.
LEMMA RegisterKeepsCalls ==
  ASSUME FeedInv, CallInv, NEW c \in Callers, Register(c)
  PROVE  CallInv'
<1> DEFINE id == caller[c].id
<1>1. UNCHANGED <<reader, nextID, resp>> /\ pending' = pending \cup {id}
  BY Zenon DEF Register
<1>2. Fresh(id) /\ caller[c].pc = "issued"
  BY Zenon DEF Register, CallInv
<1>3. /\ caller' \in [Callers -> [pc : CallerPCs, id : 0 .. MaxCalls]]
      /\ caller'[c].pc = "registered"
      /\ \A d \in Callers : d # c => caller'[d] = caller[d]
  BY SMTT(30) DEF Register, CallInv, CallerPCs
<1>4. \A d \in Callers : d # c /\ caller[d].pc = "issued" => caller[d].id # id
  BY <1>2, ZenonT(60) DEF CallInv
<1> HIDE DEF id
<1>5. (\A d \in Callers : caller[d].pc = "issued" => Fresh(caller[d].id))'
  BY SMTT(30), <1>1, <1>3, <1>4 DEF CallInv, Fresh
<1>6. \A d, e \in Callers :
        caller'[d].pc = "issued" /\ caller'[e].pc = "issued" /\ d # e =>
          caller'[d].id # caller'[e].id
  BY <1>3 DEF CallInv
<1>7. \A i \in CallIDs : resp'[i] # "none" => i <= nextID' /\ i \notin pending'
  BY SMTT(30), <1>1, <1>2 DEF CallInv, Fresh
<1>8. InHand'
  BY <1>1, <1>2, Zenon DEF CallInv, InHand, Fresh
<1>9. pending' \subseteq 1 .. nextID'
  BY <1>1, <1>2, Zenon DEF CallInv, Fresh
<1> QED  BY SMTT(30), <1>1, <1>3, <1>5, <1>6, <1>7, <1>8, <1>9 DEF CallInv, InHand

\* A caller that moves on, other than to issue a call, disturbs nobody: at most it takes
\* calls out of pending.
LEMMA CallerMovesOn ==
  ASSUME CallInv, NEW c \in Callers, NEW r \in [pc : CallerPCs \ {"issued"}, id : 0 .. MaxCalls],
         caller' = [caller EXCEPT ![c] = r], pending' \subseteq pending,
         UNCHANGED <<reader, nextID, resp>>
  PROVE  CallInv'
<1>1. /\ caller' \in [Callers -> [pc : CallerPCs, id : 0 .. MaxCalls]]
      /\ \A d \in Callers : caller'[d].pc = "issued" => d # c /\ caller'[d] = caller[d]
  BY Zenon DEF CallInv
<1>2. (\A d \in Callers : caller[d].pc = "issued" => Fresh(caller[d].id))'
  BY <1>1, ZenonT(60) DEF CallInv, Fresh
<1>3. \A d, e \in Callers :
        caller'[d].pc = "issued" /\ caller'[e].pc = "issued" /\ d # e =>
          caller'[d].id # caller'[e].id
  BY <1>1, ZenonT(60) DEF CallInv
<1>4. /\ \A i \in CallIDs : resp'[i] # "none" => i <= nextID' /\ i \notin pending'
      /\ pending' \subseteq 1 .. nextID'
  BY Zenon DEF CallInv
<1>5. InHand'
  BY Zenon DEF CallInv, InHand
<1> QED  BY <1>1, <1>2, <1>3, <1>4, <1>5, Zenon DEF CallInv, InHand

\* A call that writes, receives or gives up only leaves the pending ones.
LEMMA CallerKeepsCalls ==
  ASSUME FeedInv, CallInv, NEW c \in Callers, Write(c) \/ Receive(c) \/ GiveUp(c)
  PROVE  CallInv'
<1>1. UNCHANGED <<reader, nextID, resp>> /\ pending' \subseteq pending
  <2>1. CASE Write(c)
    BY <2>1, Zenon DEF Write
  <2>2. CASE Receive(c)
    BY <2>2, Zenon DEF Receive
  <2>3. CASE GiveUp(c)
    BY <2>3, Zenon DEF GiveUp
  <2> QED  BY <2>1, <2>2, <2>3, Zenon
<1>2. \E pc \in CallerPCs \ {"issued"} : caller' = [caller EXCEPT ![c].pc = pc]
  <2>1. "waiting" \in CallerPCs \ {"issued"} /\ "failed" \in CallerPCs \ {"issued"}
        /\ "ok" \in CallerPCs \ {"issued"}
    BY Zenon DEF CallerPCs
  <2>2. CASE Write(c)
    BY <2>1, <2>2, Zenon DEF Write
  <2>3. CASE Receive(c)
    BY Zenon, <2>1, <2>3 DEF Receive
  <2>4. CASE GiveUp(c)
    BY Zenon, <2>1, <2>4 DEF GiveUp
  <2> QED  BY <2>2, <2>3, <2>4, Zenon
<1>3. PICK pc \in CallerPCs \ {"issued"} : caller' = [caller EXCEPT ![c].pc = pc]
  BY Zenon, <1>2
<1>4. /\ [pc |-> pc, id |-> caller[c].id] \in [pc : CallerPCs \ {"issued"}, id : 0 .. MaxCalls]
      /\ caller' = [caller EXCEPT ![c] = [pc |-> pc, id |-> caller[c].id]]
  <2>1. caller[c] \in [pc : CallerPCs, id : 0 .. MaxCalls]
    BY Zenon DEF CallInv
  <2>2. [caller[c] EXCEPT !.pc = pc] = [pc |-> pc, id |-> caller[c].id]
    BY <2>1
  <2>3. caller[c].id \in 0 .. MaxCalls
    BY <2>1, Zenon
  <2>4. caller' = [caller EXCEPT ![c] = [caller[c] EXCEPT !.pc = pc]]
    BY <1>3, Zenon
  <2> QED  BY Zenon, <2>2, <2>3, <2>4
<1> QED  BY ZenonT(60), <1>1, <1>4, CallerMovesOn

\* The negotiation takes its answers.
LEMMA NegotiatorKeepsCalls ==
  ASSUME FeedInv, CallInv, Subscribed \/ Authorized
  PROVE  CallInv'
<1>1. UNCHANGED <<reader, nextID, resp, pending>>
      /\ caller' = [caller EXCEPT !["negotiator"] = IdleCall]
  BY Zenon DEF Subscribed, Authorized
<1>2. "negotiator" \in Callers
  BY Zenon DEF Callers
<1>3. IdleCall \in [pc : CallerPCs \ {"issued"}, id : 0 .. MaxCalls]
  BY BoundsAssumption DEF IdleCall, CallerPCs
<1> QED  BY ZenonT(60), <1>1, <1>2, <1>3, CallerMovesOn

\* Every other step leaves the calls and the wire alone, and no response in hand.
LEMMA QuietKeepsCalls ==
  ASSUME FeedInv, CallInv, NEW g \in Goroutines,
         stashPreAuth \/ ReaderFlush \/ closeChannels \/ dispatchPoolMsg(g) \/ AheadOfLock(g)
           \/ Replayed(g) \/ NegotiateFails \/ flushPreAuth \/ Ready \/ EngineTakes \/ EngineCloses \/ CloseConn
           \/ UNCHANGED vars
  PROVE  CallInv'
<1>1. UNCHANGED <<nextID, pending, resp, caller>>
  <2>1. CASE stashPreAuth \/ ReaderFlush \/ closeChannels
    BY <2>1, Zenon DEF stashPreAuth, ReaderFlush, closeChannels, callVars
  <2>2. CASE dispatchPoolMsg(g) \/ AheadOfLock(g)
    BY <2>2, Zenon DEF dispatchPoolMsg, AheadOfLock, callVars
  <2>3. CASE Replayed(g)
    BY SMTT(60), <2>3 DEF Replayed, callVars
  <2>4. CASE NegotiateFails \/ flushPreAuth \/ Ready
    BY SMTT(30), <2>4 DEF NegotiateFails, flushPreAuth, Ready, callVars
  <2>5. CASE EngineTakes \/ EngineCloses \/ CloseConn
    BY <2>5, Zenon DEF EngineTakes, EngineCloses, CloseConn, callVars
  <2>6. CASE UNCHANGED vars
    BY <2>6, Zenon DEF vars, callVars
  <2> QED  BY <2>1, <2>2, <2>3, <2>4, <2>5, <2>6, ZenonT(30)
<1>2. reader' = reader \/ reader'.pc \in {"read", "apply", "ended"}
  <2>1. CASE stashPreAuth \/ ReaderFlush
    BY SMTT(30), <2>1 DEF stashPreAuth, ReaderFlush
  <2>2. CASE closeChannels
    BY SMTT(30), <2>2 DEF closeChannels, FeedInv
  <2>3. CASE Replayed(g)
    BY SMTT(30), <2>3 DEF Replayed, FeedInv
  <2>4. CASE dispatchPoolMsg(g) \/ AheadOfLock(g)
    BY <2>4, ZenonT(60) DEF dispatchPoolMsg, AheadOfLock
  <2>5. CASE NegotiateFails \/ flushPreAuth \/ Ready
    BY SMTT(30), <2>5 DEF NegotiateFails, flushPreAuth, Ready
  <2>6. CASE EngineTakes \/ EngineCloses \/ CloseConn
    BY <2>6, Zenon DEF EngineTakes, EngineCloses, CloseConn
  <2>7. CASE UNCHANGED vars
    BY <2>7, Zenon DEF vars
  <2> QED  BY SMTT(60), <2>1, <2>2, <2>3, <2>4, <2>5, <2>6, <2>7
<1>3. InHand'
  BY <1>1, <1>2, Zenon DEF CallInv, InHand
<1>4. \A i : Fresh(i) => Fresh(i)'
  BY <1>1, <1>2, Zenon DEF Fresh
<1> QED  BY <1>1, <1>3, <1>4, ZenonT(60) DEF CallInv

\* Every step keeps CallInv.
LEMMA CallsStep == FeedInv /\ CallInv /\ [Next]_vars => CallInv'
<1> SUFFICES ASSUME FeedInv, CallInv, [Next]_vars PROVE CallInv'
  BY Zenon
<1>1. "reader" \in Goroutines /\ "negotiator" \in Goroutines
  BY Zenon DEF Goroutines
<1>2. CASE ReaderStep
  BY <1>1, <1>2, ReaderKeepsCalls, QuietKeepsCalls, ZenonT(30) DEF ReaderStep
<1>3. CASE NegotiatorStep
  BY <1>1, <1>3, NegotiatorKeepsCalls, QuietKeepsCalls, ZenonT(30) DEF NegotiatorStep
<1>4. CASE \E c \in Callers : CallStep(c) \/ GiveUp(c)
  BY <1>4, StartKeepsCalls, RegisterKeepsCalls, CallerKeepsCalls, ZenonT(30) DEF CallStep
<1>5. CASE ReadFails \/ CloseStep
  BY <1>1, <1>5, CancelKeepsCalls, QuietKeepsCalls, ZenonT(30) DEF CloseStep
<1>6. CASE EngineTakes \/ EngineCloses \/ Done \/ UNCHANGED vars
  BY <1>1, <1>6, QuietKeepsCalls, ZenonT(30) DEF Done
<1> QED  BY SMTT(30), <1>2, <1>3, <1>4, <1>5, <1>6, PoolKeepsCalls DEF Next

\* Only the delivery of an answer and the cancelling of the pending calls write to a
\* response channel.
LEMMA OnlySettlers ==
  ASSUME [Next]_vars, resp' # resp
  PROVE  Deliver \/ ReadFails \/ CloseCancels
<1>1. ASSUME \/ \E kind \in Kinds : PoolSends(kind)
             \/ \E id \in CallIDs, ok \in BOOLEAN : PoolAnswers(id, ok)
      PROVE  FALSE
  BY ZenonT(60), <1>1 DEF PoolSends, PoolAnswers, callVars
<1>2. ASSUME NEW g \in Goroutines, dispatchPoolMsg(g) \/ AheadOfLock(g) \/ Replayed(g) PROVE FALSE
  BY <1>2, Zenon DEF dispatchPoolMsg, AheadOfLock, Replayed, callVars
<1>3. ASSUME NEW c \in Callers, CallStep(c) \/ GiveUp(c) PROVE FALSE
  BY <1>3, Zenon DEF CallStep, StartCall, Register, Write, Receive, GiveUp
<1>4. ASSUME dispatch \/ handleResponse \/ stashPreAuth \/ ReaderFlush \/ closeChannels PROVE FALSE
  BY <1>4, Zenon
  DEF dispatch, handleResponse, stashPreAuth, ReaderFlush, closeChannels, callVars
<1>5. ASSUME NegotiateFails \/ Subscribed \/ Authorized \/ flushPreAuth \/ Ready PROVE FALSE
  BY <1>5, Zenon DEF NegotiateFails, Subscribed, Authorized, flushPreAuth, Ready, callVars
<1>6. ASSUME EngineTakes \/ EngineCloses \/ CloseConn \/ Done \/ UNCHANGED vars PROVE FALSE
  BY <1>6, Zenon DEF EngineTakes, EngineCloses, CloseConn, Done, vars, callVars
<1>7. "reader" \in Goroutines /\ "negotiator" \in Goroutines
  BY Zenon DEF Goroutines
<1> QED  BY SMTT(30), <1>1, <1>2, <1>3, <1>4, <1>5, <1>6, <1>7
            DEF Next, ReaderStep, NegotiatorStep, CloseStep

\* No step touches a response channel that is settled.
LEMMA StepSettlesOnce ==
  FeedInv /\ CallInv /\ [Next]_vars =>
    [\A i \in DOMAIN resp : resp[i] # "none" => resp'[i] = resp[i]]_vars
<1> SUFFICES ASSUME FeedInv, CallInv, [Next]_vars, NEW i \in DOMAIN resp, resp[i] # "none"
             PROVE  resp'[i] = resp[i]
  BY Zenon
<1>1. i \in CallIDs
  BY Zenon DEF CallInv
<1>2. i \notin pending
  BY <1>1, Zenon DEF CallInv
<1>3. CASE Deliver
  BY <1>1, <1>3, Zenon DEF Deliver, CallInv, InHand
<1>4. CASE ReadFails \/ CloseCancels
  BY <1>1, <1>2, <1>4, Zenon DEF ReadFails, CloseCancels, cancelPending
<1> QED  BY <1>3, <1>4, OnlySettlers, Zenon

\* A response channel is written to once, by the read loop's answer or by whoever cancels
\* the pending calls, for any number of submitters and any interleaving: the second write
\* that would panic never happens.
THEOREM ResponsesSettleOnce == Spec => SettledOnce
  BY FeedInit, FeedStep, CallInit, CallsStep, StepSettlesOnce, PTL DEF Spec, SettledOnce

-----------------------------------------------------------------------------
\* The number a line carries if it is a pool message.
Number(x) == IF x.kind \in AllKinds THEN {x.n} ELSE {}

\* An empty queue carries no message.
LEMMA EmptyQueue == Numbers(<<>>) = {} /\ Distinct(<<>>)
  BY DEF Numbers, Distinct

\* Append adds a message's number to a queue.
LEMMA QueueGrows ==
  ASSUME NEW S, NEW q \in Seq(S), NEW x \in S
  PROVE  /\ Numbers(Append(q, x)) = Numbers(q) \cup Number(x)
         /\ Distinct(q) /\ Number(x) \cap Numbers(q) = {} => Distinct(Append(q, x))
<1>1. /\ DOMAIN Append(q, x) = 1 .. Len(q) + 1 /\ DOMAIN q = 1 .. Len(q) /\ Len(q) \in Nat
      /\ \A i \in 1 .. Len(q) : Append(q, x)[i] = q[i]
      /\ Append(q, x)[Len(q) + 1] = x
  OBVIOUS
<1>2. Numbers(Append(q, x)) = Numbers(q) \cup Number(x)
  <2>1. ASSUME NEW n \in Numbers(Append(q, x)) PROVE n \in Numbers(q) \cup Number(x)
    BY <1>1, <2>1 DEF Numbers, Number
  <2>2. ASSUME NEW n \in Numbers(q) \cup Number(x) PROVE n \in Numbers(Append(q, x))
    BY <1>1, <2>2 DEF Numbers, Number
  <2> QED  BY <2>1, <2>2, Zenon
<1>3. ASSUME Distinct(q), Number(x) \cap Numbers(q) = {} PROVE Distinct(Append(q, x))
  BY <1>1, <1>3 DEF Distinct, Numbers, Number
<1> QED  BY <1>2, <1>3, Zenon

\* Tail takes the first message's number off a queue.
LEMMA QueueShrinks ==
  ASSUME NEW S, NEW q \in Seq(S), q # <<>>, Distinct(q)
  PROVE  /\ Numbers(Tail(q)) = Numbers(q) \ Number(Head(q))
         /\ Number(Head(q)) \subseteq Numbers(q)
         /\ Distinct(Tail(q))
<1>1. /\ DOMAIN Tail(q) = 1 .. Len(q) - 1 /\ DOMAIN q = 1 .. Len(q) /\ Len(q) \in Nat \ {0}
      /\ \A i \in 1 .. Len(q) - 1 : Tail(q)[i] = q[i + 1]
      /\ Head(q) = q[1]
  OBVIOUS
<1>2. Number(Head(q)) \subseteq Numbers(q)
  BY SMTT(60), <1>1 DEF Number, Numbers
<1>3. Distinct(Tail(q))
  BY SMTT(60), <1>1 DEF Distinct
<1>4. ASSUME NEW n \in Numbers(Tail(q)) PROVE n \in Numbers(q) \ Number(Head(q))
  <2>1. PICK i \in 1 .. Len(q) - 1 : q[i + 1].kind \in AllKinds /\ n = q[i + 1].n
    BY <1>1, <1>4 DEF Numbers
  <2> QED  BY SMTT(60), <1>1, <2>1 DEF Numbers, Number, Distinct
<1>5. ASSUME NEW n \in Numbers(q), n \notin Number(Head(q)) PROVE n \in Numbers(Tail(q))
  <2>1. PICK i \in 1 .. Len(q) : q[i].kind \in AllKinds /\ n = q[i].n
    BY <1>1, <1>5, Zenon DEF Numbers
  <2>2. i # 1
    BY <1>1, <1>5, <2>1, Zenon DEF Number
  <2>3. i - 1 \in 1 .. Len(q) - 1 /\ Tail(q)[i - 1] = q[i]
    BY <1>1, <2>1, <2>2
  <2> QED  BY <1>1, <2>1, <2>3, Zenon DEF Numbers
<1> QED  BY <1>2, <1>3, <1>4, <1>5, Zenon

\* A number that was not applied before can be.
LEMMA AppendNew ==
  ASSUME NEW seq \in Seq(Nat), NEW x \in Nat, \A i \in DOMAIN seq : seq[i] # x,
         \A i, j \in DOMAIN seq : seq[i] = seq[j] => i = j
  PROVE  /\ Append(seq, x) \in Seq(Nat)
         /\ \A i, j \in DOMAIN Append(seq, x) : Append(seq, x)[i] = Append(seq, x)[j] => i = j
  OBVIOUS

\* Numbers that go from one place to another stay in one place.
LEMMA MoveKeeps ==
  ASSUME NEW at, NEW bt, NEW m, Spread(at, m), NEW from \in Places, NEW to \in Places, from # to,
         NEW X, X \subseteq at[from], bt[from] = at[from] \ X, bt[to] = at[to] \cup X,
         \A p \in Places \ {from, to} : bt[p] = at[p]
  PROVE  Spread(bt, m)
<1>1. \A p \in Places : bt[p] \subseteq 1 .. m
  BY Zenon DEF Spread
<1>2. ASSUME NEW n \in 1 .. m PROVE \E p \in Places : n \in bt[p]
  <2>1. PICK p \in Places : n \in at[p]
    BY Zenon DEF Spread
  <2> QED  BY <2>1, Zenon
<1>3. ASSUME NEW p \in Places, NEW q \in Places, NEW n \in 1 .. m, n \in bt[p], n \in bt[q]
      PROVE  p = q
  <2>1. CASE n \in X
    <3>1. \A r \in Places : n \in at[r] => r = from
      BY <2>1, Zenon DEF Spread
    <3> QED  BY <1>3, <2>1, <3>1, Zenon
  <2>2. CASE n \notin X
    <3>1. n \in at[p] /\ n \in at[q]
      BY <1>3, <2>2, Zenon
    <3> QED  BY <3>1, Zenon DEF Spread
  <2> QED  BY <2>1, <2>2, Zenon
<1> QED  BY <1>1, <1>2, <1>3, Zenon DEF Spread

\* The places a message can be in, before and after a step.
LEMMA AtIs ==
  /\ At["wire"] = Numbers(wire) /\ At["hand"] = Number(reader.line)
  /\ At["stash"] = Numbers(preAuthQ) /\ At["applied"] = {applied[i] : i \in DOMAIN applied}
  /\ At["dropped"] = dropped
  /\ At["reader"] = Numbers(todo["reader"]) /\ At["negotiator"] = Numbers(todo["negotiator"])
  /\ At'["wire"] = Numbers(wire') /\ At'["hand"] = Number(reader'.line)
  /\ At'["stash"] = Numbers(preAuthQ') /\ At'["applied"] = {applied'[i] : i \in DOMAIN applied'}
  /\ At'["dropped"] = dropped'
  /\ At'["reader"] = Numbers(todo'["reader"]) /\ At'["negotiator"] = Numbers(todo'["negotiator"])
  BY Zenon DEF At, Places, Number, Numbers


\* What does not change holds the same messages.
LEMMA AtKept ==
  /\ wire' = wire => At'["wire"] = At["wire"]
  /\ reader'.line = reader.line => At'["hand"] = At["hand"]
  /\ preAuthQ' = preAuthQ => At'["stash"] = At["stash"]
  /\ applied' = applied => At'["applied"] = At["applied"]
  /\ dropped' = dropped => At'["dropped"] = At["dropped"]
  /\ todo'["reader"] = todo["reader"] => At'["reader"] = At["reader"]
  /\ todo'["negotiator"] = todo["negotiator"] => At'["negotiator"] = At["negotiator"]
  BY ZenonT(60), AtIs

\* The rest of MessageInv, when a step leaves the queues and the goroutines alone.
LEMMA MessagesRest ==
  ASSUME MessageInv,
         UNCHANGED <<sent, wire, preAuthQ, todo, applied, dropped>>, reader'.line = reader.line,
         reader'.pc \notin {"stash", "flush"} => reader'.line.kind \notin AllKinds,
         reader'.pc # "apply" => todo["reader"] = <<>>,
         step' # "replay" => todo["negotiator"] = <<>>
  PROVE  MessageInv'
<1>1. At' = At
  BY Zenon DEF At
<1> QED  BY <1>1, Zenon DEF MessageInv

\* MessageInv holds at the start.
LEMMA MessageInit == Init => MessageInv
<1> SUFFICES ASSUME Init PROVE MessageInv
  BY Zenon
<1>1. /\ wire = <<>> /\ preAuthQ = <<>> /\ applied = <<>> /\ dropped = {} /\ sent = 0
      /\ \A g \in Goroutines : todo[g] = <<>>
      /\ reader.line = NoMsg /\ NoMsg.kind \notin AllKinds /\ reader.pc = "read"
      /\ todo["reader"] = <<>> /\ todo["negotiator"] = <<>>
  BY Zenon DEF Init, NoMsg, AllKinds, Goroutines
<1>2. \A p \in Places : At[p] = {}
  <2>1. Numbers(<<>>) = {} /\ Number(reader.line) = {} /\ {applied[i] : i \in DOMAIN applied} = {}
    BY <1>1, EmptyQueue DEF Number
  <2> QED  BY <1>1, <2>1, AtIs, ZenonT(60) DEF Places
<1> QED  BY <1>1, <1>2, EmptyQueue DEF MessageInv, Spread

\* The pool sends the next message, or an answer.
LEMMA PoolKeepsMessages ==
  ASSUME FeedInv, MessageInv,
         \/ \E kind \in Kinds : PoolSends(kind)
         \/ \E id \in CallIDs, ok \in BOOLEAN : PoolAnswers(id, ok)
  PROVE  MessageInv'
<1>0. wire \in Seq(Lines) /\ sent \in Nat
  BY DEF FeedInv
<1>1. ASSUME NEW kind \in Kinds, PoolSends(kind) PROVE MessageInv'
  <2> DEFINE m == [n |-> sent + 1, kind |-> kind]
  <2>1. /\ m \in Lines /\ Number(m) = {sent + 1}
    BY <1>1, KindsAssumption, BoundsAssumption DEF PoolSends, FeedInv, Lines, Msgs, Number
  <2>2. /\ sent' = sent + 1 /\ wire' = Append(wire, m)
        /\ UNCHANGED <<preAuthQ, todo, applied, dropped, reader, step>>
    BY <1>1, Zenon DEF PoolSends, stashVars, historyVars
  <2> HIDE DEF m
  <2>3. Numbers(wire') = Numbers(wire) \cup {sent + 1}
    BY SMTT(60), <1>0, <2>1, <2>2, QueueGrows
  <2>4. Numbers(wire) \subseteq 1 .. sent
    BY AtIs DEF MessageInv, Spread, Places
  <2>5. Distinct(wire')
    <3>1. Number(m) \cap Numbers(wire) = {}
      BY <1>0, <2>1, <2>4
    <3> QED  BY <1>0, <2>1, <2>2, <3>1, QueueGrows, Zenon DEF MessageInv
  <2>6. At'["wire"] = At["wire"] \cup {sent + 1} /\ \A p \in Places \ {"wire"} : At'[p] = At[p]
    <3>1. At'["wire"] = At["wire"] \cup {sent + 1}
      BY Zenon, <2>3, AtIs
    <3> QED  BY <2>2, <3>1, AtKept, Zenon DEF Places
  <2>7. Spread(At', sent + 1)
    <3>1. Spread(At, sent) /\ "wire" \in Places
      BY Zenon DEF MessageInv, Places
    <3>2. \A p \in Places : sent + 1 \notin At[p]
      BY <1>0, <3>1 DEF Spread
    <3>3. \A p \in Places : At'[p] \subseteq 1 .. sent + 1
      BY <1>0, <2>6, <3>1 DEF Spread
    <3>4. \A n \in 1 .. sent + 1 : n \in 1 .. sent \/ n = sent + 1
      BY <1>0
    <3>5. \A n \in 1 .. sent + 1 : \E p \in Places : n \in At'[p]
      BY <2>6, <3>1, <3>4, ZenonT(30) DEF Spread
    <3>6. ASSUME NEW p \in Places, NEW q \in Places, NEW n \in 1 .. sent + 1,
                 n \in At'[p], n \in At'[q]
          PROVE  p = q
      <4>1. CASE n = sent + 1
        BY <2>6, <3>2, <3>6, <4>1, ZenonT(30)
      <4>2. CASE n # sent + 1
        BY <2>6, <3>1, <3>4, <3>6, <4>2, ZenonT(30) DEF Spread
      <4> QED  BY <4>1, <4>2, Zenon
    <3> QED  BY <3>3, <3>5, <3>6, Zenon DEF Spread
  <2> QED  BY <2>2, <2>5, <2>7, ZenonT(60) DEF MessageInv
<1>2. ASSUME NEW id \in CallIDs, NEW ok \in BOOLEAN, PoolAnswers(id, ok) PROVE MessageInv'
  <2> DEFINE m == [n |-> id, kind |-> IF ok THEN "ok" ELSE "error"]
  <2>1. m \in Lines /\ Number(m) = {}
    BY Zenon DEF Lines, Number, AllKinds
  <2>2. /\ wire' = Append(wire, m)
        /\ UNCHANGED <<sent, preAuthQ, todo, applied, dropped, reader, step>>
    BY <1>2, Zenon DEF PoolAnswers, stashVars, historyVars
  <2> HIDE DEF m
  <2>3. Numbers(wire') = Numbers(wire) /\ Distinct(wire')
    BY <1>0, <2>1, <2>2, QueueGrows, ZenonT(60) DEF MessageInv
  <2>4. \A p \in Places : At'[p] = At[p]
    BY <2>2, <2>3, AtIs, ZenonT(60) DEF Places
  <2> QED  BY <2>2, <2>3, <2>4, ZenonT(30) DEF MessageInv, Spread
<1> QED  BY <1>1, <1>2, Zenon

\* The read loop takes a line, stashes it or goes on to apply it after the stash.
LEMMA ReaderKeepsMessages ==
  ASSUME FeedInv, MessageInv, dispatch \/ stashPreAuth \/ ReaderFlush
  PROVE  MessageInv'
<1>0. /\ wire \in Seq(Lines) /\ preAuthQ \in Seq(Msgs) /\ Distinct(wire) /\ Distinct(preAuthQ)
      /\ NoMsg.kind \notin AllKinds /\ Number(NoMsg) = {}
      /\ "reader" \in Goroutines /\ "negotiator" \in Goroutines
  BY Zenon DEF FeedInv, MessageInv, NoMsg, AllKinds, Number, Goroutines
<1>1. CASE dispatch
  <2>1. /\ reader.pc = "read" /\ wire # <<>> /\ wire' = Tail(wire)
        /\ reader' = [pc |-> Route(Head(wire)), line |-> Head(wire)]
        /\ UNCHANGED <<sent, preAuthQ, todo, applied, dropped, step>>
    BY <1>1, Zenon DEF dispatch, poolVars, stashVars, historyVars
  <2>2. /\ Numbers(wire') = Numbers(wire) \ Number(Head(wire))
        /\ Number(Head(wire)) \subseteq Numbers(wire) /\ Distinct(wire')
    BY <1>0, <2>1, QueueShrinks, Zenon
  <2>3. Number(reader.line) = {}
    BY <2>1, Zenon DEF MessageInv, Number
  <2>4. /\ At'["wire"] = At["wire"] \ Number(Head(wire)) /\ Number(Head(wire)) \subseteq At["wire"]
        /\ At'["hand"] = At["hand"] \cup Number(Head(wire))
        /\ \A p \in Places \ {"wire", "hand"} : At'[p] = At[p]
    <3>1. At'["wire"] = At["wire"] \ Number(Head(wire)) /\ Number(Head(wire)) \subseteq At["wire"]
      BY Zenon, <2>2, AtIs
    <3>2. At["hand"] = {} /\ At'["hand"] = Number(Head(wire))
      BY <2>1, <2>3, AtIs, Zenon
    <3> QED  BY <2>1, <3>1, <3>2, AtKept, Zenon DEF Places
  <2>5. Spread(At', sent)
    BY <2>4, MoveKeeps, ZenonT(60) DEF MessageInv, Places
  <2>6. reader'.pc \notin {"stash", "flush"} => reader'.line.kind \notin AllKinds
    BY <2>1, Zenon DEF Route, AllKinds
  <2>7. reader'.pc # "apply" /\ todo["reader"] = <<>>
    BY <2>1, Zenon DEF Route, MessageInv
  <2> QED  BY <2>1, <2>2, <2>5, <2>6, <2>7, ZenonT(30) DEF MessageInv
<1>2. CASE stashPreAuth
  <2> DEFINE full == Len(preAuthQ) >= PreAuthCap
             rest == IF full THEN Tail(preAuthQ) ELSE preAuthQ
             Y == IF full THEN Number(Head(preAuthQ)) ELSE {}
             X == Number(reader.line)
             mid == [p \in Places |-> CASE p = "stash" -> At["stash"] \ Y
                                        [] p = "dropped" -> At["dropped"] \cup Y
                                        [] OTHER -> At[p]]
  <2>1. /\ reader.pc = "stash" /\ reader.line \in Msgs /\ preAuthQ' = Append(rest, reader.line)
        /\ dropped' = IF full THEN dropped \cup {Head(preAuthQ).n} ELSE dropped
        /\ reader' = [pc |-> "read", line |-> NoMsg]
        /\ UNCHANGED <<sent, wire, todo, applied, step>>
    BY <1>2, Zenon DEF stashPreAuth, poolVars, FeedInv
  <2>2. full => preAuthQ # <<>>
    <3>1. PreAuthCap \in Nat \ {0}
      BY CapsAssumption, Zenon
    <3> QED  BY <1>0, <3>1, FullNonempty, Zenon
  <2>3. full => Head(preAuthQ) \in Msgs
    BY <1>0, <2>2, HeadTail, Zenon
  <2>4. full => Number(Head(preAuthQ)) = {Head(preAuthQ).n}
    BY <2>3, Zenon DEF Number, Msgs
  <2>5. /\ rest \in Seq(Msgs) /\ Distinct(rest) /\ Numbers(rest) = Numbers(preAuthQ) \ Y
        /\ Y \subseteq Numbers(preAuthQ)
    BY <1>0, <2>2, QueueShrinks, HeadTail, ZenonT(30)
  <2>6. Spread(At, sent) /\ X \subseteq At["hand"] /\ X = At["hand"] /\ Y \subseteq At["stash"]
    BY <2>5, AtIs, ZenonT(60) DEF MessageInv
  <2>7. dropped' = dropped \cup Y
    BY <2>1, <2>4, Zenon
  <2>8. X \cap Numbers(rest) = {}
    <3>1. "hand" \in Places /\ "stash" \in Places /\ "hand" # "stash"
      BY Zenon DEF Places
    <3>2. \A n \in X : n \in 1 .. sent /\ n \notin At["stash"]
      BY <2>6, <3>1, Zenon DEF Spread
    <3> QED  BY <2>5, <3>2, AtIs, ZenonT(60)
  <2> HIDE DEF full, rest, Y, X
  <2>9. Numbers(preAuthQ') = Numbers(rest) \cup X /\ Distinct(preAuthQ')
    BY <2>1, <2>5, <2>8, QueueGrows DEF X
  <2>10. Spread(mid, sent)
    <3>1. /\ mid["stash"] = At["stash"] \ Y /\ mid["dropped"] = At["dropped"] \cup Y
          /\ \A p \in Places \ {"stash", "dropped"} : mid[p] = At[p]
          /\ "stash" \in Places /\ "dropped" \in Places /\ "stash" # "dropped"
      BY Zenon DEF Places
    <3> HIDE DEF mid
    <3> QED  BY <2>6, <3>1, MoveKeeps
  <2>11. /\ At'["hand"] = mid["hand"] \ X /\ X \subseteq mid["hand"]
         /\ At'["stash"] = mid["stash"] \cup X
         /\ \A p \in Places \ {"hand", "stash"} : At'[p] = mid[p]
    <3>1. At'["hand"] = {} /\ At'["dropped"] = At["dropped"] \cup Y
      BY <1>0, <2>1, <2>7, AtIs, Zenon
    <3>2. At'["stash"] = (At["stash"] \ Y) \cup X
      BY Zenon, <2>5, <2>9, AtIs
    <3> QED  BY <2>1, <2>6, <3>1, <3>2, AtKept, ZenonT(30) DEF Places
  <2>12. Spread(At', sent)
    <3>1. "hand" \in Places /\ "stash" \in Places /\ "hand" # "stash"
      BY Zenon DEF Places
    <3> HIDE DEF mid
    <3> QED  BY <2>10, <2>11, <3>1, MoveKeeps
  <2> QED  BY <1>0, <2>1, <2>9, <2>12, Zenon DEF MessageInv
<1>3. CASE ReaderFlush
  <2> DEFINE Y == Numbers(preAuthQ)
             X == Number(reader.line)
             mid == [p \in Places |-> CASE p = "stash" -> {}
                                        [] p = "reader" -> Y
                                        [] OTHER -> At[p]]
  <2>1. /\ reader.pc = "flush" /\ reader.line \in Msgs
        /\ todo' = [todo EXCEPT !["reader"] = Append(preAuthQ, reader.line)]
        /\ preAuthQ' = <<>> /\ reader' = [pc |-> "apply", line |-> NoMsg]
        /\ UNCHANGED <<sent, wire, applied, dropped, step>>
    BY <1>3, Zenon DEF ReaderFlush, TakeStash, poolVars, historyVars, FeedInv
  <2>2. /\ todo'["reader"] = Append(preAuthQ, reader.line)
        /\ todo'["negotiator"] = todo["negotiator"]
        /\ \A g \in Goroutines \ {"reader"} : todo'[g] = todo[g]
    BY <1>0, <2>1, Zenon DEF FeedInv
  <2>3. Spread(At, sent) /\ X = At["hand"] /\ Y = At["stash"] /\ At["reader"] = {}
    BY <2>1, AtIs, EmptyQueue, Zenon DEF MessageInv
  <2>4. X \cap Y = {}
    <3>1. "hand" \in Places /\ "stash" \in Places /\ "hand" # "stash"
      BY Zenon DEF Places
    <3>2. \A n \in X : n \in 1 .. sent /\ n \notin At["stash"]
      BY <2>3, <3>1, ZenonT(60) DEF Spread
    <3> QED  BY <2>3, <3>2, Zenon
  <2>5. Numbers(todo'["reader"]) = X \cup Y /\ Distinct(todo'["reader"])
    <3>1. Numbers(Append(preAuthQ, reader.line)) = Y \cup X
      BY <1>0, <2>1, QueueGrows
    <3>2. Distinct(Append(preAuthQ, reader.line))
      BY <1>0, <2>1, <2>4, QueueGrows, ZenonT(60)
    <3> QED  BY <2>2, <3>1, <3>2, Zenon
  <2> HIDE DEF X, Y
  <2>6. Spread(mid, sent)
    <3>1. /\ mid["stash"] = At["stash"] \ Y /\ mid["reader"] = At["reader"] \cup Y
          /\ \A p \in Places \ {"stash", "reader"} : mid[p] = At[p]
          /\ "stash" \in Places /\ "reader" \in Places /\ "stash" # "reader"
      BY <2>3, Zenon DEF Places
    <3> HIDE DEF mid
    <3> QED  BY <2>3, <3>1, MoveKeeps
  <2>7. /\ At'["hand"] = mid["hand"] \ X /\ X \subseteq mid["hand"]
        /\ At'["reader"] = mid["reader"] \cup X
        /\ \A p \in Places \ {"hand", "reader"} : At'[p] = mid[p]
    <3>1. At'["hand"] = {} /\ At'["stash"] = {}
      BY <1>0, <2>1, AtIs, EmptyQueue, Zenon
    <3>2. At'["reader"] = X \cup Y
      BY Zenon, <2>5, AtIs
    <3> QED  BY <2>1, <2>2, <2>3, <3>1, <3>2, AtKept, Zenon DEF Places
  <2>8. Spread(At', sent)
    <3>1. "hand" \in Places /\ "reader" \in Places /\ "hand" # "reader"
      BY Zenon DEF Places
    <3> HIDE DEF mid
    <3> QED  BY <2>6, <2>7, <3>1, MoveKeeps
  <2>9. \A g \in Goroutines : Distinct(todo'[g])
    BY <2>2, <2>5, Zenon DEF MessageInv
  <2> QED  BY <1>0, <2>1, <2>2, <2>8, <2>9, EmptyQueue, Zenon DEF MessageInv
<1> QED  BY <1>1, <1>2, <1>3, Zenon

\* A goroutine applies the next message it holds, or the negotiator takes the stash.
LEMMA ReplayKeepsMessages ==
  ASSUME FeedInv, MessageInv, NEW g \in Goroutines, dispatchPoolMsg(g) \/ flushPreAuth
  PROVE  MessageInv'
<1>0. /\ todo \in [Goroutines -> Seq(Msgs)] /\ preAuthQ \in Seq(Msgs) /\ applied \in Seq(Nat)
      /\ Spread(At, sent) /\ "reader" \in Goroutines /\ "negotiator" \in Goroutines
      /\ g \in {"reader", "negotiator"} /\ g \in Places /\ "applied" \in Places /\ g # "applied"
  BY Zenon DEF FeedInv, MessageInv, Goroutines, Places
<1>1. CASE dispatchPoolMsg(g)
  <2> DEFINE m == Head(todo[g])
  <2>1. /\ todo[g] # <<>> /\ todo' = [todo EXCEPT ![g] = Tail(todo[g])]
        /\ applied' = Append(applied, m.n)
        /\ UNCHANGED <<sent, wire, reader, step, preAuthQ, dropped>>
    BY <1>1, Zenon DEF dispatchPoolMsg, poolVars, stashVars
  <2>2. todo'[g] = Tail(todo[g]) /\ \A h \in Goroutines \ {g} : todo'[h] = todo[h]
    BY <1>0, <2>1, Zenon
  <2>3. m \in Msgs /\ Number(m) = {m.n} /\ m.n \in Nat
    <3>1. m \in Msgs
      BY <1>0, <2>1, HeadTail, Zenon
    <3> QED  BY <3>1 DEF Msgs, Number
  <2>4. /\ Numbers(Tail(todo[g])) = Numbers(todo[g]) \ {m.n} /\ m.n \in Numbers(todo[g])
        /\ Distinct(Tail(todo[g]))
    BY <1>0, <2>1, <2>3, QueueShrinks, ZenonT(30) DEF MessageInv
  <2> HIDE DEF m
  <2>5. At[g] = Numbers(todo[g]) /\ At'[g] = Numbers(todo'[g])
    BY ZenonT(60), <1>0, AtIs
  <2>6. m.n \notin At["applied"]
    BY <1>0, <2>4, <2>5 DEF Spread
  <2>7. {applied'[i] : i \in DOMAIN applied'} = {applied[i] : i \in DOMAIN applied} \cup {m.n}
    <3>1. /\ DOMAIN applied' = 1 .. Len(applied) + 1 /\ DOMAIN applied = 1 .. Len(applied)
          /\ \A i \in 1 .. Len(applied) : applied'[i] = applied[i]
          /\ applied'[Len(applied) + 1] = m.n /\ Len(applied) \in Nat
      BY <1>0, <2>1, <2>3
    <3> QED  BY <3>1
  <2> DEFINE X == {m.n}
  <2>8. /\ At'[g] = At[g] \ {m.n} /\ {m.n} \subseteq At[g]
        /\ At'["applied"] = At["applied"] \cup {m.n}
        /\ \A p \in Places \ {g, "applied"} : At'[p] = At[p]
    <3>1. At'[g] = At[g] \ {m.n} /\ {m.n} \subseteq At[g]
      BY <2>2, <2>4, <2>5, Zenon
    <3>2. At'["applied"] = At["applied"] \cup {m.n}
      BY <2>7, AtIs, ZenonT(60)
    <3> QED  BY <1>0, <2>1, <2>2, <3>1, <3>2, AtKept, Zenon DEF Places
  <2>9. Spread(At', sent)
    <3>1. /\ At'[g] = At[g] \ X /\ X \subseteq At[g] /\ At'["applied"] = At["applied"] \cup X
          /\ \A p \in Places \ {g, "applied"} : At'[p] = At[p]
      BY <2>8, Zenon
    <3> HIDE DEF X
    <3>2. Spread(At, sent) /\ g \in Places /\ "applied" \in Places /\ g # "applied"
      BY <1>0, Zenon
    <3> QED  BY ONLY <3>1, <3>2, MoveKeeps
  <2>10. \A h \in Goroutines : Distinct(todo'[h])
    BY <2>2, <2>4, ZenonT(60) DEF MessageInv
  <2>11. applied' \in Seq(Nat) /\ \A i, j \in DOMAIN applied' : applied'[i] = applied'[j] => i = j
    <3>1. \A i \in DOMAIN applied : applied[i] # m.n
      BY <2>6, AtIs, Zenon
    <3> QED  BY <1>0, <2>1, <2>3, <3>1, AppendNew, ZenonT(60) DEF MessageInv
  <2>12. /\ todo["reader"] = <<>> => todo'["reader"] = <<>>
         /\ todo["negotiator"] = <<>> => todo'["negotiator"] = <<>>
    BY <1>0, <2>1, <2>2, Zenon
  <2> QED  BY <2>1, <2>9, <2>10, <2>11, <2>12, Zenon DEF MessageInv
<1>2. CASE flushPreAuth
  <2>1. /\ step = "flush" /\ todo' = [todo EXCEPT !["negotiator"] = preAuthQ] /\ preAuthQ' = <<>>
        /\ step' = "replay" /\ UNCHANGED <<sent, wire, reader, applied, dropped>>
    BY <1>2, Zenon DEF flushPreAuth, TakeStash, poolVars, historyVars
  <2>2. todo'["negotiator"] = preAuthQ /\ \A h \in Goroutines \ {"negotiator"} : todo'[h] = todo[h]
    BY <1>0, <2>1, Zenon
  <2>3. At["negotiator"] = {}
    BY <2>1, AtIs, EmptyQueue, Zenon DEF MessageInv
  <2>4. /\ At'["stash"] = At["stash"] \ At["stash"]
        /\ At'["negotiator"] = At["negotiator"] \cup At["stash"]
        /\ \A p \in Places \ {"stash", "negotiator"} : At'[p] = At[p]
    <3>1. At'["stash"] = {} /\ At'["negotiator"] = At["stash"]
      BY <2>1, <2>2, AtIs, EmptyQueue, Zenon
    <3> QED  BY <1>0, <2>1, <2>2, <2>3, <3>1, AtKept, ZenonT(30) DEF Places
  <2>5. Spread(At', sent)
    <3> DEFINE X == At["stash"]
    <3>1. "stash" \in Places /\ "negotiator" \in Places /\ "stash" # "negotiator"
      BY Zenon DEF Places
    <3>2. /\ At'["stash"] = At["stash"] \ X /\ X \subseteq At["stash"]
          /\ At'["negotiator"] = At["negotiator"] \cup X
      BY <2>4, Zenon
    <3> HIDE DEF X
    <3>3. Spread(At, sent) /\ \A p \in Places \ {"stash", "negotiator"} : At'[p] = At[p]
      BY <1>0, <2>4, Zenon
    <3> QED  BY ONLY <3>1, <3>2, <3>3, MoveKeeps
  <2>6. \A h \in Goroutines : Distinct(todo'[h])
    BY <2>2, Zenon DEF MessageInv
  <2>7. todo'["reader"] = todo["reader"]
    BY <1>0, <2>2, Zenon
  <2> QED  BY <2>1, <2>5, <2>6, <2>7, EmptyQueue, Zenon DEF MessageInv
<1> QED  BY <1>1, <1>2, Zenon

\* Every other step leaves the messages where they are.
LEMMA OthersKeepMessages ==
  ASSUME FeedInv, MessageInv, NEW g \in Goroutines, NEW c \in Callers,
         handleResponse \/ Deliver \/ ReadFails \/ closeChannels \/ Replayed(g) \/ AheadOfLock(g)
           \/ NegotiateFails \/ Subscribed \/ Authorized \/ Ready \/ CloseStep
           \/ CallStep(c) \/ GiveUp(c) \/ EngineTakes \/ EngineCloses \/ UNCHANGED vars
  PROVE  MessageInv'
<1>0. NoMsg.kind \notin AllKinds /\ reader \in [pc : ReaderPCs, line : Lines \cup {NoMsg}]
  BY Zenon DEF NoMsg, AllKinds, FeedInv
<1>1. CASE handleResponse \/ Deliver \/ ReadFails \/ closeChannels
  <2>1. /\ UNCHANGED <<sent, wire, preAuthQ, todo, applied, dropped, step>>
        /\ reader.pc \in {"response", "deliver", "read", "cancelled"}
        /\ reader'.pc \in {"deliver", "read", "cancelled", "ended"}
        /\ reader'.line \in {reader.line, NoMsg}
    <3>1. CASE handleResponse
      BY SMTT(30), <1>0, <3>1 DEF handleResponse, poolVars, stashVars, historyVars
    <3>2. CASE Deliver \/ ReadFails \/ closeChannels
      BY SMTT(30), <1>0, <3>2
         DEF Deliver, ReadFails, closeChannels, poolVars, stashVars, historyVars
    <3> QED  BY <1>1, <3>1, <3>2, ZenonT(30)
  <2>2. /\ reader.line.kind \notin AllKinds /\ reader'.line.kind \notin AllKinds
        /\ todo["reader"] = <<>>
    BY <1>0, <2>1, Zenon DEF MessageInv
  <2>3. \A p \in Places : At'[p] = At[p]
    <3>1. At'["hand"] = {} /\ At["hand"] = {}
      BY <2>2, AtIs, Zenon DEF Number
    <3> QED  BY <2>1, <3>1, AtKept, ZenonT(30) DEF Places
  <2> QED  BY <2>1, <2>2, <2>3, ZenonT(30) DEF MessageInv, Spread
<1>2. CASE Replayed(g)
  <2>1. /\ UNCHANGED <<sent, wire, preAuthQ, todo, applied, dropped>>
        /\ todo[g] = <<>> /\ reader'.line = reader.line
        /\ reader' = reader \/ (reader.pc = "apply" /\ reader'.pc = "read" /\ g = "reader")
        /\ step' = step \/ g = "negotiator"
    BY SMTT(30), <1>0, <1>2 DEF Replayed, poolVars, stashVars, historyVars, Goroutines
  <2> QED  BY <2>1, MessagesRest, ZenonT(30) DEF MessageInv
<1>3. CASE NegotiateFails \/ Subscribed \/ Authorized \/ Ready
  <2>1. UNCHANGED <<sent, wire, preAuthQ, todo, applied, dropped, reader>> /\ step # "replay"
    BY SMTT(30), <1>3
       DEF NegotiateFails, Subscribed, Authorized, Ready, poolVars, stashVars, historyVars
  <2> QED  BY <2>1, MessagesRest, ZenonT(60) DEF MessageInv
<1>4. ASSUME UNCHANGED <<sent, wire, preAuthQ, todo, applied, dropped, reader, step>>
      PROVE  MessageInv'
  BY <1>4, MessagesRest, ZenonT(60) DEF MessageInv
<1>5. CASE CloseStep \/ EngineTakes \/ EngineCloses
  BY SMTT(30), <1>4, <1>5
     DEF CloseStep, CloseCancels, CloseConn, EngineTakes, EngineCloses, poolVars, stashVars,
         historyVars
<1>6. CASE CallStep(c) \/ GiveUp(c)
  <2>1. UNCHANGED <<sent, wire, preAuthQ, todo, applied, dropped, reader, step>>
    BY ZenonT(60), <1>6
       DEF CallStep, StartCall, Register, Write, Receive, GiveUp, poolVars, stashVars, historyVars
  <2> QED  BY <1>4, <2>1, Zenon
<1>7. CASE AheadOfLock(g) \/ UNCHANGED vars
  BY <1>4, <1>7, Zenon DEF AheadOfLock, vars, poolVars, stashVars, historyVars
<1> QED  BY SMTT(30), <1>1, <1>2, <1>3, <1>5, <1>6, <1>7

\* Every step keeps MessageInv.
LEMMA MessageStep == FeedInv /\ MessageInv /\ [Next]_vars => MessageInv'
<1> SUFFICES ASSUME FeedInv, MessageInv, [Next]_vars PROVE MessageInv'
  BY Zenon
<1>1. "reader" \in Goroutines /\ "negotiator" \in Goroutines /\ "negotiator" \in Callers
  BY Zenon DEF Goroutines, Callers
<1>2. CASE ReaderStep
  BY <1>1, <1>2, ReaderKeepsMessages, ReplayKeepsMessages, OthersKeepMessages, ZenonT(30)
  DEF ReaderStep
<1>3. CASE NegotiatorStep
  BY <1>1, <1>3, ReplayKeepsMessages, OthersKeepMessages, Zenon DEF NegotiatorStep
<1>4. CASE (\E kind \in Kinds : PoolSends(kind))
             \/ (\E id \in CallIDs, ok \in BOOLEAN : PoolAnswers(id, ok))
  BY <1>4, PoolKeepsMessages, Zenon
<1>5. CASE ReadFails \/ CloseStep \/ EngineTakes \/ EngineCloses \/ UNCHANGED vars
             \/ (\E c \in Callers : CallStep(c) \/ GiveUp(c))
  BY <1>1, <1>5, OthersKeepMessages, Zenon
<1> QED  BY <1>2, <1>3, <1>4, <1>5, ZenonT(30) DEF Next, Done

\* Every message the pool sends is at every moment in one place only: on the wire, in the
\* read loop's hand, stashed, with the goroutine that will apply it, applied, or dropped
\* by a full stash; the two goroutines that may replay the stash never share one.
THEOREM MessagesStayOnce == Spec => []EachMessageOnce
<1>1. MessageInv => EachMessageOnce
  <2> SUFFICES ASSUME MessageInv, NEW n \in 1 .. sent
               PROVE  \E p \in Places : {q \in Places : n \in At[q]} = {p}
    BY Zenon DEF MessageInv, EachMessageOnce
  <2>1. PICK p \in Places : n \in At[p]
    BY Zenon DEF MessageInv, Spread
  <2>2. {q \in Places : n \in At[q]} = {p}
    BY <2>1, ZenonT(60) DEF MessageInv, Spread
  <2> QED  BY <2>2, Zenon
<1> QED  BY <1>1, FeedInit, FeedStep, MessageInit, MessageStep, PTL DEF Spec

-----------------------------------------------------------------------------
\* Only the negotiator opens the gate, and only then does anybody hold a message to apply.
LEMMA GateStep == FeedInv /\ OpenedInv /\ [Next]_vars => OpenedInv'
<1> SUFFICES ASSUME FeedInv, OpenedInv, [Next]_vars, ~authorized' PROVE OpenedInv'
  BY Zenon DEF OpenedInv, GateHolds
<1>0. ~authorized
  <2>1. authorized' = authorized \/ authorized'
    BY ZenonT(60)
       DEF Next, ReaderStep, NegotiatorStep, CloseStep, CallStep, PoolSends, PoolAnswers, dispatch,
           handleResponse, Deliver, stashPreAuth, ReaderFlush, ReadFails, closeChannels,
           AheadOfLock, dispatchPoolMsg, Replayed, StartCall, Register, Write, Receive, GiveUp,
           NegotiateFails, Subscribed, Authorized, flushPreAuth, Ready, EngineTakes, EngineCloses, CloseCancels,
           CloseConn, Done, vars, stashVars
  <2> QED  BY <2>1, Zenon
<1>1. /\ applied = <<>> /\ \A g \in Goroutines : todo[g] = <<>>
      /\ jobsCh = <<>> /\ difficulty = 0 /\ extranonce <= 0
      /\ reader.pc \notin {"flush", "apply"} /\ step \in {"subscribe", "authorize", "failed"}
      /\ "reader" \in Goroutines /\ "negotiator" \in Goroutines
  BY <1>0, Zenon DEF OpenedInv, GateHolds, Goroutines
<1>2. CASE UNCHANGED <<applied, todo, jobsCh, difficulty, extranonce, reader, step>>
  BY <1>1, <1>2, Zenon DEF OpenedInv, GateHolds
<1>3. CASE dispatch \/ handleResponse \/ Deliver \/ stashPreAuth \/ ReadFails \/ closeChannels
  <2>1. UNCHANGED <<applied, todo, jobsCh, difficulty, extranonce, step>>
    BY ZenonT(60), <1>3
       DEF dispatch, handleResponse, Deliver, stashPreAuth, ReadFails, closeChannels,
           effectVars, historyVars
  <2>2. reader'.pc \notin {"flush", "apply"}
    BY SMTT(60), <1>0, <1>1, <1>3
       DEF FeedInv, dispatch, Route, handleResponse, Deliver, stashPreAuth, ReadFails, closeChannels
  <2> QED  BY <1>1, <2>1, <2>2, Zenon DEF OpenedInv, GateHolds
<1>4. CASE NegotiateFails \/ Subscribed
  <2>1. /\ UNCHANGED <<applied, todo, jobsCh, difficulty, reader>>
        /\ extranonce' = extranonce \/ extranonce' = 0
        /\ step' \in {"authorize", "failed"}
    BY ZenonT(60), <1>4 DEF NegotiateFails, Subscribed, effectVars, historyVars
  <2> QED  BY <1>1, <2>1 DEF OpenedInv, GateHolds
<1>5. ~dispatchPoolMsg("reader") /\ ~dispatchPoolMsg("negotiator") /\ ~ReaderFlush
      /\ ~AheadOfLock("reader") /\ ~AheadOfLock("negotiator")
      /\ ~Replayed("reader") /\ ~Replayed("negotiator") /\ ~flushPreAuth /\ ~Ready /\ ~EngineTakes
      /\ ~Authorized /\ ~EngineCloses
  BY ZenonT(60), <1>1
  DEF dispatchPoolMsg, AheadOfLock, ReaderFlush, Replayed, flushPreAuth, Ready, EngineTakes,
                      Authorized, EngineCloses
<1>6. CASE (\E kind \in Kinds : PoolSends(kind))
             \/ (\E id \in CallIDs, ok \in BOOLEAN : PoolAnswers(id, ok))
  <2>1. UNCHANGED <<applied, todo, jobsCh, difficulty, extranonce, reader, step>>
    BY ZenonT(60), <1>6 DEF PoolSends, PoolAnswers, effectVars, historyVars
  <2> QED  BY <1>2, <2>1, Zenon
<1>7. CASE CloseStep \/ Done \/ UNCHANGED vars
  BY SMTT(30), <1>2, <1>7
  DEF CloseStep, CloseCancels, CloseConn, Done, vars, effectVars, historyVars
<1>8. CASE \E c \in Callers : CallStep(c) \/ GiveUp(c)
  <2>1. UNCHANGED <<applied, todo, jobsCh, difficulty, extranonce, reader, step>>
    BY ZenonT(60), <1>8
       DEF CallStep, StartCall, Register, Write, Receive, GiveUp, effectVars, historyVars
  <2> QED  BY <1>2, <2>1, Zenon
<1> QED  BY SMTT(30), <1>3, <1>4, <1>5, <1>6, <1>7, <1>8 DEF Next, ReaderStep, NegotiatorStep

\* Until mining.authorize is answered with true, nothing the pool pushes is applied: no
\* job, no difficulty and no extranonce but the one that was negotiated.
THEOREM GateStaysShut == Spec => []GateHolds
<1>1. Init => OpenedInv
  BY DEF Init, OpenedInv, GateHolds
<1>2. OpenedInv => GateHolds
  BY Zenon DEF OpenedInv
<1> QED  BY <1>1, <1>2, FeedInit, FeedStep, GateStep, PTL DEF Spec

\* Once the read loop has closed the channels, a job, a difficulty or a notice is at most
\* taken from them, although the negotiator may still be replaying the stash.
THEOREM NothingSentAfterClose == Spec => NoSendAfterClose
<1>1. ASSUME Next, closed
      PROVE  /\ AtMostTaken(jobsCh, jobsCh') /\ AtMostTaken(diffCh, diffCh')
             /\ AtMostTaken(noticeCh, noticeCh')
  <2> USE DEF AtMostTaken
  <2>1. CASE UNCHANGED <<jobsCh, diffCh, noticeCh>>
    BY <2>1, Zenon
  <2>2. ASSUME NEW g, dispatchPoolMsg(g) PROVE UNCHANGED <<jobsCh, diffCh, noticeCh>>
    BY ZenonT(60), <1>1, <2>2
       DEF dispatchPoolMsg, handleNotify, handleSetDifficulty, handleSetExtranonce,
           handleShowMessage, handleVersionMask, handleReconnect
  <2>3. CASE EngineTakes
    BY SMTT(30), <2>3 DEF EngineTakes
  <2>4. CASE ~EngineTakes /\ ~dispatchPoolMsg("reader") /\ ~dispatchPoolMsg("negotiator")
    <3>1. UNCHANGED <<jobsCh, diffCh, noticeCh>>
      BY ZenonT(60), <1>1, <2>4
         DEF Next, ReaderStep, NegotiatorStep, CloseStep, CallStep, PoolSends, PoolAnswers,
             dispatch, handleResponse, Deliver, stashPreAuth, ReaderFlush, ReadFails,
             closeChannels, AheadOfLock, Replayed, StartCall, Register, Write, Receive, GiveUp,
             NegotiateFails, Subscribed, Authorized, flushPreAuth, Ready, EngineCloses,
             CloseCancels, CloseConn, Done, vars, effectVars
    <3> QED  BY <2>1, <3>1, ZenonT(60)
  <2> QED  BY <2>1, <2>2, <2>3, <2>4, Zenon
<1>2. [Next]_vars => [closed => /\ AtMostTaken(jobsCh, jobsCh') /\ AtMostTaken(diffCh, diffCh')
                               /\ AtMostTaken(noticeCh, noticeCh')]_vars
  BY <1>1, Zenon
<1> QED  BY <1>2, PTL DEF Spec, NoSendAfterClose
=============================================================================
