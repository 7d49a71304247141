------------------------------ MODULE StratumV1 ------------------------------
(***************************************************************************)
(* One Stratum V1 session of internal/poolproto/stratumv1: the read loop,  *)
(* the goroutine that negotiates (subscribe, authorize, replay of what the *)
(* pool pushed early, extranonce.subscribe), the goroutines that submit    *)
(* shares, and Close. The engine's side is only what it does to the        *)
(* channels: it takes jobs, difficulties and notices, submits and closes.  *)
(* A handler that works ahead of sendMu (completes a job, stores a         *)
(* difficulty) is two steps, one up to the lock and one under it; so is a  *)
(* lock taken twice. The two goroutines that apply messages interleave     *)
(* there.                                                                  *)
(* Lines that do not parse are dropped by the code and are no steps here.  *)
(***************************************************************************)
EXTENDS Integers, Sequences

CONSTANTS
  Kinds,         \* methods the pool uses, a subset of AllKinds
  Submitters,    \* goroutines that each submit one share
  PreAuthCap,    \* preAuthCap
  JobsChCap,     \* capacity of jobsCh
  NoticeChCap,   \* capacity of noticeCh
  MaxMsgs,       \* bound: messages the pool sends on its own
  MaxCalls,      \* bound: calls; Negotiate makes three, a submitter one
  MaxStray       \* bound: answers sent ahead of their call, or once more

\* mining.notify without and with clean_jobs, set_difficulty, set_extranonce,
\* show_message, set_version_mask, reconnect.
AllKinds == {"notify", "clean", "difficulty", "extranonce", "notice", "mask", "reconnect"}

ASSUME KindsAssumption == Kinds \subseteq AllKinds
ASSUME CapsAssumption ==
  PreAuthCap \in Nat \ {0} /\ JobsChCap \in Nat \ {0} /\ NoticeChCap \in Nat \ {0}
ASSUME BoundsAssumption == MaxMsgs \in Nat /\ MaxCalls \in Nat \ {0} /\ MaxStray \in Nat
ASSUME SubmittersAssumption == "negotiator" \notin Submitters

VARIABLES
  sent,          \* messages the pool has sent on its own; the n-th has number n
  answered,      \* calls the pool has answered when it should
  strayed,       \* answers it sent otherwise
  wire,          \* lines not yet read
  reader,        \* the read loop: its pc and the line in hand
  todo,          \* messages a goroutine is about to apply, in order
  step,          \* where Negotiate is
  authorized, preAuthQ,
  nextID, pending,
  resp,          \* per call id: its response channel
  caller,        \* per goroutine: its call()
  jobsCh, diffCh, noticeCh,
  difficulty, extranonce,   \* number of the message that set them; -1 before subscribe
  warned,        \* versionMaskWarned
  carry,         \* per goroutine: what its handler takes to sendMu, NoJob if nothing
  closed,        \* channels closed
  closing,       \* Close: "no", "begun", "cancelled" (pending calls), "closed" (connection)
  applied,       \* history: numbers of the messages applied, in order
  dropped,       \* history: messages pushed out of the stash
  takenJob       \* history: the last job the engine took

poolVars == <<sent, answered, strayed>>
stashVars == <<authorized, preAuthQ>>
callVars == <<nextID, pending, resp, caller>>
effectVars == <<jobsCh, diffCh, noticeCh, difficulty, extranonce, warned, carry>>
historyVars == <<applied, dropped, takenJob>>
vars == <<poolVars, wire, reader, todo, step, stashVars, callVars, effectVars,
          closed, closing, historyVars>>

Goroutines == {"reader", "negotiator"}
Callers == Submitters \cup {"negotiator"}
CallIDs == 1 .. MaxCalls
NoJob == [n |-> 0, clean |-> FALSE, en |-> 0]
NoMsg == [n |-> 0, kind |-> "none"]
IdleCall == [pc |-> "idle", id |-> 0]

Init ==
  /\ sent = 0 /\ answered = {} /\ strayed = 0 /\ wire = <<>>
  /\ reader = [pc |-> "read", line |-> NoMsg]
  /\ todo = [g \in Goroutines |-> <<>>]
  /\ step = "subscribe" /\ authorized = FALSE /\ preAuthQ = <<>>
  /\ nextID = 0 /\ pending = {} /\ resp = [i \in CallIDs |-> "none"]
  /\ caller = [c \in Callers |-> IdleCall]
  /\ jobsCh = <<>> /\ diffCh = <<>> /\ noticeCh = <<>>
  /\ difficulty = 0 /\ extranonce = -1 /\ warned = FALSE
  /\ carry = [g \in Goroutines |-> NoJob]
  /\ closed = FALSE /\ closing = "no"
  /\ applied = <<>> /\ dropped = {} /\ takenJob = NoJob
-----------------------------------------------------------------------------
\* The pool pushes a message.
PoolSends(kind) ==
  /\ sent < MaxMsgs
  /\ sent' = sent + 1
  /\ wire' = Append(wire, [n |-> sent + 1, kind |-> kind])
  /\ UNCHANGED <<answered, strayed, reader, todo, step, stashVars, callVars, effectVars,
                 closed, closing, historyVars>>

\* A call was written and has no answer yet.
AwaitsAnswer(id) ==
  /\ id \in (1 .. nextID) \ answered
  /\ \A c \in Callers : caller[c].id = id => caller[c].pc \notin {"issued", "registered"}

\* The pool answers a call, perhaps too late; or it names a call that it has answered, that
\* is not written yet, or that nobody has made.
PoolAnswers(id, ok) ==
  /\ \/ AwaitsAnswer(id) /\ answered' = answered \cup {id} /\ UNCHANGED strayed
     \/ ~AwaitsAnswer(id) /\ strayed < MaxStray /\ strayed' = strayed + 1 /\ UNCHANGED answered
  /\ wire' = Append(wire, [n |-> id, kind |-> IF ok THEN "ok" ELSE "error"])
  /\ UNCHANGED <<sent, reader, todo, step, stashVars, callVars, effectVars,
                 closed, closing, historyVars>>
-----------------------------------------------------------------------------
\* cancelPending closes the response channel of every call in flight.
cancelPending ==
  /\ pending' = {}
  /\ resp' = [i \in CallIDs |-> IF i \in pending THEN "closed" ELSE resp[i]]

RouteUngated(line) ==
  IF line.kind \in {"ok", "error"} THEN "response" ELSE "flush"

\* Where dispatch sends a line: to its call, to the stash, or through the stash's replay.
Route(line) ==
  IF line.kind \in {"ok", "error"} THEN "response"
  ELSE IF authorized THEN "flush" ELSE "stash"

dispatch ==
  /\ reader.pc = "read" /\ wire # <<>>
  /\ wire' = Tail(wire)
  /\ reader' = [pc |-> Route(Head(wire)), line |-> Head(wire)]
  /\ UNCHANGED <<poolVars, todo, step, stashVars, callVars, effectVars, closed,
                 closing, historyVars>>

handleResponseKeeps ==
  /\ reader.pc = "response"
  /\ reader' = IF reader.line.n \in pending THEN [reader EXCEPT !.pc = "deliver"]
               ELSE [pc |-> "read", line |-> NoMsg]
  /\ UNCHANGED <<poolVars, wire, todo, step, stashVars, callVars, effectVars,
                 closed, closing, historyVars>>

\* handleResponse takes the call out of pending, then sends outside the lock.
handleResponse ==
  /\ reader.pc = "response"
  /\ pending' = pending \ {reader.line.n}
  /\ reader' = IF reader.line.n \in pending THEN [reader EXCEPT !.pc = "deliver"]
               ELSE [pc |-> "read", line |-> NoMsg]
  /\ UNCHANGED <<poolVars, wire, todo, step, stashVars, nextID, resp, caller, effectVars,
                 closed, closing, historyVars>>

Deliver ==
  /\ reader.pc = "deliver"
  /\ resp' = [resp EXCEPT ![reader.line.n] = reader.line.kind]
  /\ reader' = [pc |-> "read", line |-> NoMsg]
  /\ UNCHANGED <<poolVars, wire, todo, step, stashVars, nextID, pending, caller, effectVars,
                 closed, closing, historyVars>>

\* stashPreAuth drops the oldest message when full.
stashPreAuth ==
  /\ reader.pc = "stash"
  /\ LET full == Len(preAuthQ) >= PreAuthCap IN
     /\ preAuthQ' = Append(IF full THEN Tail(preAuthQ) ELSE preAuthQ, reader.line)
     /\ dropped' = IF full THEN dropped \cup {Head(preAuthQ).n} ELSE dropped
  /\ reader' = [pc |-> "read", line |-> NoMsg]
  /\ UNCHANGED <<poolVars, wire, todo, step, authorized, callVars, effectVars, closed,
                 closing, applied, takenJob>>

TakeStashShared == UNCHANGED preAuthQ

\* Whoever flushes owns the stash from then on.
TakeStash == preAuthQ' = <<>>

\* The read loop flushes before it applies a message of its own.
ReaderFlush ==
  /\ reader.pc = "flush"
  /\ todo' = [todo EXCEPT !["reader"] = Append(preAuthQ, reader.line)]
  /\ TakeStash
  /\ reader' = [pc |-> "apply", line |-> NoMsg]
  /\ UNCHANGED <<poolVars, wire, step, authorized, callVars, effectVars, closed,
                 closing, historyVars>>

\* The read loop ends (EOF, error, read deadline, cancelled context): pending calls
\* are cancelled first, then the channels close.
ReadFails ==
  /\ reader.pc = "read"
  /\ cancelPending
  /\ reader' = [pc |-> "cancelled", line |-> NoMsg]
  /\ UNCHANGED <<poolVars, wire, todo, step, stashVars, nextID, caller, effectVars, closed,
                 closing, historyVars>>

closeChannels ==
  /\ reader.pc = "cancelled"
  /\ closed' = TRUE
  /\ reader' = [reader EXCEPT !.pc = "ended"]
  /\ UNCHANGED <<poolVars, wire, todo, step, stashVars, callVars, effectVars, closing,
                 historyVars>>
-----------------------------------------------------------------------------
\* A full channel loses its oldest element.
DropOldest(q, cap, x) == Append(IF Len(q) >= cap THEN Tail(q) ELSE q, x)

DropNewest(q, cap, x) == IF Len(q) >= cap THEN q ELSE Append(q, x)

sendJobNoPurge(q, job) == DropOldest(q, JobsChCap, job)

\* The queue after sendJob: a clean job discards what waits.
sendJob(q, job) == IF job.clean THEN <<job>> ELSE DropOldest(q, JobsChCap, job)

\* completeV1Job: the job is bound to the extranonce in force.
completeV1Job(m) == [n |-> m.n, clean |-> m.kind = "clean", en |-> extranonce]

\* handleNotify completes the job, then queues it under sendMu.
completesJob(g, m) ==
  /\ m.kind \in {"notify", "clean"}
  /\ carry' = [carry EXCEPT ![g] = completeV1Job(m)]
  /\ UNCHANGED <<difficulty, warned>>

handleNotify(g, m) ==
  /\ m.kind \in {"notify", "clean"} /\ carry[g] # NoJob
  /\ jobsCh' = IF closed THEN jobsCh ELSE sendJob(jobsCh, carry[g])
  /\ UNCHANGED <<diffCh, noticeCh, extranonce, closing>>

\* A difficulty or a warning on its way to sendMu: only its message matters.
JustNumber(m) == [n |-> m.n, clean |-> FALSE, en |-> 0]

\* handleSetDifficulty stores, then announces its own value under sendMu.
storesDifficulty(g, m) ==
  /\ m.kind = "difficulty"
  /\ difficulty' = m.n
  /\ carry' = [carry EXCEPT ![g] = JustNumber(m)]
  /\ UNCHANGED warned

handleSetDifficultyUnguarded(g, m) ==
  /\ m.kind = "difficulty" /\ carry[g] # NoJob
  /\ diffCh' = <<carry[g].n>>
  /\ UNCHANGED <<jobsCh, noticeCh, extranonce, closing>>

\* The one slot of diffCh holds what was announced last.
handleSetDifficulty(g, m) ==
  /\ m.kind = "difficulty" /\ carry[g] # NoJob
  /\ diffCh' = IF closed THEN diffCh ELSE <<carry[g].n>>
  /\ UNCHANGED <<jobsCh, noticeCh, extranonce, closing>>

handleSetExtranonce(m) ==
  /\ m.kind = "extranonce"
  /\ extranonce' = m.n
  /\ UNCHANGED <<jobsCh, diffCh, noticeCh, closing>>

\* The oldest notice makes room.
handleShowMessage(m) ==
  /\ m.kind = "notice"
  /\ noticeCh' = IF closed THEN noticeCh ELSE DropOldest(noticeCh, NoticeChCap, m.n)
  /\ UNCHANGED <<jobsCh, diffCh, extranonce, closing>>

\* One warning per session: whoever sets the flag gives it, unless the channel is full.
warnsOfMask(g, m) ==
  /\ m.kind = "mask" /\ ~warned
  /\ warned' = TRUE
  /\ carry' = [carry EXCEPT ![g] = JustNumber(m)]
  /\ UNCHANGED difficulty

handleVersionMask(g, m) ==
  /\ m.kind = "mask" /\ warned
  /\ noticeCh' = IF carry[g] = NoJob \/ closed THEN noticeCh
                 ELSE DropNewest(noticeCh, NoticeChCap, carry[g].n)
  /\ UNCHANGED <<jobsCh, diffCh, extranonce, closing>>

\* A reconnect directive only starts Close.
handleReconnect(m) ==
  /\ m.kind = "reconnect"
  /\ closing' = IF closing = "no" THEN "begun" ELSE closing
  /\ UNCHANGED <<jobsCh, diffCh, noticeCh, extranonce>>

\* What a handler does before it takes sendMu.
AheadOfLock(g) ==
  /\ todo[g] # <<>> /\ carry[g] = NoJob
  /\ LET m == Head(todo[g]) IN completesJob(g, m) \/ storesDifficulty(g, m) \/ warnsOfMask(g, m)
  /\ UNCHANGED <<poolVars, wire, reader, todo, step, stashVars, callVars, jobsCh, diffCh,
                 noticeCh, extranonce, closed, closing, historyVars>>

\* dispatchPoolMsg: a goroutine is through with the next message it holds.
dispatchPoolMsg(g) ==
  /\ todo[g] # <<>>
  /\ todo' = [todo EXCEPT ![g] = Tail(@)]
  /\ applied' = Append(applied, Head(todo[g]).n)
  /\ carry' = [carry EXCEPT ![g] = NoJob]
  /\ LET m == Head(todo[g]) IN
     \/ handleNotify(g, m)
     \/ handleSetDifficulty(g, m)
     \/ handleSetExtranonce(m)
     \/ handleShowMessage(m)
     \/ handleVersionMask(g, m)
     \/ handleReconnect(m)
  /\ UNCHANGED <<poolVars, wire, reader, step, stashVars, callVars, difficulty, warned, closed,
                 dropped, takenJob>>

\* Everything is applied: the read loop reads on, Negotiate goes on to step 3.
Replayed(g) ==
  /\ todo[g] = <<>>
  /\ IF g = "reader"
     THEN reader.pc = "apply" /\ reader' = [reader EXCEPT !.pc = "read"] /\ UNCHANGED step
     ELSE step = "replay" /\ step' = "extranonce" /\ UNCHANGED reader
  /\ UNCHANGED <<poolVars, wire, todo, stashVars, callVars, effectVars, closed,
                 closing, historyVars>>
-----------------------------------------------------------------------------
\* May goroutine c start a call? Negotiate in its three steps, a submitter once the
\* session is handed out, and only if the connection is not known to be closed.
MayCall(c) ==
  IF c = "negotiator" THEN step \in {"subscribe", "authorize", "extranonce"}
  ELSE step = "ready" /\ closing # "closed"

StartCall(c) ==
  /\ caller[c].pc = "idle" /\ MayCall(c) /\ nextID < MaxCalls
  /\ nextID' = nextID + 1
  /\ caller' = [caller EXCEPT ![c] = [pc |-> "issued", id |-> nextID + 1]]
  /\ UNCHANGED <<poolVars, wire, reader, todo, step, stashVars, pending, resp, effectVars,
                 closed, closing, historyVars>>

Register(c) ==
  /\ caller[c].pc = "issued"
  /\ pending' = pending \cup {caller[c].id}
  /\ caller' = [caller EXCEPT ![c].pc = "registered"]
  /\ UNCHANGED <<poolVars, wire, reader, todo, step, stashVars, nextID, resp, effectVars,
                 closed, closing, historyVars>>

\* Writing to a closed connection fails; to one the peer has left it may.
Write(c) ==
  /\ caller[c].pc = "registered"
  /\ \/ /\ closing # "closed"
        /\ caller' = [caller EXCEPT ![c].pc = "waiting"]
        /\ UNCHANGED pending
     \/ /\ caller' = [caller EXCEPT ![c].pc = "failed"]
        /\ pending' = pending \ {caller[c].id}
  /\ UNCHANGED <<poolVars, wire, reader, todo, step, stashVars, nextID, resp, effectVars,
                 closed, closing, historyVars>>

\* The response channel delivered, or was closed.
Receive(c) ==
  /\ caller[c].pc = "waiting" /\ resp[caller[c].id] # "none"
  /\ caller' = [caller EXCEPT ![c].pc = IF resp[caller[c].id] = "ok" THEN "ok" ELSE "failed"]
  /\ UNCHANGED <<poolVars, wire, reader, todo, step, stashVars, nextID, pending, resp,
                 effectVars, closed, closing, historyVars>>

GiveUpNever(c) ==
  /\ caller[c].pc = "none"
  /\ UNCHANGED vars

\* The call timer, the handshake deadline or the caller's context ends the wait.
GiveUp(c) ==
  /\ caller[c].pc = "waiting"
  /\ pending' = pending \ {caller[c].id}
  /\ caller' = [caller EXCEPT ![c].pc = "failed"]
  /\ UNCHANGED <<poolVars, wire, reader, todo, step, stashVars, nextID, resp, effectVars,
                 closed, closing, historyVars>>
-----------------------------------------------------------------------------
\* A mandatory call failed: Negotiate closes the session.
NegotiateFails ==
  /\ step \in {"subscribe", "authorize"} /\ caller["negotiator"].pc = "failed"
  /\ step' = "failed"
  /\ closing' = IF closing = "no" THEN "begun" ELSE closing
  /\ UNCHANGED <<poolVars, wire, reader, todo, stashVars, callVars, effectVars, closed,
                 historyVars>>

Subscribed ==
  /\ step = "subscribe" /\ caller["negotiator"].pc = "ok"
  /\ extranonce' = 0
  /\ step' = "authorize"
  /\ caller' = [caller EXCEPT !["negotiator"] = IdleCall]
  /\ UNCHANGED <<poolVars, wire, reader, todo, stashVars, nextID, pending, resp, jobsCh,
                 diffCh, noticeCh, difficulty, warned, carry, closed, closing, historyVars>>

\* Authorization opens the gate; the replay of the stash comes after it.
Authorized ==
  /\ step = "authorize" /\ caller["negotiator"].pc = "ok"
  /\ authorized' = TRUE
  /\ step' = "flush"
  /\ caller' = [caller EXCEPT !["negotiator"] = IdleCall]
  /\ UNCHANGED <<poolVars, wire, reader, todo, preAuthQ, nextID, pending, resp, effectVars,
                 closed, closing, historyVars>>

flushPreAuth ==
  /\ step = "flush"
  /\ todo' = [todo EXCEPT !["negotiator"] = preAuthQ]
  /\ TakeStash
  /\ step' = "replay"
  /\ UNCHANGED <<poolVars, wire, reader, authorized, callVars, effectVars, closed,
                 closing, historyVars>>

\* The optional extranonce.subscribe is answered, refused or given up: all the same.
Ready ==
  /\ step = "extranonce" /\ caller["negotiator"].pc \in {"ok", "failed"}
  /\ step' = "ready"
  /\ UNCHANGED <<poolVars, wire, reader, todo, stashVars, callVars, effectVars, closed,
                 closing, historyVars>>
-----------------------------------------------------------------------------
\* The engine takes the next element of a channel.
EngineTakes ==
  /\ step = "ready"
  /\ \/ /\ jobsCh # <<>> /\ jobsCh' = Tail(jobsCh) /\ takenJob' = Head(jobsCh)
        /\ UNCHANGED <<diffCh, noticeCh>>
     \/ diffCh # <<>> /\ diffCh' = Tail(diffCh) /\ UNCHANGED <<jobsCh, noticeCh, takenJob>>
     \/ noticeCh # <<>> /\ noticeCh' = Tail(noticeCh) /\ UNCHANGED <<jobsCh, diffCh, takenJob>>
  /\ UNCHANGED <<poolVars, wire, reader, todo, step, stashVars, callVars, difficulty,
                 extranonce, warned, carry, closed, closing, applied, dropped>>

\* The engine's session returns and closes this one.
EngineCloses ==
  /\ step = "ready" /\ closing = "no"
  /\ closing' = "begun"
  /\ UNCHANGED <<poolVars, wire, reader, todo, step, stashVars, callVars, effectVars,
                 closed, historyVars>>

\* Close, once: cancel the pending calls, then close the connection.
CloseCancels ==
  /\ closing = "begun"
  /\ cancelPending
  /\ closing' = "cancelled"
  /\ UNCHANGED <<poolVars, wire, reader, todo, step, stashVars, nextID, caller, effectVars,
                 closed, historyVars>>

CloseConnSkipped ==
  /\ closing = "cancelled"
  /\ UNCHANGED vars

CloseConn ==
  /\ closing = "cancelled"
  /\ closing' = "closed"
  /\ UNCHANGED <<poolVars, wire, reader, todo, step, stashVars, callVars, effectVars,
                 closed, historyVars>>

Done ==
  /\ closing = "closed" /\ reader.pc = "ended"
  /\ UNCHANGED vars

CallStep(c) == StartCall(c) \/ Register(c) \/ Write(c) \/ Receive(c)
ReaderStep ==
  \/ dispatch \/ handleResponse \/ Deliver \/ stashPreAuth \/ ReaderFlush
  \/ closeChannels \/ AheadOfLock("reader") \/ dispatchPoolMsg("reader") \/ Replayed("reader")
NegotiatorStep ==
  \/ NegotiateFails \/ Subscribed \/ Authorized \/ flushPreAuth \/ Ready
  \/ AheadOfLock("negotiator") \/ dispatchPoolMsg("negotiator") \/ Replayed("negotiator")
CloseStep == CloseCancels \/ CloseConn

Next ==
  \/ \E kind \in Kinds : PoolSends(kind)
  \/ \E id \in CallIDs, ok \in BOOLEAN : PoolAnswers(id, ok)
  \/ ReaderStep \/ ReadFails \/ NegotiatorStep \/ CloseStep
  \/ \E c \in Callers : CallStep(c) \/ GiveUp(c)
  \/ EngineTakes \/ EngineCloses
  \/ Done

Spec == Init /\ [][Next]_vars

\* The scheduler runs every goroutine that can run, timers fire, and a read on a closed
\* connection fails. The pool owes nothing.
FairSpec ==
  /\ Spec
  /\ WF_vars(ReaderStep) /\ WF_vars(closing = "closed" /\ ReadFails)
  /\ WF_vars(NegotiatorStep) /\ WF_vars(CloseStep)
  /\ \A c \in Callers : WF_vars(CallStep(c)) /\ WF_vars(GiveUp(c))
-----------------------------------------------------------------------------
Msgs == [n : 1 .. MaxMsgs, kind : AllKinds]
Lines == Msgs \cup [n : CallIDs, kind : {"ok", "error"}]
Jobs == [n : 1 .. MaxMsgs, clean : BOOLEAN, en : -1 .. MaxMsgs]

\* Every variable keeps its type, and no channel exceeds its capacity.
TypeOK ==
  /\ sent \in 0 .. MaxMsgs /\ answered \subseteq CallIDs /\ strayed \in 0 .. MaxStray
  /\ wire \in Seq(Lines)
  /\ reader.pc \in {"read", "response", "deliver", "stash", "flush", "apply", "cancelled", "ended"}
  /\ reader.line \in Lines \cup {NoMsg}
  /\ todo \in [Goroutines -> Seq(Msgs)]
  /\ step \in {"subscribe", "authorize", "flush", "replay", "extranonce", "ready", "failed"}
  /\ authorized \in BOOLEAN
  /\ preAuthQ \in Seq(Msgs) /\ Len(preAuthQ) <= PreAuthCap
  /\ nextID \in 0 .. MaxCalls /\ pending \subseteq 1 .. nextID
  /\ resp \in [CallIDs -> {"none", "ok", "error", "closed"}]
  /\ caller \in [Callers -> [pc : {"idle", "issued", "registered", "waiting", "ok", "failed"},
                             id : 0 .. MaxCalls]]
  /\ jobsCh \in Seq(Jobs) /\ Len(jobsCh) <= JobsChCap
  /\ diffCh \in Seq(1 .. MaxMsgs) /\ Len(diffCh) <= 1
  /\ noticeCh \in Seq(1 .. MaxMsgs) /\ Len(noticeCh) <= NoticeChCap
  /\ difficulty \in 0 .. MaxMsgs /\ extranonce \in -1 .. MaxMsgs
  /\ carry \in [Goroutines -> Jobs \cup {NoJob}]
  /\ warned \in BOOLEAN /\ closed \in BOOLEAN
  /\ closing \in {"no", "begun", "cancelled", "closed"}
  /\ applied \in Seq(1 .. MaxMsgs) /\ dropped \subseteq 1 .. MaxMsgs
  /\ takenJob \in Jobs \cup {NoJob}

\* Where a pool message can be, and the numbers of those that are there.
Numbers(q) == {q[i].n : i \in {j \in DOMAIN q : q[j].kind \in AllKinds}}
Places == {"wire", "hand", "stash", "reader", "negotiator", "applied", "dropped"}
At == [p \in Places |->
  CASE p = "wire" -> Numbers(wire)
    [] p = "hand" -> IF reader.line.kind \in AllKinds THEN {reader.line.n} ELSE {}
    [] p = "stash" -> Numbers(preAuthQ)
    [] p = "applied" -> {applied[i] : i \in DOMAIN applied}
    [] p = "dropped" -> dropped
    [] OTHER -> Numbers(todo[p])]

\* No message is lost or applied twice, whichever of the two goroutines replays the
\* stash: it is in exactly one place, and dropped only by a full stash.
EachMessageOnce ==
  /\ \A n \in 1 .. sent : \E p \in Places : {q \in Places : n \in At[q]} = {p}
  /\ \A i, j \in DOMAIN applied : applied[i] = applied[j] => i = j

\* Before authorization succeeds nothing the pool pushes has any effect: no job, no
\* difficulty, no extranonce but the negotiated one.
GateHolds ==
  ~authorized => /\ applied = <<>> /\ \A g \in Goroutines : todo[g] = <<>>
                 /\ jobsCh = <<>> /\ difficulty = 0 /\ extranonce <= 0

\* The inductive invariant behind the two: the messages sent are spread over the places,
\* each once, and a goroutine holds messages only while it applies them.
Distinct(q) ==
  \A i, j \in DOMAIN q :
    q[i].kind \in AllKinds /\ q[j].kind \in AllKinds /\ q[i].n = q[j].n => i = j
Spread(at, m) ==
  /\ \A p \in Places : at[p] \subseteq 1 .. m
  /\ \A n \in 1 .. m : \E p \in Places : n \in at[p]
  /\ \A p, q \in Places, n \in 1 .. m : n \in at[p] /\ n \in at[q] => p = q
MessageInv ==
  /\ applied \in Seq(Nat) /\ Spread(At, sent)
  /\ Distinct(wire) /\ Distinct(preAuthQ) /\ \A g \in Goroutines : Distinct(todo[g])
  /\ \A i, j \in DOMAIN applied : applied[i] = applied[j] => i = j
  /\ reader.pc \notin {"stash", "flush"} => reader.line.kind \notin AllKinds
  /\ reader.pc # "apply" => todo["reader"] = <<>>
  /\ step # "replay" => todo["negotiator"] = <<>>
OpenedInv ==
  /\ GateHolds
  /\ ~authorized => reader.pc \notin {"flush", "apply"} /\ step \in {"subscribe", "authorize", "failed"}

\* The session implements JobFeed: the newest job is never lost, no job of an older
\* block survives a clean one, and nothing is sent on the closed channel, whichever
\* goroutine applies the messages and whenever the engine takes or closes.
Feed == INSTANCE JobFeed WITH waiting <- jobsCh, taken <- takenJob, open <- ~closed
FeedsJobs == Feed!Spec

\* A response channel is used once: a reply is never followed by a close or a second
\* reply (both panic), whoever of read loop, Close and timer gets there first.
SettledOnce == [][\A i \in DOMAIN resp : resp[i] # "none" => resp'[i] = resp[i]]_vars

AtMostTaken(q, r) == r = q \/ (q # <<>> /\ r = Tail(q))

\* Nothing is sent on a channel the read loop has closed, although the replay of the
\* stash runs on another goroutine.
NoSendAfterClose ==
  [][closed => /\ AtMostTaken(jobsCh, jobsCh') /\ AtMostTaken(diffCh, diffCh')
               /\ AtMostTaken(noticeCh, noticeCh')]_vars

\* A call that waits always returns, even one registered after the pending calls of a
\* dying session were cancelled.
CallsReturn ==
  \A c \in Callers : caller[c].pc = "waiting" ~> caller[c].pc # "waiting"

\* Close, also one that a reconnect directive started, ends in closed channels: that is
\* how the engine learns of it.
CloseReachesEngine == closing # "no" ~> closed

\* "A stashed message can never apply behind a newer one that followed it."
AppliedInWireOrder == \A i, j \in DOMAIN applied : i < j => applied[i] < applied[j]
=============================================================================
