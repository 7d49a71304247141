----------------------------- MODULE SV2Adapter -----------------------------
(***************************************************************************)
(* The Stratum V2 adapter of poolproto (stratumv2/dialer.go), from DialURL *)
(* through the handshake to the read loop that assembles jobs: the frames  *)
(* NewMiningJob and SetNewPrevHash go through sv2JobAssembler, whose emit  *)
(* blocks on the bounded channel jobsCh.                                   *)
(*                                                                         *)
(* A merkle root is the place in log of the message that brought it.  An   *)
(* absent ntime_start is NoTime, below every ntime.                        *)
(***************************************************************************)
EXTENDS Integers, Sequences, Functions

CONSTANTS
  JobIds,      \* job ids the pool uses
  NTimes,      \* ntimes it uses, positive
  EmitCap,     \* capacity of jobsCh
  PendingCap,  \* pendingCap, scaled down
  MaxFrames    \* bound: frames the pool sends in the session

NoTime == 0
ReqID == 1

VARIABLES
  phase,         \* DialURL: "dial", "setup", "open", "session", "failed"
  connClosed,    \* connection.closed
  dialDone,      \* the caller's context is cancelled
  loop,          \* readLoop: "off", "top", "reads" (in ReadFrame), "emits", "done"
  pending,       \* sv2JobAssembler.pending: id -> place in log
  pendingOrder,  \* sv2JobAssembler.pendingOrder
  heldTip,       \* place in log of the tip held (prevHash, prevNBits), 0 if none
  emitting,      \* the job emit is handing over
  jobsCh,        \* the buffered channel
  log,           \* history: the frames the read loop decoded
  emitted        \* history: the jobs emit was called with

assembly == <<loop, pending, pendingOrder, heldTip, emitting, jobsCh, log, emitted>>
adapterVars == <<phase, connClosed, dialDone, assembly>>

NoPending == [i \in {} |-> 0]
NoEmit == [id |-> 0, root |-> 0, prev |-> 0, ntime |-> 0, clean |-> FALSE]

AdapterInit ==
  /\ phase = "dial" /\ connClosed = FALSE /\ dialDone = FALSE
  /\ loop = "off" /\ pending = NoPending /\ pendingOrder = << >> /\ heldTip = 0
  /\ emitting = NoEmit /\ jobsCh = << >> /\ log = << >> /\ emitted = << >>
-----------------------------------------------------------------------------
(* DialURL                                                                 *)

\* An unknown scheme, no dialer for it, or a dial that fails or times out: no
\* connection to close.
Dial ==
  /\ phase = "dial"
  /\ phase' \in {"setup", "failed"}
  /\ UNCHANGED <<connClosed, dialDone, assembly>>

\* The answer to SetupConnection, under handshakeTimeout: only a success that
\* requires none of the flags not offered continues. DialURL closes the
\* connection of a handshake that fails.
SetupAnswered(answer) ==
  /\ phase = "setup"
  /\ IF answer.t = "SetupConnectionSuccess" /\ answer.flags = 0
     THEN phase' = "open" /\ UNCHANGED connClosed
     ELSE phase' = "failed" /\ connClosed' = TRUE
  /\ UNCHANGED <<dialDone, assembly>>

ChannelAnswered(answer) ==
  /\ phase = "open"
  /\ IF answer.t = "OpenMiningChannelSuccess" /\ answer.req = ReqID
     THEN phase' = "session" /\ loop' = "top" /\ UNCHANGED connClosed
     ELSE phase' = "failed" /\ connClosed' = TRUE /\ UNCHANGED loop
  /\ UNCHANGED <<dialDone, pending, pendingOrder, heldTip, emitting, jobsCh, log, emitted>>

Answers ==
  {[t |-> "SetupConnectionSuccess", flags |-> f, req |-> 0] : f \in 0 .. 1}
  \cup {[t |-> "OpenMiningChannelSuccess", flags |-> 0, req |-> r] : r \in 1 .. 2}
  \cup {[t |-> "other, an error, undecodable or none", flags |-> 0, req |-> 0]}
-----------------------------------------------------------------------------
(* readLoop                                                                *)

Emits(job) ==
  /\ emitting' = job
  /\ emitted' = Append(emitted, [job |-> job, at |-> Len(log) + 1])
  /\ loop' = "emits"

Silent == loop' = "top" /\ UNCHANGED <<emitting, emitted>>

\* The eviction loop of onNewMiningJob: at most one id goes, the oldest.
Evict(order) == IF Len(order) > PendingCap THEN Tail(order) ELSE order

onNewMiningJob(m) ==
  LET at    == Len(log) + 1
      order == Evict(IF m.id \in DOMAIN pending THEN pendingOrder ELSE Append(pendingOrder, m.id))
  IN  /\ pendingOrder' = order
      /\ pending' = [i \in Range(order) |-> IF i = m.id THEN at ELSE pending[i]]
      /\ IF m.ntime # NoTime /\ heldTip # 0
         THEN Emits([id |-> m.id, root |-> at, prev |-> heldTip, ntime |-> m.ntime, clean |-> FALSE])
         ELSE Silent
      /\ UNCHANGED heldTip

\* The map survives the tip.
onSetNewPrevHashKeeps(m) ==
  LET at == Len(log) + 1
  IN  /\ heldTip' = at
      /\ IF m.id \in DOMAIN pending
         THEN Emits([id |-> m.id, root |-> pending[m.id], prev |-> at, ntime |-> m.ntime, clean |-> TRUE])
         ELSE Silent
      /\ UNCHANGED <<pending, pendingOrder>>

\* Only the named job outlives a tip.
onSetNewPrevHash(m) ==
  LET at == Len(log) + 1
  IN  /\ heldTip' = at
      /\ IF m.id \in DOMAIN pending
         THEN LET named == log[pending[m.id]]
              IN  /\ pending' = [i \in {m.id} |-> pending[i]]
                  /\ pendingOrder' = <<m.id>>
                  /\ Emits([id |-> m.id, root |-> pending[m.id], prev |-> at,
                            ntime |-> IF named.ntime > m.ntime THEN named.ntime ELSE m.ntime,
                            clean |-> TRUE])
         ELSE pending' = NoPending /\ pendingOrder' = << >> /\ Silent

Frames == [t : {"NewMiningJob"}, id : JobIds, ntime : NTimes \cup {NoTime}]
          \cup [t : {"SetNewPrevHash"}, id : JobIds, ntime : NTimes]

\* The checks at the top of the loop, before it blocks in ReadFrame.
LoopTop ==
  /\ loop = "top"
  /\ loop' = IF dialDone \/ connClosed THEN "done" ELSE "reads"
  /\ UNCHANGED <<phase, connClosed, dialDone, pending, pendingOrder, heldTip, emitting, jobsCh,
                 log, emitted>>

\* ReadFrame returns a frame, although the context may be cancelled or the connection
\* closed by now.
readLoop ==
  /\ loop = "reads"
  /\ \E m \in Frames :
       /\ Len(log) < MaxFrames
       /\ log' = Append(log, m)
       /\ \/ m.t = "NewMiningJob" /\ onNewMiningJob(m)
          \/ m.t = "SetNewPrevHash" /\ onSetNewPrevHash(m)
  /\ UNCHANGED <<phase, connClosed, dialDone, jobsCh>>

\* A frame of another type, or one that cannot be decoded, is skipped.
SkipsFrame ==
  /\ loop = "reads"
  /\ loop' = "top"
  /\ UNCHANGED <<phase, connClosed, dialDone, pending, pendingOrder, heldTip, emitting, jobsCh,
                 log, emitted>>

\* emit's select: a slot in the channel, or the context.
HandsOver ==
  /\ loop = "emits" /\ Len(jobsCh) < EmitCap
  /\ jobsCh' = Append(jobsCh, emitting)
  /\ emitting' = NoEmit /\ loop' = "top"
  /\ UNCHANGED <<phase, connClosed, dialDone, pending, pendingOrder, heldTip, log, emitted>>

GivesUp ==
  /\ loop = "emits" /\ dialDone
  /\ emitting' = NoEmit /\ loop' = "done"
  /\ UNCHANGED <<phase, connClosed, dialDone, pending, pendingOrder, heldTip, jobsCh, log, emitted>>

\* A read error, which the peer may cause and a closed connection does.
ReadFails ==
  /\ loop = "reads"
  /\ loop' = "done"
  /\ UNCHANGED <<phase, connClosed, dialDone, pending, pendingOrder, heldTip, emitting,
                 jobsCh, log, emitted>>
-----------------------------------------------------------------------------
(* The session's user                                                      *)

TakesJob ==
  /\ jobsCh # << >>
  /\ jobsCh' = Tail(jobsCh)
  /\ UNCHANGED <<phase, connClosed, dialDone, loop, pending, pendingOrder, heldTip, emitting,
                 log, emitted>>

Close ==
  /\ phase = "session" /\ ~connClosed
  /\ connClosed' = TRUE
  /\ UNCHANGED <<phase, dialDone, assembly>>

Cancel ==
  /\ ~dialDone
  /\ dialDone' = TRUE
  /\ UNCHANGED <<phase, connClosed, assembly>>

AdapterNext ==
  \/ Dial
  \/ \E a \in Answers : SetupAnswered(a) \/ ChannelAnswered(a)
  \/ LoopTop \/ readLoop \/ SkipsFrame \/ ReadFails \/ HandsOver \/ GivesUp
  \/ TakesJob \/ Close \/ Cancel

AdapterSpec == AdapterInit /\ [][AdapterNext]_adapterVars

AdapterFairSpec ==
  /\ AdapterSpec
  /\ WF_adapterVars(HandsOver) /\ WF_adapterVars(GivesUp) /\ WF_adapterVars(LoopTop)
  /\ WF_adapterVars(connClosed /\ ReadFails)

-----------------------------------------------------------------------------
Announced(id, k) == {i \in 1 .. k : log[i].t = "NewMiningJob" /\ log[i].id = id}
TipsUpTo(k) == {i \in 1 .. k : log[i].t = "SetNewPrevHash"}
LastOf(S) == CHOOSE i \in S : \A j \in S : j <= i

\* The assembler's jobs are the pool's. Every job emitted has the newest tip's
\* prev-hash and the newest merkle root announced for its id; the tip that made
\* it clean named it, no tip between the announcement and that one passed it
\* over, and its ntime is behind neither. A job announced for the tip in force
\* is emitted at once, whatever pendingCap has evicted.
AssembledSound ==
  /\ \A n \in DOMAIN emitted :
       LET e == emitted[n].job
           k == emitted[n].at
       IN  /\ e.prev = LastOf(TipsUpTo(k))
           /\ e.root = LastOf(Announced(e.id, k))
           /\ e.ntime >= log[e.root].ntime
           /\ IF e.clean
              THEN /\ e.prev = k
                   /\ e.ntime >= log[k].ntime
                   /\ \A i \in TipsUpTo(k) : i > e.root => log[i].id = e.id
              ELSE e.root = k
  /\ \A k \in DOMAIN log :
       (log[k].t = "NewMiningJob" /\ log[k].ntime # NoTime /\ TipsUpTo(k) # {})
         => \E n \in DOMAIN emitted : emitted[n].at = k
  /\ Range(pendingOrder) = DOMAIN pending /\ Len(pendingOrder) <= PendingCap

\* dialer.go on start: "The loop exits on read error, ctx cancellation, or
\* connection close, closing jobsCh on the way out."
ExitsOnClose == (loop # "off" /\ (connClosed \/ dialDone)) ~> (loop = "done")
-----------------------------------------------------------------------------
(* Why the assembler's jobs are the pool's.                                *)

\* What the proofs need of the constants.
AdapterOK == NTimes \subseteq Nat \ {0} /\ PendingCap \in Nat \ {0}

Newest(i, S) == i \in S /\ \A j \in S : j <= i

\* What AssembledSound says of one job, with LastOf as a maximum.
JobSound(e, k) ==
  /\ Newest(e.prev, TipsUpTo(k)) /\ Newest(e.root, Announced(e.id, k))
  /\ e.ntime >= log[e.root].ntime
  /\ e.clean => /\ e.prev = k /\ e.ntime >= log[k].ntime
                 /\ \A i \in TipsUpTo(k) : i > e.root => log[i].id = e.id
  /\ ~e.clean => e.root = k

\* The inductive invariant: a pending id leads to its newest announcement, and
\* every tip since then named that id; the tip held is the newest.
AdapterInv ==
  /\ log \in Seq(Frames) /\ pendingOrder \in Seq(JobIds)
  /\ DOMAIN pending = Range(pendingOrder) /\ Len(pendingOrder) <= PendingCap
  /\ \A id \in DOMAIN pending :
       /\ Newest(pending[id], Announced(id, Len(log)))
       /\ \A i \in TipsUpTo(Len(log)) : i > pending[id] => log[i].id = id
  /\ IF heldTip = 0 THEN TipsUpTo(Len(log)) = {} ELSE Newest(heldTip, TipsUpTo(Len(log)))
  /\ emitted \in Seq([job : [id : JobIds, root : Nat, prev : Nat, ntime : Nat, clean : BOOLEAN],
                      at : Nat])
  /\ \A n \in DOMAIN emitted :
       emitted[n].at \in 1 .. Len(log) /\ JobSound(emitted[n].job, emitted[n].at)
  /\ \A k \in DOMAIN log :
       (log[k].t = "NewMiningJob" /\ log[k].ntime # NoTime /\ TipsUpTo(k) # {})
         => \E n \in DOMAIN emitted : emitted[n].at = k
=============================================================================
