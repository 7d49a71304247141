----------------------------- MODULE Telemetry -----------------------------
(***************************************************************************)
(* The statistics tick of a pool session: the windows and accountants that *)
(* turn the workers' cumulative counters into the hash rate, the liveness  *)
(* gauge, productive time, estimated earnings and the count of shares lost *)
(* at the worker.  The workers and the metrics live as long as the engine; *)
(* the accountants are local variables of one session and start afresh     *)
(* with the next.                                                          *)
(*                                                                         *)
(* Time is counted in half seconds and the yield is one satoshi per half   *)
(* second of productive time.  The V1 and the SV2 session share this code. *)
(***************************************************************************)
EXTENDS Naturals

CONSTANTS
  MaxTime,       \* bound on the clock
  MaxHashes,     \* bound on the workers' hash counter
  MaxDrops,      \* bound on the shares the workers drop
  MaxSessions,   \* bound on the sessions of a behaviour
  MaxStall       \* samples without a hash before the miner counts as stalled

VARIABLES
  now,           \* the clock
  hashes,        \* totalHashes: hashed by the workers since they started
  drops,         \* totalDropped: found and dropped since they started
  idle,          \* curtailed, or every worker paused by arbitration
  session,       \* number of the session that runs, 0 between two
  sessions,      \* sessions so far
  acc,           \* the session's accountants
  metric,        \* the engine's metrics
  seen           \* what was true at the last tick (for the properties)

statsVars == <<now, hashes, drops, idle, session, sessions, acc, metric, seen>>

Fresh ==
  [primed |-> FALSE, lastTotal |-> 0, lastTime |-> 0,    \* hashrateWindow
   stallCount |-> 0, warned |-> FALSE,                   \* HashrateMonitor
   ticked |-> FALSE, lastTick |-> 0, accum |-> 0,        \* uptimeAccountant
   sats |-> 0,                                           \* satsAccountant
   lastDropped |-> 0]

-----------------------------------------------------------------------------
(* hashrateWindow.observe: whether the rate since the last tick is above 0. *)
Rate(a) == a.primed /\ now > a.lastTime /\ hashes > a.lastTotal
observeHashes(a) == [a EXCEPT !.primed = TRUE, !.lastTotal = hashes, !.lastTime = now]

(* HashrateMonitor.Observe.                                                *)
Observe(a) ==
  IF Rate(a) THEN [a EXCEPT !.stallCount = 0, !.warned = FALSE]
  ELSE [a EXCEPT !.stallCount = IF @ < MaxStall THEN @ + 1 ELSE @,
                 !.warned = @ \/ a.stallCount + 1 >= MaxStall]

(* updateLiveness: an idle miner is not observed and is up.                *)
updateLiveness(a) == IF idle THEN a ELSE Observe(a)
Stalled(a) == ~idle /\ Observe(a).warned

(* The elapsed time an accountant adds.                                    *)
Elapsed(a) == IF a.ticked THEN now - a.lastTick ELSE 0

(* The mutant: the clock of the accountant stands still while the miner    *)
(* produces nothing.                                                       *)
uptimeObserveLazy(a, productive) ==
  LET accum == a.accum + IF productive THEN Elapsed(a) ELSE 0
  IN [acc |-> [a EXCEPT !.ticked = TRUE, !.accum = accum % 2,
                        !.lastTick = IF productive \/ ~a.ticked THEN now ELSE @],
      whole |-> accum \div 2]

(* uptimeAccountant.observe: whole seconds go to the counter, the rest is  *)
(* carried to the next tick.                                               *)
uptimeObserve(a, productive) ==
  LET accum == a.accum + IF productive THEN Elapsed(a) ELSE 0
  IN [acc |-> [a EXCEPT !.ticked = TRUE, !.accum = accum % 2, !.lastTick = now],
      whole |-> accum \div 2]

(* satsAccountant.observe, which keeps its own copy of the same clock.     *)
satsObserve(a, productive) == a.sats + IF productive THEN Elapsed(a) ELSE 0

(* What sharesWorkerDropped grows by: the difference, or the new total     *)
(* when the total went down.                                               *)
droppedDelta(a) ==
  CASE drops = a.lastDropped -> 0
    [] drops > a.lastDropped -> drops - a.lastDropped
    [] OTHER -> drops

-----------------------------------------------------------------------------
(* case <-statsTicker.C, in the order of the handler.                      *)
StatsTick ==
  /\ session # 0
  /\ LET productive == Rate(acc) /\ ~Stalled(acc)
         a1 == updateLiveness(acc)
         up == uptimeObserve([a1 EXCEPT !.sats = satsObserve(acc, productive)], productive)
     IN /\ acc' = [observeHashes(up.acc) EXCEPT !.lastDropped = drops]
        /\ metric' = [metric EXCEPT !.dropped = @ + droppedDelta(acc),
                                    !.productive = @ + up.whole,
                                    !.up = ~Stalled(acc)]
        /\ seen' = [drops |-> drops,
                    busy |-> seen.busy + IF acc.primed /\ hashes > acc.lastTotal
                                         THEN now - acc.lastTime ELSE 0]
  /\ UNCHANGED <<now, hashes, drops, idle, session, sessions>>

(* A session begins with new accountants; it ends without a last tick.     *)
SessionBegins ==
  /\ session = 0 /\ sessions < MaxSessions
  /\ sessions' = sessions + 1 /\ session' = sessions + 1 /\ acc' = Fresh
  /\ UNCHANGED <<now, hashes, drops, idle, metric, seen>>

SessionEnds ==
  /\ session # 0 /\ session' = 0 /\ acc' = Fresh
  /\ UNCHANGED <<now, hashes, drops, idle, sessions, metric, seen>>

-----------------------------------------------------------------------------
(* The workers: a batch under way outlives the session, and the order to   *)
(* idle, that it began under; a share they drop is one they found.         *)
Grind ==
  /\ hashes < MaxHashes /\ hashes' = hashes + 1
  /\ drops' \in {drops} \cup IF drops < MaxDrops THEN {drops + 1} ELSE {}
  /\ UNCHANGED <<now, idle, session, sessions, acc, metric, seen>>

TimePasses ==
  /\ now < MaxTime /\ now' = now + 1
  /\ UNCHANGED <<hashes, drops, idle, session, sessions, acc, metric, seen>>

(* The curtailment gate or the arbitration sets it, from goroutines of     *)
(* their own.                                                              *)
IdlesOrResumes ==
  /\ idle' = ~idle
  /\ UNCHANGED <<now, hashes, drops, session, sessions, acc, metric, seen>>

StatsInit ==
  /\ now = 0 /\ hashes = 0 /\ drops = 0 /\ idle = FALSE
  /\ session = 0 /\ sessions = 0 /\ acc = Fresh
  /\ metric = [dropped |-> 0, productive |-> 0, up |-> TRUE]
  /\ seen = [drops |-> 0, busy |-> 0]

StatsNext ==
  \/ StatsTick \/ SessionBegins \/ SessionEnds
  \/ Grind \/ TimePasses \/ IdlesOrResumes

StatsSpec == StatsInit /\ [][StatsNext]_statsVars

-----------------------------------------------------------------------------
(* otedama_productive_seconds_total, with what the accountant has not      *)
(* flushed yet, never exceeds the time between ticks in which the workers  *)
(* really hashed, nor do the session's estimated earnings, however the     *)
(* sessions, the curtailment and the ticks fall: downtime accrues nothing  *)
(* and no half second is counted twice.                                    *)
NoPhantomUptime ==
  /\ 2 * metric.productive + acc.accum <= seen.busy
  /\ acc.sats <= seen.busy

\* otedama_shares_worker_dropped_total never exceeds what the workers dropped.
\* docs/CATEGORY_AUDIT.md on the drop accounting over reconnects: "no drop is lost or
\* double-counted".
DropsCountedOnce == metric.dropped <= drops

-----------------------------------------------------------------------------
(* Why no uptime is invented: the accountants and the window they trust    *)
(* are primed by the same tick and read the same clock, and what is        *)
(* carried over a tick is less than a second.                              *)
StatsInv ==
  /\ now \in Nat /\ hashes \in Nat /\ drops \in Nat
  /\ acc \in [primed : BOOLEAN, lastTotal : Nat, lastTime : Nat, stallCount : Nat,
             warned : BOOLEAN, ticked : BOOLEAN, lastTick : Nat, accum : 0 .. 1, sats : Nat,
             lastDropped : Nat]
  /\ metric \in [dropped : Nat, productive : Nat, up : BOOLEAN]
  /\ seen \in [drops : Nat, busy : Nat]
  /\ acc.ticked = acc.primed /\ acc.lastTick = acc.lastTime /\ acc.lastTime <= now
  /\ NoPhantomUptime
=============================================================================
