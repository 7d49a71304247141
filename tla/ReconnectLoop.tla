--------------------------- MODULE ReconnectLoop ---------------------------
(***************************************************************************)
(* runReconnectLoop (internal/engine/run.go): one session at a time over   *)
(* an ordered list of pools and an ordered list of payout addresses.       *)
(* Pool failover is immediate, address failover happens only while no      *)
(* address has ever worked, and a full sweep is followed by a backoff.     *)
(* A session is opaque here: it is dialled, it may establish, it ends.     *)
(* Pools and addresses are their 0-based indices, as in the code.          *)
(***************************************************************************)
EXTENDS Integers, FiniteSets

CONSTANTS
  NPools,                \* len(pools)
  NAddrs,                \* len(addrs)
  V2Pools,               \* pools dialled over Stratum V2, whose refusal is fatal
  Accepts,               \* <<addr, pool>> pairs the pool's handshake accepts
  MaxReconnectAttempts   \* 0 means unlimited

Pools == 0 .. NPools - 1
Addrs == 0 .. NAddrs - 1
Targets == Addrs \X Pools

ASSUME NPoolsAssumption == NPools \in Nat \ {0}
ASSUME NAddrsAssumption == NAddrs \in Nat \ {0}
ASSUME PoolAssumption == V2Pools \subseteq Pools /\ Accepts \subseteq Targets
ASSUME AttemptsAssumption == MaxReconnectAttempts \in Nat

\* reconnectBackoffInitial and reconnectBackoffMax, in seconds.
BackoffInitial == 1
BackoffMax == 64
Backoffs == {1, 2, 4, 8, 16, 32, 64}

VARIABLES
  pc,               \* where the loop is: "loop", "dialing", "connected", "backoff", "stopped"
  poolIdx, addrIdx,
  addrConnected,    \* the active address has established a session
  connectedThisAttempt,
  attempt,          \* counted only when MaxReconnectAttempts bounds it
  backoff,
  degraded,         \* yieldDegradedPools
  exit,             \* why the loop returned: "none", "ctx", "fatal", "attempts"
  ctxDone,          \* ctx.Err() # nil
  ready,            \* last OnReady call
  connState,        \* otedama_pool_connection_state: 0, 1, 2
  armed,            \* some worker holds work
  shown,            \* <<addr, pool>> last given to the gauges and SetPayoutScheme
  up,               \* environment: pools that answer
  burst,            \* history: <<addr, pool>> dialled since the last sleep
  worked            \* history: a session was established since the last sleep

loopVars == <<poolIdx, addrIdx, addrConnected, backoff, degraded>>
viewVars == <<ready, connState, armed>>
history == <<burst, worked>>
vars == <<pc, loopVars, connectedThisAttempt, attempt, exit, ctxDone,
          viewVars, shown, up, history>>

Current == <<addrIdx, poolIdx>>

nextFailoverPoolStuck(start, marks) == start

\* The first unmarked pool after start in cyclic order, else start itself.
nextFailoverPool(start, marks) ==
  LET after == {p \in Pools : p > start /\ p \notin marks}
      before == {p \in Pools : p < start /\ p \notin marks}
      Least(S) == CHOOSE p \in S : \A q \in S : p <= q
  IN  IF after # {} THEN Least(after)
      ELSE IF before # {} THEN Least(before) ELSE start

Init ==
  /\ pc = "loop" /\ exit = "none" /\ ctxDone = FALSE
  /\ poolIdx = 0 /\ addrIdx = 0
  /\ addrConnected = FALSE /\ connectedThisAttempt = FALSE
  /\ attempt = 0 /\ backoff = BackoffInitial
  /\ degraded = {}
  /\ ready = FALSE /\ connState = 0 /\ armed = FALSE
  /\ shown = <<0, 0>>
  /\ up \in SUBSET Pools
  /\ burst = {} /\ worked = FALSE

Stop(why) == pc' = "stopped" /\ exit' = why

AttemptsExceeded ==
  MaxReconnectAttempts > 0 /\ attempt + 1 > MaxReconnectAttempts

CountAttempt ==
  attempt' = IF MaxReconnectAttempts > 0 THEN attempt + 1 ELSE attempt

\* The loop head: give up after the last attempt, else publish the pair and dial it.
Dial ==
  /\ pc = "loop" /\ ~ctxDone
  /\ CountAttempt
  /\ \/ /\ AttemptsExceeded
        /\ Stop("attempts")
        /\ UNCHANGED <<connectedThisAttempt, shown, connState, burst>>
     \/ /\ ~AttemptsExceeded
        /\ pc' = "dialing"
        /\ connectedThisAttempt' = FALSE
        /\ shown' = Current
        /\ connState' = 1
        /\ burst' = burst \cup {Current}
        /\ UNCHANGED exit
  /\ UNCHANGED <<loopVars, ctxDone, ready, armed, up, worked>>

\* The loop condition sees a cancelled context.
LoopExit ==
  /\ pc = "loop" /\ ctxDone
  /\ Stop("ctx")
  /\ UNCHANGED <<loopVars, connectedThisAttempt, attempt, ctxDone, viewVars,
                 shown, up, history>>

\* The handshake succeeds: the session sets the gauge and calls onConnected.
Establish ==
  /\ pc = "dialing" /\ poolIdx \in up /\ Current \in Accepts
  /\ pc' = "connected" /\ connState' = 2
  /\ addrConnected' = TRUE /\ connectedThisAttempt' = TRUE /\ ready' = TRUE
  /\ worked' = TRUE
  /\ UNCHANGED <<poolIdx, addrIdx, backoff, degraded, attempt, exit, ctxDone,
                 armed, shown, up, burst>>

\* The session hands a job to the workers.
ArmWorkers ==
  /\ pc = "connected" /\ ~armed
  /\ armed' = TRUE
  /\ UNCHANGED <<pc, loopVars, connectedThisAttempt, attempt, exit, ctxDone,
                 ready, connState, shown, up, history>>

\* Every session exit, whatever its error: gauge, readiness, SetWork(nil).
EndSession ==
  connState' = 0 /\ ready' = FALSE /\ armed' = FALSE

\* A session that established forgets the accumulated delay.
ResetBackoff ==
  backoff' = IF connectedThisAttempt THEN BackoffInitial ELSE backoff

PoolFailoverAlways(marks) ==
  /\ NPools > 1
  /\ nextFailoverPool(poolIdx, marks) # poolIdx
  /\ poolIdx' = nextFailoverPool(poolIdx, marks)
  /\ degraded' = marks
  /\ pc' = "loop"
  /\ UNCHANGED addrIdx

\* A later unmarked pool exists: dial it at once.
PoolFailover(marks) ==
  /\ NPools > 1
  /\ nextFailoverPool(poolIdx, marks) > poolIdx
  /\ poolIdx' = nextFailoverPool(poolIdx, marks)
  /\ degraded' = marks
  /\ pc' = "loop"
  /\ UNCHANGED addrIdx

EpochSpent(marks) ==
  /\ NPools > 1
  /\ nextFailoverPool(poolIdx, marks) = poolIdx
  /\ poolIdx \in marks

\* Every eligible pool failed for this address: rotate the address while none
\* has ever worked, and sleep unless an untried address is left.
SweepDone(marks) ==
  /\ NPools > 1 => nextFailoverPool(poolIdx, marks) <= poolIdx
  /\ degraded' = IF EpochSpent(marks) THEN {} ELSE marks
  /\ IF ~addrConnected /\ NAddrs > 1
     THEN /\ addrIdx' = (addrIdx + 1) % NAddrs
          /\ poolIdx' = 0
          /\ pc' = IF addrIdx' # 0 THEN "loop" ELSE "backoff"
     ELSE /\ UNCHANGED addrIdx
          /\ poolIdx' = IF EpochSpent(marks) THEN 0
                        ELSE IF NPools > 1 THEN nextFailoverPool(poolIdx, marks)
                        ELSE poolIdx
          /\ pc' = "backoff"

MoveOn(marks) == PoolFailover(marks) \/ SweepDone(marks)

SessionOutcomes == {"dropped", "yield"}

MarksAfterAny(outcome) ==
  IF NPools > 1 THEN degraded \cup {poolIdx} ELSE degraded

\* Only a verdict on share acceptance marks the pool (errYieldDegraded).
MarksAfter(outcome) ==
  IF outcome = "yield" THEN degraded \cup {poolIdx} ELSE degraded

\* runSession returned while the engine still intends to run.
SessionOver(outcome) ==
  /\ ~ctxDone
  /\ EndSession
  /\ ResetBackoff
  /\ MoveOn(MarksAfter(outcome))
  /\ UNCHANGED <<addrConnected, connectedThisAttempt, attempt, exit, ctxDone,
                 shown, up, history>>

\* The pool does not answer, or a V1 pool refuses the address.
DialFails ==
  /\ pc = "dialing"
  /\ \/ poolIdx \notin up
     \/ Current \notin Accepts /\ poolIdx \notin V2Pools
  /\ SessionOver("dropped")

\* A V2 pool refuses SetupConnection or OpenMiningChannel: *fatalError.
PoolRejects ==
  /\ pc = "dialing" /\ ~ctxDone
  /\ poolIdx \in up /\ Current \notin Accepts /\ poolIdx \in V2Pools
  /\ EndSession
  /\ Stop("fatal")
  /\ UNCHANGED <<loopVars, connectedThisAttempt, attempt, ctxDone, shown, up, history>>

\* An established session ends; the yield verdict exists only with several pools.
SessionEnds(outcome) ==
  /\ pc = "connected"
  /\ outcome = "yield" => NPools > 1
  /\ SessionOver(outcome)

SessionCancelledIgnored ==
  /\ pc = "dialing" /\ ctxDone
  /\ EndSession
  /\ Stop("ctx")
  /\ UNCHANGED <<loopVars, connectedThisAttempt, attempt, ctxDone, shown, up, history>>

\* runSession returned because of, or after, the cancellation.
SessionCancelled ==
  /\ pc \in {"dialing", "connected"} /\ ctxDone
  /\ EndSession
  /\ Stop("ctx")
  /\ UNCHANGED <<loopVars, connectedThisAttempt, attempt, ctxDone, shown, up, history>>

\* The jittered sleep is over; the next one doubles.
BackoffElapsed ==
  /\ pc = "backoff"
  /\ pc' = "loop"
  /\ backoff' = IF backoff < BackoffMax THEN backoff * 2 ELSE backoff
  /\ burst' = {} /\ worked' = FALSE
  /\ UNCHANGED <<poolIdx, addrIdx, addrConnected, degraded, connectedThisAttempt,
                 attempt, exit, ctxDone, viewVars, shown, up>>

BackoffCancelled ==
  /\ pc = "backoff" /\ ctxDone
  /\ Stop("ctx")
  /\ UNCHANGED <<loopVars, connectedThisAttempt, attempt, ctxDone, viewVars,
                 shown, up, history>>

\* The operator stops the engine.
Cancel ==
  /\ ~ctxDone /\ pc # "stopped"
  /\ ctxDone' = TRUE
  /\ UNCHANGED <<pc, loopVars, connectedThisAttempt, attempt, exit, viewVars,
                 shown, up, history>>

\* Environment: a pool becomes reachable or unreachable.
PoolFlips(p) ==
  /\ pc # "stopped"
  /\ up' = IF p \in up THEN up \ {p} ELSE up \cup {p}
  /\ UNCHANGED <<pc, loopVars, connectedThisAttempt, attempt, exit, ctxDone,
                 viewVars, shown, history>>

Stopped == pc = "stopped" /\ UNCHANGED vars

LoopStep == Dial \/ LoopExit \/ BackoffElapsed \/ BackoffCancelled

SessionStep == Establish \/ DialFails \/ PoolRejects \/ SessionCancelled

Next ==
  \/ LoopStep
  \/ SessionStep
  \/ ArmWorkers
  \/ \E outcome \in SessionOutcomes : SessionEnds(outcome)
  \/ Cancel
  \/ \E p \in Pools : PoolFlips(p)
  \/ Stopped

Spec == Init /\ [][Next]_vars

\* The loop's goroutine is scheduled, every sleep has a timer, and every dial
\* and handshake has a deadline. Nothing makes a healthy session end.
Fairness == WF_vars(LoopStep) /\ WF_vars(SessionStep)

FairSpec == Spec /\ Fairness
-----------------------------------------------------------------------------
InSession == pc \in {"dialing", "connected"}

\* Every variable keeps its type; the delay is a power of two up to the maximum and
\* the attempt counter exceeds its limit only in the iteration that returns.
TypeOK ==
  /\ pc \in {"loop", "dialing", "connected", "backoff", "stopped"}
  /\ poolIdx \in Pools /\ addrIdx \in Addrs
  /\ addrConnected \in BOOLEAN /\ connectedThisAttempt \in BOOLEAN
  /\ attempt \in 0 .. MaxReconnectAttempts + 1
  /\ attempt > MaxReconnectAttempts => pc = "stopped"
  /\ backoff \in Backoffs
  /\ degraded \subseteq Pools
  /\ exit \in {"none", "ctx", "fatal", "attempts"}
  /\ ctxDone \in BOOLEAN
  /\ ready \in BOOLEAN /\ connState \in 0 .. 2 /\ armed \in BOOLEAN
  /\ shown \in Targets
  /\ up \subseteq Pools
  /\ burst \subseteq Targets /\ worked \in BOOLEAN

\* Readiness, the connection gauge and the workers' jobs belong to a live session:
\* between sessions (the backoff window, after the loop returned) the engine is
\* never ready, never shown connected and no worker is left hashing a dead job.
HonestState ==
  /\ ready <=> pc = "connected"
  /\ connState = (CASE pc = "dialing" -> 1 [] pc = "connected" -> 2 [] OTHER -> 0)
  /\ armed => pc = "connected"
  /\ InSession => shown = Current

\* A pool that carries a yield-degradation mark is never dialled, whichever way
\* the loop reached it: pool failover, address failover, epoch reset or retry.
DegradedNotDialed == pc = "loop" \/ InSession => poolIdx \notin degraded

\* No <<address, pool>> pair is dialled twice without a backoff in between: the
\* immediate failovers never hammer a dead endpoint.
NoHammering == pc = "loop" => Current \notin burst

\* The first sleep after a session that established is the initial delay, even when
\* other pools failed between the end of that session and the sleep.
FreshBackoff == pc = "backoff" /\ worked => backoff = BackoffInitial

Before(t, u) == t[1] < u[1] \/ (t[1] = u[1] /\ t[2] < u[2])

\* What the marks mean: only a session marks a pool, so there are none before the first
\* session, none with a single pool, and the pool at hand is never a marked one.
MarksSound ==
  /\ ~addrConnected => degraded = {}
  /\ NPools = 1 => degraded = {}
  /\ pc # "stopped" => poolIdx \notin degraded
  /\ pc = "connected" => addrConnected /\ connectedThisAttempt

\* The walk is lexicographic: what was dialled since the last sleep lies before the
\* current pair.
WalkOrdered ==
  /\ pc = "loop" => \A t \in burst : Before(t, Current)
  /\ InSession => \A t \in burst : t = Current \/ Before(t, Current)

\* The walk skips nothing: every unmarked earlier pool of this address was dialled
\* since the last sleep, and every pair of every earlier address.
WalkComplete ==
  /\ pc = "loop" \/ InSession =>
       /\ \A p \in Pools \ degraded : p < poolIdx => <<addrIdx, p>> \in burst
       /\ ~addrConnected => \A a \in Addrs, p \in Pools : a < addrIdx => <<a, p>> \in burst
  /\ InSession => Current \in burst
  /\ pc = "backoff" =>
       /\ \A p \in Pools \ degraded : poolIdx <= p
       /\ ~addrConnected => addrIdx = 0

\* Once a session worked the delay is the initial one until the next sleep is over.
BackoffSound ==
  worked /\ pc \notin {"connected", "stopped"} => backoff = BackoffInitial

\* The inductive invariant behind DegradedNotDialed, NoHammering, FreshBackoff,
\* AddressFrozen and SleepsAfterSweep.
LoopInv ==
  TypeOK /\ HonestState /\ MarksSound /\ WalkOrdered /\ WalkComplete /\ BackoffSound

\* An address that has established a session is never abandoned.
AddressFrozen == [][addrConnected => addrIdx' = addrIdx]_vars

\* The loop sleeps only when every unmarked pool was dialled with the current
\* address, and while no address ever worked, only when all addresses were.
SleepsAfterSweep ==
  [][pc' = "backoff" /\ pc # "backoff" =>
       /\ \A p \in Pools \ degraded : <<addrIdx, p>> \in burst
       /\ ~addrConnected => Targets \subseteq burst]_vars

\* Cancelling the context always ends the loop, from a dial, a session or a sleep.
StopsOnCancel == ctxDone ~> pc = "stopped"

Welcoming == {p \in Pools : \A a \in Addrs : <<a, p>> \in Accepts}

\* If a pool that accepts every address stays reachable and unmarked, the engine
\* gets sessions again and again, whatever the other pools do.
UnmarkedPoolReached ==
  \A p \in Welcoming :
    <>[](p \in up /\ p \notin degraded) => []<>(pc \in {"connected", "stopped"})

\* "An outage can never silently redirect earnings to a different address": a session
\* runs on a backup address only if some pool refuses each earlier address.
NoSilentRedirect ==
  pc = "connected" =>
    \A b \in 0 .. addrIdx - 1 : \E p \in Pools : <<b, p>> \notin Accepts
=============================================================================
