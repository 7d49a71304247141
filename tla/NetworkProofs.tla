--------------------------- MODULE NetworkProofs ---------------------------
(***************************************************************************)
(* What the engine does with the network it depends on. The reconnect      *)
(* loop, for any number of pools and addresses, any acceptance relation    *)
(* and any attempt limit: LoopInv orders the walk over the pairs. The      *)
(* price and hashrate feeds, for any readings of their sources and any     *)
(* interleaving of callers: one source cannot move the median far.         *)
(***************************************************************************)
EXTENDS ReconnectLoop, RateFetch, FiniteSetTheorems, WellFoundedInduction, TLAPS

USE NPoolsAssumption, NAddrsAssumption, PoolAssumption, AttemptsAssumption

\* A non-empty set of naturals has a least element.
LEMMA LeastExists ==
  ASSUME NEW S, S \subseteq Nat, S # {}
  PROVE  \E m \in S : \A k \in S : m <= k
<1> DEFINE R == {ss \in Nat \X Nat : ss[1] < ss[2]}
<1>1. IsWellFoundedOn(R, Nat)
  <2>1. OpToRel(<, Nat) = R
    BY Zenon DEF OpToRel
  <2> QED  BY Zenon, <2>1, NatLessThanWellFounded
<1>2. PICK m \in S : \A k \in S : <<k, m>> \notin R
  BY <1>1, WFMin, Zenon
<1>3. ASSUME NEW k \in S PROVE m <= k
  <2>1. m \in Nat /\ k \in Nat
    BY Zenon
  <2>2. k < m => <<k, m>> \in R
    BY <2>1, Zenon
  <2> QED  BY <1>2, <2>1, <2>2
<1> QED  BY <1>3, Zenon

\* nextFailoverPool stays on start exactly when every other pool is marked; otherwise
\* it returns an unmarked pool and skips only marked ones, wrapping at the end.
LEMMA NextFailoverPool ==
  ASSUME NEW start \in Pools, NEW marks \in SUBSET Pools
  PROVE  LET next == nextFailoverPool(start, marks) IN
         /\ next \in Pools
         /\ next # start => next \notin marks
         /\ next = start => \A p \in Pools \ marks : p = start
         /\ next > start => \A p \in Pools \ marks : p <= start \/ next <= p
         /\ next < start => \A p \in Pools \ marks : next <= p /\ p <= start
<1> DEFINE after == {p \in Pools : p > start /\ p \notin marks}
           before == {p \in Pools : p < start /\ p \notin marks}
           Least(S) == CHOOSE p \in S : \A q \in S : p <= q
           next == nextFailoverPool(start, marks)
<1> SUFFICES /\ next \in Pools
             /\ next # start => next \notin marks
             /\ next = start => \A p \in Pools \ marks : p = start
             /\ next > start => \A p \in Pools \ marks : p <= start \/ next <= p
             /\ next < start => \A p \in Pools \ marks : next <= p /\ p <= start
  BY Zenon
<1>0. Pools \subseteq Nat
  BY DEF Pools
<1>1. ASSUME NEW S \in SUBSET Pools, S # {}
      PROVE  Least(S) \in S /\ \A q \in S : Least(S) <= q
  <2>1. \E m \in S : \A k \in S : m <= k
    BY Zenon, <1>0, <1>1, LeastExists
  <2> QED  BY <2>1, Zenon
<1>2. next = IF after # {} THEN Least(after) ELSE IF before # {} THEN Least(before) ELSE start
  BY Zenon DEF nextFailoverPool
<1> HIDE DEF Least, next
<1>3. CASE after # {}
  <2>1. next \in after /\ \A q \in after : next <= q
    BY <1>1, <1>2, <1>3, Zenon
  <2> QED  BY <2>1, <1>0
<1>4. CASE after = {} /\ before # {}
  <2>1. next \in before /\ \A q \in before : next <= q
    BY <1>1, <1>2, <1>4, Zenon
  <2> QED  BY <2>1, <1>0, <1>4
<1>5. CASE after = {} /\ before = {}
  BY <1>0, <1>2, <1>5
<1> QED  BY <1>3, <1>4, <1>5, Zenon

\* The end of a session preserves the invariant: both ways of moving on, immediate
\* failover to a later pool and the end of a sweep.
LEMMA SessionOverInv ==
  ASSUME LoopInv, InSession, NEW outcome \in SessionOutcomes,
         outcome = "yield" => pc = "connected" /\ NPools > 1,
         SessionOver(outcome)
  PROVE  LoopInv'
<1> DEFINE marks == MarksAfter(outcome)
           next == nextFailoverPool(poolIdx, marks)
<1> USE DEF LoopInv, TypeOK
<1>0. /\ Pools \subseteq Nat /\ Addrs \subseteq Nat /\ 0 \in Pools /\ 0 \in Addrs
      /\ poolIdx \in Pools /\ addrIdx \in Addrs
  BY DEF Pools, Addrs
<1>1. /\ marks \in SUBSET Pools
      /\ degraded \subseteq marks
      /\ ~addrConnected => marks = {}
      /\ NPools = 1 => marks = {}
      /\ \A p \in Pools : p \in marks => p \in degraded \/ p = poolIdx
  BY DEF MarksAfter, MarksSound, SessionOutcomes
<1> HIDE DEF marks
<1>2. /\ next \in Pools
      /\ next # poolIdx => next \notin marks
      /\ next = poolIdx => \A p \in Pools \ marks : p = poolIdx
      /\ next > poolIdx => \A p \in Pools \ marks : p <= poolIdx \/ next <= p
      /\ next < poolIdx => \A p \in Pools \ marks : next <= p /\ p <= poolIdx
  BY <1>0, <1>1, NextFailoverPool, Zenon
<1>3. /\ PoolFailover(marks) \/ SweepDone(marks)
      /\ connState' = 0 /\ ready' = FALSE /\ armed' = FALSE
      /\ backoff' = IF connectedThisAttempt THEN BackoffInitial ELSE backoff
      /\ UNCHANGED <<addrConnected, connectedThisAttempt, attempt, exit, ctxDone,
                     shown, up, burst, worked>>
  BY Zenon DEF SessionOver, MoveOn, EndSession, ResetBackoff, history, marks
<1> HIDE DEF next
<1>a. backoff' \in Backoffs
  BY <1>3, Zenon DEF Backoffs, BackoffInitial
<1>b. /\ addrConnected' \in BOOLEAN /\ connectedThisAttempt' \in BOOLEAN
      /\ ctxDone' \in BOOLEAN /\ worked' \in BOOLEAN /\ ready' \in BOOLEAN /\ armed' \in BOOLEAN
  BY <1>3, Zenon
<1>c. /\ attempt' \in 0 .. MaxReconnectAttempts + 1
      /\ attempt' <= MaxReconnectAttempts
      /\ exit' \in {"none", "ctx", "fatal", "attempts"}
      /\ connState' \in 0 .. 2 /\ shown' \in Targets
      /\ up' \subseteq Pools /\ burst' \subseteq Targets
  BY <1>3 DEF InSession
<1>d. \A t \in burst : t[1] \in Nat /\ t[2] \in Nat /\ (t = Current \/ Before(t, Current))
  BY Zenon, <1>0 DEF WalkOrdered, InSession, Targets
<1>4. CASE PoolFailover(marks)
  <2>1. /\ NPools > 1 /\ next > poolIdx /\ poolIdx' = next /\ degraded' = marks
        /\ pc' = "loop" /\ addrIdx' = addrIdx
    BY <1>4, Zenon DEF PoolFailover, next
  <2>2. TypeOK'
    BY <1>1, <1>2, <1>a, <1>b, <1>c, <2>1
  <2>3. HonestState'
    BY <1>3, <2>1, Zenon DEF HonestState, InSession
  <2>4. MarksSound'
    BY SMTT(30), <1>0, <1>1, <1>2, <1>3, <2>1 DEF MarksSound
  <2>5. WalkOrdered'
    BY SMTT(30), <1>0, <1>2, <1>3, <1>d, <2>1 DEF WalkOrdered, Before, Current, InSession
  <2>6. WalkComplete'
    BY <1>0, <1>1, <1>2, <1>3, <2>1 DEF WalkComplete, Current, InSession
  <2>7. BackoffSound'
    BY <1>3, <2>1, Zenon DEF BackoffSound, MarksSound, InSession
  <2> QED  BY <2>2, <2>3, <2>4, <2>5, <2>6, <2>7, Zenon
<1>5. CASE SweepDone(marks)
  <2>1. /\ NPools > 1 => next <= poolIdx
        /\ degraded' = IF EpochSpent(marks) THEN {} ELSE marks
        /\ IF ~addrConnected /\ NAddrs > 1
           THEN /\ addrIdx' = (addrIdx + 1) % NAddrs
                /\ poolIdx' = 0
                /\ pc' = IF addrIdx' # 0 THEN "loop" ELSE "backoff"
           ELSE /\ addrIdx' = addrIdx
                /\ poolIdx' = IF EpochSpent(marks) THEN 0
                              ELSE IF NPools > 1 THEN next ELSE poolIdx
                /\ pc' = "backoff"
    BY <1>5, Zenon DEF SweepDone, next
  <2>2. EpochSpent(marks) <=> NPools > 1 /\ next = poolIdx /\ poolIdx \in marks
    BY Zenon DEF EpochSpent, next
  <2>3. (addrIdx + 1) % NAddrs = IF addrIdx + 1 = NAddrs THEN 0 ELSE addrIdx + 1
    BY <1>0 DEF Addrs
  <2>4. NPools = 1 => Pools = {0} /\ poolIdx = 0
    BY <1>0 DEF Pools
  <2>5. TypeOK'
    <3>1. addrIdx' \in Addrs
      BY <1>0, <2>1, <2>3 DEF Addrs
    <3>2. poolIdx' \in Pools /\ degraded' \subseteq Pools
      BY ZenonT(60), <1>0, <1>1, <1>2, <2>1
    <3>3. pc' \in {"loop", "backoff"}
      BY <2>1, Zenon
    <3> QED  BY SMTT(30), <1>a, <1>b, <1>c, <3>1, <3>2, <3>3
  <2>6. HonestState'
    BY <1>3, <2>1, Zenon DEF HonestState, InSession
  <2>7. MarksSound'
    <3>1. degraded' \subseteq marks
      BY <2>1, Zenon
    <3>2. poolIdx' \notin degraded'
      BY SMTT(30), <1>1, <1>2, <2>1, <2>2
    <3> QED  BY <1>1, <1>3, <2>1, <3>1, <3>2, Zenon DEF MarksSound
  <2>8. WalkOrdered'
    BY <1>0, <1>3, <1>d, <2>1, <2>3 DEF WalkOrdered, Before, Current, InSession
  <2>9. BackoffSound'
    BY <1>3, <2>1, Zenon DEF BackoffSound, MarksSound, InSession
  <2>10. WalkComplete'
    <3>1. CASE ~addrConnected /\ NAddrs > 1 /\ addrIdx' # 0
      <4>1. addrIdx' = addrIdx + 1 /\ poolIdx' = 0 /\ pc' = "loop" /\ marks = {}
        BY <1>1, <2>1, <2>3, <3>1, Zenon
      <4>2. \A p \in Pools : p <= poolIdx
        BY SMTT(30), <1>0, <1>1, <1>2, <2>1, <2>4, <4>1 DEF Pools
      <4>3. \A a \in Addrs, p \in Pools : a < addrIdx + 1 => <<a, p>> \in burst
        BY SMTT(30), <1>0, <1>1, <3>1, <4>1, <4>2 DEF WalkComplete, Current
      <4> QED  BY <1>0, <1>3, <3>1, <4>1, <4>3 DEF WalkComplete, InSession
    <3>2. CASE ~addrConnected /\ NAddrs > 1 /\ addrIdx' = 0
      BY SMTT(30), <1>0, <1>3, <2>1, <3>2 DEF WalkComplete, InSession
    <3>3. CASE ~addrConnected /\ NAddrs = 1
      <4>1. addrIdx' = 0
        BY SMTT(60), <1>0, <2>1, <3>3 DEF Addrs
      <4> QED
        BY SMTT(60), <1>0, <1>1, <1>2, <1>3, <2>1, <2>2, <2>4, <3>3, <4>1
        DEF WalkComplete, InSession
    <3>4. CASE addrConnected
      BY SMTT(30), <1>0, <1>1, <1>2, <1>3, <2>1, <2>2, <2>4, <3>4 DEF WalkComplete, InSession
    <3> QED  BY SMTT(30), <3>1, <3>2, <3>3, <3>4
  <2> QED  BY <2>5, <2>6, <2>7, <2>8, <2>9, <2>10, Zenon
<1> QED  BY <1>3, <1>4, <1>5, Zenon

\* Every initial state satisfies the invariant.
LEMMA InitInv == Init => LoopInv
<1> SUFFICES ASSUME Init PROVE LoopInv
  BY Zenon
<1>1. 0 \in Pools /\ 0 \in Addrs /\ Pools \subseteq Nat /\ Addrs \subseteq Nat
  BY DEF Pools, Addrs
<1>2. /\ addrConnected \in BOOLEAN /\ connectedThisAttempt \in BOOLEAN /\ ctxDone \in BOOLEAN
      /\ ready \in BOOLEAN /\ armed \in BOOLEAN /\ worked \in BOOLEAN
      /\ ~ready /\ ~armed /\ ~worked
  BY Zenon DEF Init
<1>3. /\ pc = "loop" /\ exit = "none" /\ poolIdx = 0 /\ addrIdx = 0 /\ attempt = 0
      /\ backoff = BackoffInitial /\ degraded = {} /\ connState = 0 /\ shown = <<0, 0>>
      /\ up \subseteq Pools /\ burst = {}
  BY Zenon DEF Init
<1>4. TypeOK
  BY <1>1, <1>2, <1>3 DEF TypeOK, BackoffInitial, Backoffs, Targets
<1>5. HonestState
  BY <1>2, <1>3, Zenon DEF HonestState, InSession
<1>6. MarksSound
  BY <1>3, Zenon DEF MarksSound
<1>7. WalkOrdered /\ WalkComplete
  BY <1>1, <1>3 DEF WalkOrdered, WalkComplete, InSession
<1>8. BackoffSound
  BY <1>3, Zenon DEF BackoffSound
<1> QED  BY <1>4, <1>5, <1>6, <1>7, <1>8, Zenon DEF LoopInv

\* Every step preserves the invariant.
LEMMA NextInv == LoopInv /\ [Next]_vars => LoopInv'
<1> SUFFICES ASSUME LoopInv, [Next]_vars PROVE LoopInv'
  BY Zenon
<1> USE DEF LoopInv, loopVars, viewVars, history
<1>0. Pools \subseteq Nat /\ Addrs \subseteq Nat /\ poolIdx \in Pools /\ addrIdx \in Addrs
  BY DEF TypeOK, Pools, Addrs
<1>1. CASE Dial
  <2> USE <1>1 DEF Dial
  <2>1. TypeOK'
    <3>1. /\ attempt' \in 0 .. MaxReconnectAttempts + 1
          /\ attempt' > MaxReconnectAttempts => pc' = "stopped"
          /\ pc' \in {"dialing", "stopped"} /\ exit' \in {"none", "ctx", "fatal", "attempts"}
          /\ connState' \in 0 .. 2
      BY DEF TypeOK, CountAttempt, AttemptsExceeded, Stop
    <3>2. shown' \in Targets /\ burst' \subseteq Targets
      BY <1>0 DEF TypeOK, Current, Targets
    <3>3. connectedThisAttempt' \in BOOLEAN
      BY Zenon DEF TypeOK
    <3> QED  BY <3>1, <3>2, <3>3, Zenon DEF TypeOK
  <2>2. HonestState'
    BY Zenon DEF HonestState, Stop, InSession, Current
  <2>3. MarksSound'
    BY Zenon DEF MarksSound, Stop
  <2>4. WalkOrdered'
    BY Zenon DEF WalkOrdered, Stop, InSession, Current, Before
  <2>5. WalkComplete'
    BY Zenon DEF WalkComplete, Stop, InSession, Current
  <2>6. BackoffSound'
    BY Zenon DEF BackoffSound, Stop
  <2> QED  BY <2>1, <2>2, <2>3, <2>4, <2>5, <2>6, Zenon
<1>2. CASE LoopExit
  BY Zenon, <1>2 DEF LoopExit, Stop, TypeOK, HonestState, MarksSound, WalkOrdered, WalkComplete,
     BackoffSound, InSession
<1>3. CASE Establish
  <2> USE <1>3 DEF Establish
  <2>1. TypeOK'
    BY DEF TypeOK
  <2>2. HonestState'
    BY Zenon DEF HonestState, InSession, Current
  <2>3. MarksSound'
    BY Zenon DEF MarksSound
  <2>4. WalkOrdered' /\ WalkComplete' /\ BackoffSound'
    BY Zenon DEF WalkOrdered, WalkComplete, BackoffSound, InSession, Current, Before
  <2> QED  BY <2>1, <2>2, <2>3, <2>4, Zenon
<1>4. CASE ArmWorkers
  BY ZenonT(60), <1>4
  DEF ArmWorkers, TypeOK, HonestState, MarksSound, WalkOrdered, WalkComplete,
     BackoffSound, InSession, Current, Before
<1>5. CASE DialFails
  BY <1>5, SessionOverInv, Zenon DEF DialFails, InSession, SessionOutcomes
<1>6. ASSUME NEW outcome \in SessionOutcomes, SessionEnds(outcome)
      PROVE  LoopInv'
  BY <1>6, SessionOverInv, Zenon DEF SessionEnds, InSession
<1>7. CASE PoolRejects
  <2>1. /\ pc' = "stopped" /\ exit' \in {"fatal", "ctx"} /\ connState' = 0
        /\ UNCHANGED <<loopVars, connectedThisAttempt, attempt, ctxDone, shown, up, history>>
    BY <1>7, Zenon DEF PoolRejects, EndSession, Stop
  <2>2. ready' \in BOOLEAN /\ armed' \in BOOLEAN /\ ~ready' /\ ~armed'
    BY <1>7, Zenon DEF PoolRejects, EndSession
  <2>3. TypeOK'
    BY <2>1, <2>2 DEF TypeOK
  <2>4. HonestState'
    BY <2>1, <2>2, Zenon DEF HonestState, InSession
  <2>5. MarksSound' /\ WalkOrdered' /\ WalkComplete' /\ BackoffSound'
    BY <2>1, Zenon DEF MarksSound, WalkOrdered, WalkComplete, BackoffSound, InSession
  <2> QED  BY <2>3, <2>4, <2>5, Zenon
<1>8. CASE SessionCancelled
  <2>1. /\ pc' = "stopped" /\ exit' \in {"fatal", "ctx"} /\ connState' = 0
        /\ UNCHANGED <<loopVars, connectedThisAttempt, attempt, ctxDone, shown, up, history>>
    BY <1>8, Zenon DEF SessionCancelled, EndSession, Stop
  <2>2. ready' \in BOOLEAN /\ armed' \in BOOLEAN /\ ~ready' /\ ~armed'
    BY <1>8, Zenon DEF SessionCancelled, EndSession
  <2>3. TypeOK'
    BY <2>1, <2>2 DEF TypeOK
  <2>4. HonestState'
    BY <2>1, <2>2, Zenon DEF HonestState, InSession
  <2>5. MarksSound' /\ WalkOrdered' /\ WalkComplete' /\ BackoffSound'
    BY <2>1, Zenon DEF MarksSound, WalkOrdered, WalkComplete, BackoffSound, InSession
  <2> QED  BY <2>3, <2>4, <2>5, Zenon
<1>9. CASE BackoffElapsed
  <2> USE <1>9 DEF BackoffElapsed
  <2>1. backoff' \in Backoffs
    BY DEF TypeOK, Backoffs, BackoffMax
  <2>2. TypeOK'
    BY Zenon, <2>1 DEF TypeOK
  <2>3. HonestState' /\ MarksSound' /\ WalkOrdered' /\ BackoffSound'
    BY Zenon DEF HonestState, MarksSound, WalkOrdered, BackoffSound, InSession
  <2>4. WalkComplete'
    BY <1>0 DEF WalkComplete, InSession
  <2> QED  BY <2>2, <2>3, <2>4, Zenon
<1>10. CASE BackoffCancelled
  BY ZenonT(60), <1>10 DEF BackoffCancelled, Stop, TypeOK, HonestState, MarksSound, WalkOrdered,
     WalkComplete, BackoffSound, InSession
<1>11. CASE Cancel
  BY SMTT(60), <1>11 DEF Cancel, TypeOK, HonestState, MarksSound, WalkOrdered, WalkComplete,
     BackoffSound, InSession, Current, Before
<1>12. ASSUME NEW p \in Pools, PoolFlips(p) PROVE LoopInv'
  BY SMTT(30), <1>12 DEF PoolFlips, TypeOK, HonestState, MarksSound, WalkOrdered, WalkComplete,
     BackoffSound, InSession, Current, Before
<1>13. CASE UNCHANGED vars
  BY <1>13 DEF vars, TypeOK, HonestState, MarksSound, WalkOrdered, WalkComplete,
     BackoffSound, InSession, Current, Before
<1> QED
  BY <1>1, <1>2, <1>3, <1>4, <1>5, <1>6, <1>7, <1>8, <1>9, <1>10, <1>11, <1>12, <1>13, Zenon
     DEF Next, LoopStep, SessionStep, Stopped

\* LoopInv holds in every reachable state of the reconnect loop.
THEOREM LoopInvariant == Spec => []LoopInv
<1> QED  BY InitInv, NextInv, PTL DEF Spec

\* The variables of the loop keep their types, for any number of pools and addresses.
THEOREM TypeCorrect == Spec => []TypeOK
<1>1. LoopInv => TypeOK
  BY Zenon DEF LoopInv
<1> QED  BY <1>1, LoopInvariant, PTL

\* Readiness, the connection gauge and armed workers never outlive a session.
THEOREM StateIsHonest == Spec => []HonestState
<1>1. LoopInv => HonestState
  BY Zenon DEF LoopInv
<1> QED  BY <1>1, LoopInvariant, PTL

\* A pool marked by a yield verdict is never dialled while it carries the mark.
THEOREM NeverDialsDegraded == Spec => []DegradedNotDialed
<1>1. LoopInv => DegradedNotDialed
  BY Zenon DEF LoopInv, MarksSound, DegradedNotDialed, InSession
<1> QED  BY <1>1, LoopInvariant, PTL

\* No pair of address and pool is dialled twice without a sleep in between.
THEOREM NeverHammers == Spec => []NoHammering
<1>1. LoopInv => NoHammering
  <2> SUFFICES ASSUME LoopInv, pc = "loop", Current \in burst PROVE FALSE
    BY Zenon DEF NoHammering
  <2>1. addrIdx \in Nat /\ poolIdx \in Nat
    BY DEF LoopInv, TypeOK, Addrs, Pools
  <2> QED  BY <2>1 DEF LoopInv, WalkOrdered, Before, Current
<1> QED  BY <1>1, LoopInvariant, PTL

\* The first sleep after a working session is the initial delay.
THEOREM BackoffIsFresh == Spec => []FreshBackoff
<1>1. LoopInv => FreshBackoff
  BY Zenon DEF LoopInv, BackoffSound, FreshBackoff
<1> QED  BY <1>1, LoopInvariant, PTL

\* A payout address that has worked is never abandoned.
THEOREM AddressNeverAbandoned == Spec => AddressFrozen
<1>1. [Next]_vars => [addrConnected => addrIdx' = addrIdx]_vars
  <2> SUFFICES ASSUME Next, addrConnected PROVE addrIdx' = addrIdx
    BY Zenon DEF vars, loopVars
  <2> USE DEF loopVars
  <2>1. ASSUME NEW outcome, SessionOver(outcome) PROVE addrIdx' = addrIdx
    BY <2>1, Zenon DEF SessionOver, MoveOn, PoolFailover, SweepDone
  <2> QED
    BY Zenon, <2>1
    DEF Next, LoopStep, SessionStep, Dial, LoopExit, Establish, ArmWorkers, DialFails,
       PoolRejects, SessionEnds, SessionCancelled, BackoffElapsed, BackoffCancelled, Cancel,
       PoolFlips, Stopped, vars
<1> QED  BY <1>1, PTL DEF Spec, AddressFrozen

\* The loop sleeps only after it has tried everything it is allowed to try.
THEOREM SleepsOnlyAfterSweep == Spec => SleepsAfterSweep
<1> DEFINE Swept == /\ \A p \in Pools \ degraded : <<addrIdx, p>> \in burst
                    /\ ~addrConnected => Targets \subseteq burst
<1>1. LoopInv /\ [Next]_vars => [pc' = "backoff" /\ pc # "backoff" => Swept]_vars
  <2> SUFFICES ASSUME LoopInv, Next, pc' = "backoff", pc # "backoff" PROVE Swept
    BY Zenon DEF vars
  <2>1. PICK outcome \in SessionOutcomes :
          /\ InSession
          /\ outcome = "yield" => pc = "connected"
          /\ SweepDone(MarksAfter(outcome))
    BY Zenon DEF Next, LoopStep, SessionStep, Dial, LoopExit, Establish, ArmWorkers, DialFails,
       PoolRejects, SessionEnds, SessionCancelled, BackoffElapsed, BackoffCancelled, Cancel,
       PoolFlips, Stopped, Stop, vars, SessionOver, MoveOn, PoolFailover, InSession,
       SessionOutcomes
  <2> DEFINE marks == MarksAfter(outcome)
             next == nextFailoverPool(poolIdx, marks)
  <2>2. /\ Pools \subseteq Nat /\ Addrs \subseteq Nat /\ poolIdx \in Pools /\ addrIdx \in Addrs
        /\ marks \in SUBSET Pools
        /\ \A p \in Pools \ degraded : p \notin marks \/ p = poolIdx
        /\ ~addrConnected => degraded = {}
    BY <2>1 DEF LoopInv, TypeOK, MarksSound, MarksAfter, SessionOutcomes, Pools, Addrs
  <2>3. /\ next \in Pools
        /\ next = poolIdx => \A p \in Pools \ marks : p = poolIdx
        /\ next < poolIdx => \A p \in Pools \ marks : next <= p /\ p <= poolIdx
    BY <2>2, NextFailoverPool, ZenonT(60)
  <2>4. NPools > 1 => next <= poolIdx
    BY <2>1, Zenon DEF SweepDone
  <2> HIDE DEF marks, next
  <2>5. \A p \in Pools \ degraded : p <= poolIdx
    BY <2>2, <2>3, <2>4 DEF Pools
  <2>6. \A p \in Pools \ degraded : <<addrIdx, p>> \in burst
    BY <2>1, <2>2, <2>5 DEF LoopInv, WalkComplete, Current
  <2>7. ASSUME ~addrConnected PROVE Targets \subseteq burst
    <3>1. addrIdx = NAddrs - 1
      BY <2>1, <2>2, <2>7 DEF SweepDone, Addrs
    <3>2. \A a \in Addrs : a < addrIdx \/ a = addrIdx
      BY <3>1 DEF Addrs
    <3>3. \A a \in Addrs, p \in Pools : a < addrIdx => <<a, p>> \in burst
      BY <2>1, <2>7, Zenon DEF LoopInv, WalkComplete
    <3>4. \A p \in Pools : <<addrIdx, p>> \in burst
      BY <2>2, <2>6, <2>7, Zenon
    <3> QED  BY <3>2, <3>3, <3>4 DEF Targets
  <2> QED  BY <2>6, <2>7, Zenon
<1> QED  BY <1>1, LoopInvariant, PTL DEF Spec, SleepsAfterSweep
-----------------------------------------------------------------------------
\* Up to three sources, lowest reading first.
Ranked(S, r) ==
  \/ S = {} /\ Cardinality(S) = 0
  \/ \E a \in S : S = {a} /\ Cardinality(S) = 1
  \/ \E a, b \in S : S = {a, b} /\ a # b /\ r[a] <= r[b] /\ Cardinality(S) = 2
  \/ \E a, b, c \in S :
       /\ S = {a, b, c} /\ a # b /\ a # c /\ b # c /\ r[a] <= r[b] /\ r[b] <= r[c]
       /\ Cardinality(S) = 3

\* Two different sources are two.
LEMMA Pair ==
  ASSUME NEW a, NEW b, a # b
  PROVE  IsFiniteSet({a, b}) /\ Cardinality({a, b}) = 2
<1>1. IsFiniteSet({a}) /\ Cardinality({a}) = 1  BY FS_Singleton, Zenon
<1>2. b \notin {a}  BY Zenon
<1>3. IsFiniteSet({a} \cup {b}) /\ Cardinality({a} \cup {b}) = Cardinality({a}) + 1
  BY <1>1, <1>2, FS_AddElement, Zenon
<1>4. {a} \cup {b} = {a, b}  BY Zenon
<1> QED  BY ONLY <1>1, <1>3, <1>4

\* Three different sources are three.
LEMMA Triple ==
  ASSUME NEW a, NEW b, NEW c, a # b, a # c, b # c
  PROVE  Cardinality({a, b, c}) = 3
<1>1. IsFiniteSet({a, b}) /\ Cardinality({a, b}) = 2  BY Pair, Zenon
<1>2. c \notin {a, b}  BY Zenon
<1>3. Cardinality({a, b} \cup {c}) = Cardinality({a, b}) + 1
  BY <1>1, <1>2, FS_AddElement, Zenon
<1>4. {a, b} \cup {c} = {a, b, c}  BY Zenon
<1> QED  BY ONLY <1>1, <1>3, <1>4

\* At most three readings can be put in order.
LEMMA Ranks ==
  ASSUME NEW S, S \subseteq {1, 2, 3}, NEW r, \A s \in S : r[s] \in Int
  PROVE  Ranked(S, r)
<1>0. Cardinality({}) = 0  BY FS_EmptySet, Zenon
<1>1. ASSUME NEW a \in S, S = {a} PROVE Ranked(S, r)
  <2>1. Cardinality({a}) = 1  BY FS_Singleton, Zenon
  <2> QED  BY <1>1, <2>1, Zenon DEF Ranked
<1>2. ASSUME NEW a \in S, NEW b \in S, a # b, S = {a, b} PROVE Ranked(S, r)
  <2>2. Cardinality({a, b}) = 2 /\ Cardinality({b, a}) = 2  BY <1>2, Pair, Zenon
  <2>3. r[a] <= r[b] \/ r[b] <= r[a]  
    <3>1. r[a] \in Int /\ r[b] \in Int  BY Zenon
    <3> QED  BY <3>1
  <2>4. {a, b} = {b, a}  BY Zenon
  <2> QED  BY <1>2, <2>2, <2>3, <2>4, Zenon DEF Ranked
<1>3. CASE S = {1, 2, 3}
  <2>1. r[1] \in Int /\ r[2] \in Int /\ r[3] \in Int  BY <1>3, Zenon
  <2>2. \E a, b, c \in {1, 2, 3} :
          /\ {1, 2, 3} = {a, b, c} /\ a # b /\ a # c /\ b # c /\ r[a] <= r[b] /\ r[b] <= r[c]
    <3>1. CASE r[1] <= r[2] /\ r[2] <= r[3]  BY <3>1
    <3>2. CASE r[1] <= r[3] /\ r[3] <= r[2]  BY <3>2
    <3>3. CASE r[2] <= r[1] /\ r[1] <= r[3]  BY <3>3
    <3>4. CASE r[2] <= r[3] /\ r[3] <= r[1]  BY <3>4
    <3>5. CASE r[3] <= r[1] /\ r[1] <= r[2]  BY <3>5
    <3>6. CASE r[3] <= r[2] /\ r[2] <= r[1]  BY <3>6
    <3> HIDE <1>3
    <3> QED  BY <2>1, <3>1, <3>2, <3>3, <3>4, <3>5, <3>6
  <2>3. PICK a, b, c \in {1, 2, 3} :
          /\ {1, 2, 3} = {a, b, c} /\ a # b /\ a # c /\ b # c /\ r[a] <= r[b] /\ r[b] <= r[c]
    BY <2>2, Zenon
  <2>4. Cardinality({a, b, c}) = 3  BY <2>3, Triple, Zenon
  <2> QED  BY <1>3, <2>3, <2>4, ZenonT(60) DEF Ranked
<1>4. \/ S = {} \/ S = {1} \/ S = {2} \/ S = {3} \/ S = {1, 2} \/ S = {1, 3} \/ S = {2, 3}
      \/ S = {1, 2, 3}
  BY ZenonT(60)
<1>5. 1 # 2 /\ 1 # 3 /\ 2 # 3  OBVIOUS
<1>6. CASE S = {}  BY <1>0, <1>6, Zenon DEF Ranked
<1> QED  BY <1>1, <1>2, <1>3, <1>4, <1>5, <1>6, Zenon

\* What Usable returns: the readings in the band, each once, lowest first.
LEMMA Sorted ==
  ASSUME NEW r, DOMAIN r \subseteq {1, 2, 3}, \A s \in DOMAIN r : r[s] \in Int
  PROVE  LET S == InBand(r) IN
         \/ S = {} /\ Usable(r) = << >>
         \/ \E a \in S : S = {a} /\ Usable(r) = <<r[a]>>
         \/ \E a, b \in S :
              S = {a, b} /\ a # b /\ r[a] <= r[b] /\ Usable(r) = <<r[a], r[b]>>
         \/ \E a, b, c \in S :
              /\ S = {a, b, c} /\ a # b /\ a # c /\ b # c /\ r[a] <= r[b] /\ r[b] <= r[c]
              /\ Usable(r) = <<r[a], r[b], r[c]>>
<1> DEFINE S == InBand(r)
           n == Cardinality(S)
           Is(q) == \A i, j \in DOMAIN q : i < j => q[i] # q[j] /\ r[q[i]] <= r[q[j]]
           sorted == CHOOSE q \in [1 .. n -> S] : Is(q)
<1>1. Usable(r) = [i \in DOMAIN sorted |-> r[sorted[i]]]  BY Zenon DEF Usable
<1>0. \A s \in S : r[s] \in Int  BY Zenon DEF InBand
<1>2. Ranked(S, r)
  <2>1. S \subseteq {1, 2, 3}  BY Zenon DEF InBand
  <2> QED  BY <1>0, <2>1, Ranks, Zenon
<1>3. ASSUME NEW q \in [1 .. n -> S], Is(q) PROVE sorted \in [1 .. n -> S] /\ Is(sorted)
  <2> HIDE DEF Is, n, S
  <2> QED  BY <1>3, Zenon
<1> HIDE DEF sorted
<1>4. CASE S = {} /\ n = 0
  <2> DEFINE q == << >>
  <2>1. q \in [1 .. 0 -> S] /\ Is(q)  OBVIOUS
  <2>2. sorted \in [1 .. 0 -> S]  BY ZenonT(60), <1>3, <1>4, <2>1
  <2>3. Usable(r) = << >>  BY <1>1, <2>2
  <2> QED  BY <1>4, <2>3
<1>5. ASSUME NEW a \in S, S = {a}, n = 1 PROVE Usable(r) = <<r[a]>>
  <2> DEFINE q == [i \in 1 .. n |-> a]
  <2>1. q \in [1 .. n -> S] /\ Is(q)  BY <1>5
  <2>2. sorted \in [1 .. n -> S]  BY <1>3, <2>1, Zenon
  <2>3. DOMAIN sorted = 1 .. 1 /\ sorted[1] = a  BY <1>5, <2>2
  <2> QED  BY <1>1, <2>3
<1>6. ASSUME NEW a \in S, NEW b \in S, S = {a, b}, a # b, r[a] <= r[b], n = 2
      PROVE  \E x, y \in S : S = {x, y} /\ x # y /\ r[x] <= r[y] /\ Usable(r) = <<r[x], r[y]>>
  <2> DEFINE q == [i \in 1 .. n |-> IF i = 1 THEN a ELSE b]
  <2>1. q \in [1 .. n -> S] /\ Is(q)  BY <1>6
  <2>2. sorted \in [1 .. n -> S] /\ Is(sorted)  BY <1>3, <2>1, Zenon
  <2>3. DOMAIN sorted = 1 .. 2 /\ sorted[1] \in S /\ sorted[2] \in S  BY <1>6, <2>2
  <2>4. sorted[1] # sorted[2] /\ r[sorted[1]] <= r[sorted[2]]  BY <2>2, <2>3
  <2>5. S = {sorted[1], sorted[2]}  BY <1>6, <2>3, <2>4
  <2>6. Usable(r) = <<r[sorted[1]], r[sorted[2]]>>  BY <1>1, <2>3
  <2> QED  BY <2>3, <2>4, <2>5, <2>6, Zenon
<1>7. ASSUME NEW a \in S, NEW b \in S, NEW c \in S, S = {a, b, c}, a # b, a # c, b # c,
             r[a] <= r[b], r[b] <= r[c], n = 3
      PROVE  \E x, y, z \in S :
              /\ S = {x, y, z} /\ x # y /\ x # z /\ y # z /\ r[x] <= r[y] /\ r[y] <= r[z]
              /\ Usable(r) = <<r[x], r[y], r[z]>>
  <2> DEFINE q == [i \in 1 .. n |-> IF i = 1 THEN a ELSE IF i = 2 THEN b ELSE c]
  <2>0. r[a] \in Int /\ r[b] \in Int /\ r[c] \in Int  BY <1>0, Zenon
  <2>1. q \in [1 .. n -> S] /\ Is(q)  BY <1>7, <2>0
  <2>2. sorted \in [1 .. n -> S] /\ Is(sorted)  BY <1>3, <2>1, Zenon
  <2>3. DOMAIN sorted = 1 .. 3 /\ sorted[1] \in S /\ sorted[2] \in S /\ sorted[3] \in S
    BY SMTT(30), <1>7, <2>2
  <2>4. /\ sorted[1] # sorted[2] /\ sorted[1] # sorted[3] /\ sorted[2] # sorted[3]
        /\ r[sorted[1]] <= r[sorted[2]] /\ r[sorted[2]] <= r[sorted[3]]
    BY <2>2, <2>3
  <2>5. S = {sorted[1], sorted[2], sorted[3]}  BY SMTT(30), <1>7, <2>3, <2>4
  <2>6. Usable(r) = <<r[sorted[1]], r[sorted[2]], r[sorted[3]]>>  BY <1>1, <2>3
  <2> QED  BY <2>3, <2>4, <2>5, <2>6, Zenon
<1> QED  BY <1>2, <1>4, <1>5, <1>6, <1>7, Zenon DEF Ranked

\* A non-empty set of naturals with an upper bound has a least and a greatest element.
LEMMA Extremes ==
  ASSUME NEW S, NEW top \in Int, S \subseteq Nat, \A x \in S : x <= top, S # {}
  PROVE  /\ Min(S) \in S /\ Max(S) \in S
         /\ \A x \in S : Min(S) <= x /\ x <= Max(S)
<1>1. PICK m \in S : \A k \in S : m <= k  BY LeastExists, Zenon
<1>2. PICK n \in S : \A k \in S : k <= n
  <2> DEFINE T == {top - x : x \in S}
  <2>1. \A x \in S : top - x \in Nat  OBVIOUS
  <2>2. T \subseteq Nat /\ T # {}  BY <2>1, Zenon
  <2>3. PICK t \in T : \A k \in T : t <= k
    <3> HIDE DEF T
    <3> QED  BY <2>2, LeastExists, Zenon
  <2>4. PICK n \in S : t = top - n  BY Zenon
  <2>5. \A k \in S : t <= top - k  BY <2>3, Zenon
  <2>6. ASSUME NEW k \in S PROVE k <= n
    <3>1. n \in Nat /\ k \in Nat  BY Zenon
    <3> QED  BY <2>4, <2>5, <3>1
  <2> QED  BY <2>6, Zenon
<1>3. Min(S) \in S /\ \A x \in S : Min(S) <= x  BY <1>1, Zenon DEF Min
<1>4. Max(S) \in S /\ \A x \in S : x <= Max(S)
  <2>1. \A k \in S : n >= k
    <3>1. \A k \in S : n \in Nat /\ k \in Nat  BY Zenon
    <3> QED  BY <1>2, <3>1
  <2>2. Max(S) \in S /\ \A x \in S : Max(S) >= x  BY <2>1, Zenon DEF Max
  <2>3. \A x \in S : x \in Nat /\ Max(S) \in Nat  BY <2>2, Zenon
  <2> QED  BY <2>2, <2>3
<1> QED  BY <1>3, <1>4, Zenon

\* The median of readings of which one may be anything lies near the honest ones.
LEMMA Trusted ==
  ASSUME SourcesOK, NEW r, DOMAIN r \subseteq {1, 2, 3},
         \A s \in DOMAIN r : r[s] \in ReadingsOf(s),
         Usable(r) # << >>, Agree(Usable(r)),
         NEW good, good = {r[s] : s \in DOMAIN r \ {Faulty}} \ {0, Waiting}, good # {}
  PROVE  LET v == Median(Usable(r)) IN
         /\ 4 * v >= 5 * Min(good) /\ v <= 5 * Max(good)
         /\ Len(Usable(r)) = 3 => v >= 2 * Min(good) /\ v <= 2 * Max(good)
<1> DEFINE S == InBand(r)
           lo == Min(good)
           hi == Max(good)
<1>1. \A s \in DOMAIN r : r[s] \in Int
  <2>1. Honest \subseteq Int /\ 0 \in Int  BY DEF SourcesOK
  <2> QED  BY <2>1, Zenon DEF ReadingsOf, SourcesOK
<1>2. \A s \in DOMAIN r \ {Faulty} : r[s] = 0 \/ r[s] \in Lo .. Hi
  BY Zenon DEF ReadingsOf, SourcesOK
<1>3. ASSUME NEW g \in good PROVE g \in Nat /\ Lo <= g /\ g <= Hi /\ \E s \in S : s # Faulty /\ g = r[s]
  <2>1. PICK s \in DOMAIN r \ {Faulty} : g = r[s]  BY Zenon
  <2>2. g \in Lo .. Hi  BY <1>2, <2>1, Zenon
  <2>3. Lo <= r[s] /\ r[s] <= Hi /\ g \in Nat  BY <2>1, <2>2 DEF SourcesOK
  <2> QED  BY <2>1, <2>3, Zenon DEF InBand
<1>4. \A s \in S : s # Faulty => r[s] \in good
  <2>1. \A s \in S : s \in DOMAIN r /\ Lo <= r[s]  BY Zenon DEF InBand
  <2>2. \A s \in S : r[s] # 0 /\ r[s] # Waiting
    BY <1>1, <2>1 DEF SourcesOK, Waiting
  <2> QED  BY <2>1, <2>2, Zenon
<1>5. /\ lo \in good /\ hi \in good /\ \A g \in good : lo <= g /\ g <= hi
  <2>1. Hi \in Int  BY Zenon DEF SourcesOK
  <2> QED  BY <1>3, <2>1, Extremes, Zenon
<1> HIDE DEF lo, hi, S
<1>6. \A s \in S : r[s] \in Nat /\ r[s] > 0
  BY <1>1 DEF InBand, SourcesOK, S
<1>7. lo \in Nat /\ hi \in Nat  BY <1>3, <1>5, Zenon
<1>8. PICK sl \in S : sl # Faulty /\ lo = r[sl]  BY <1>3, <1>5, Zenon
<1>9. PICK sh \in S : sh # Faulty /\ hi = r[sh]  BY <1>3, <1>5, Zenon
<1>10. \A s \in S : s # Faulty => lo <= r[s] /\ r[s] <= hi  BY <1>4, <1>5, Zenon
<1>11. CASE \E a \in S : S = {a} /\ Usable(r) = <<r[a]>>
  <2>1. PICK a \in S : S = {a} /\ Usable(r) = <<r[a]>>  BY <1>11, Zenon
  <2>2. Median(Usable(r)) = 2 * r[a] /\ Len(Usable(r)) = 1  BY <2>1 DEF Median
  <2>3. lo = r[a] /\ hi = r[a]  BY <1>8, <1>9, <2>1, Zenon
  <2>4. r[a] \in Nat  BY <1>6, Zenon
  <2> QED  BY <2>2, <2>3, <2>4 DEF lo, hi
<1>12. CASE \E a, b \in S : S = {a, b} /\ a # b /\ r[a] <= r[b] /\ Usable(r) = <<r[a], r[b]>>
  <2>1. PICK a \in S, b \in S : S = {a, b} /\ a # b /\ r[a] <= r[b] /\ Usable(r) = <<r[a], r[b]>>
    BY <1>12, Zenon
  <2>2. Median(Usable(r)) = r[a] + r[b] /\ Len(Usable(r)) = 2  BY SMTT(30), <2>1 DEF Median
  <2>3. r[b] <= 4 * r[a]
    <3>1. r[a] \in Nat /\ r[b] \in Nat  BY <1>6, Zenon
    <3> QED  BY <2>1, <3>1 DEF Agree
  <2>4. r[a] \in Nat /\ r[b] \in Nat  BY <1>6, Zenon
  <2>5. (lo = r[a] \/ lo = r[b]) /\ (hi = r[a] \/ hi = r[b])  BY <1>8, <1>9, <2>1, Zenon
  <2>6. 4 * (r[a] + r[b]) >= 5 * lo /\ r[a] + r[b] <= 5 * hi
    BY ONLY SMTT(30), <2>1, <2>3, <2>4, <2>5
  <2> QED  BY <2>2, <2>6 DEF lo, hi
<1>13. CASE \E a, b, c \in S :
              /\ S = {a, b, c} /\ a # b /\ a # c /\ b # c /\ r[a] <= r[b] /\ r[b] <= r[c]
              /\ Usable(r) = <<r[a], r[b], r[c]>>
  <2>1. PICK a \in S, b \in S, c \in S :
              /\ S = {a, b, c} /\ a # b /\ a # c /\ b # c /\ r[a] <= r[b] /\ r[b] <= r[c]
              /\ Usable(r) = <<r[a], r[b], r[c]>>
    BY <1>13, Zenon
  <2>2. Median(Usable(r)) = 2 * r[b] /\ Len(Usable(r)) = 3  BY <2>1 DEF Median
  <2>3. r[a] \in Nat /\ r[b] \in Nat /\ r[c] \in Nat  BY <1>6, Zenon
  <2>4. lo <= r[a] \/ lo <= r[b]
    BY <1>10, <2>1, Zenon
  <2>5. r[b] <= hi \/ r[c] <= hi
    BY <1>10, <2>1, Zenon
  <2>6. lo <= r[b] /\ r[b] <= hi  BY ONLY <1>7, <2>1, <2>3, <2>4, <2>5
  <2> QED  BY SMTT(30), <1>7, <2>2, <2>3, <2>6 DEF lo, hi
<1> QED  BY <1>1, <1>11, <1>12, <1>13, Sorted, Zenon DEF S

-----------------------------------------------------------------------------
\* RateInv holds before the first fetch.
LEMMA RateStarts == ASSUME SourcesOK, RateInit PROVE RateInv
<1>1. answers = basis /\ DOMAIN answers \in {defaultSources, defaultHashrateSources}
      /\ \A s \in DOMAIN answers : answers[s] = Waiting
  BY Zenon DEF RateInit
<1>2. FeedTrusted  BY <1>1, Zenon DEF FeedTrusted
<1> QED  BY <1>1, <1>2, Zenon DEF RateInv

\* Cache replaces the value by a median of answers of all sources, or not at all.
LEMMA CacheKeeps ==
  ASSUME SourcesOK, RateInv, Answered, Forget, Cache(Usable(answers))
  PROVE  RateInv'
<1>1. /\ DOMAIN answers' = DOMAIN answers /\ DOMAIN basis' = DOMAIN answers
      /\ \A s \in DOMAIN answers' : answers'[s] = Waiting
      /\ \A s \in DOMAIN basis' : basis'[s] \in {Waiting} \cup ReadingsOf(s)
  BY Zenon DEF RateInv, Forget, Cache
<1>2. FeedTrusted'
  <2>1. CASE UNCHANGED <<value, basis>>
    BY <2>1, Zenon DEF RateInv, FeedTrusted
  <2>2. CASE /\ Usable(answers) # << >> /\ Agree(Usable(answers))
             /\ value' = Median(Usable(answers)) /\ basis' = answers
    <3>1. DOMAIN answers \subseteq {1, 2, 3} /\ \A s \in DOMAIN answers : answers[s] \in ReadingsOf(s)
      BY Zenon DEF RateInv, Answered, defaultSources, defaultHashrateSources
    <3> DEFINE good == {answers[s] : s \in DOMAIN answers \ {Faulty}} \ {0, Waiting}
    <3>2. good # {} =>
           /\ 4 * value' >= 5 * Min(good) /\ value' <= 5 * Max(good)
           /\ Len(Usable(answers)) = 3 => value' >= 2 * Min(good) /\ value' <= 2 * Max(good)
      BY <2>2, <3>1, Trusted, Zenon
    <3> QED  BY <2>2, <3>2, Zenon DEF FeedTrusted
  <2> QED  BY <2>1, <2>2, Zenon DEF Cache
<1> QED  BY <1>1, <1>2, Zenon DEF RateInv

\* Every step of the callers, the sources and the feeds keeps RateInv.
LEMMA RateStep == ASSUME SourcesOK, RateInv, [RateNext]_rateVars PROVE RateInv'
<1>1. CASE UNCHANGED <<answers, value, basis>>
  BY <1>1, Zenon DEF RateInv, FeedTrusted
<1>2. ASSUME NEW s \in DOMAIN answers, NEW v \in ReadingsOf(s), fetchOne(s, v) PROVE RateInv'
  <2>1. UNCHANGED <<value, basis>> /\ answers' = [answers EXCEPT ![s] = v]  BY <1>2, Zenon DEF fetchOne
  <2>2. DOMAIN answers' = DOMAIN answers
        /\ \A t \in DOMAIN answers : answers'[t] \in {Waiting} \cup ReadingsOf(t)
    BY <2>1, Zenon DEF RateInv
  <2> QED  BY <2>1, <2>2, Zenon DEF RateInv, FeedTrusted
<1>3. ASSUME NEW c \in Fetchers, doFetch(c) PROVE RateInv'
  BY <1>3, CacheKeeps, Zenon DEF doFetch
<1>4. CASE HashrateFetch  BY <1>4, CacheKeeps, Zenon DEF HashrateFetch
<1>5. CASE ~UNCHANGED <<answers, value, basis>> /\ RateNext
  BY <1>2, <1>3, <1>4, <1>5, Zenon
     DEF RateNext, LeaderSteps, SourceAnswers, Fetch, CallsAlone, StartBackground, Closes, Returns, Leaves
<1> QED  BY <1>1, <1>5, Zenon DEF rateVars

\* One source that may report anything never moves the feed far from the honest ones.
THEOREM OneSourceCannotMove == ASSUME SourcesOK PROVE RateSpec => []FeedTrusted
<1>1. RateInv => FeedTrusted  BY Zenon DEF RateInv
<1> QED  BY <1>1, RateStarts, RateStep, PTL DEF RateSpec
=============================================================================
