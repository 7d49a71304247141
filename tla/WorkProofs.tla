----------------------------- MODULE WorkProofs -----------------------------
(***************************************************************************)
(* The two ends of a job's way through the miner: how the workers grind    *)
(* it, and how a Stratum V2 client puts it together.                       *)
(*                                                                         *)
(* For any number of workers and threads, any step that covers them and    *)
(* any nonce space, no header of a job is hashed twice: the position of a  *)
(* thread, roll * Space + nonce, is its start plus a multiple of the step, *)
(* and both decompositions are unique.                                     *)
(*                                                                         *)
(* For any job ids, ntimes, capacities and number of frames, and wherever  *)
(* the connection ends, the jobs the client hands on are the pool's:       *)
(* AdapterInv says what the assembler's map and tip are worth, and only    *)
(* the two frames that readLoop acts on can change them.                   *)
(***************************************************************************)
EXTENDS Worker, SV2Adapter, TLAPS

\* Quotient and remainder are unique.
LEMMA UniqueDecode ==
  ASSUME NEW B \in Nat, NEW q1 \in Nat, NEW q2 \in Nat, NEW r1 \in 0 .. B - 1,
         NEW r2 \in 0 .. B - 1, q1 * B + r1 = q2 * B + r2
  PROVE  q1 = q2 /\ r1 = r2
<1>1. CASE q1 = q2
  BY <1>1
<1>2. ASSUME NEW p \in Nat, NEW q \in Nat, NEW a \in 0 .. B - 1, NEW b \in 0 .. B - 1,
             q > p, p * B + a = q * B + b
      PROVE  FALSE
  <2>1. PICK d \in Nat : q = p + 1 + d
    <3>1. q - p - 1 \in Nat /\ q = p + 1 + (q - p - 1)
      BY <1>2
    <3> QED  BY <3>1, Zenon
  <2>2. q * B = p * B + B + d * B
    BY <2>1
  <2>3. d * B >= 0
    BY <2>1
  <2>4. p * B \in Int /\ d * B \in Int
    OBVIOUS
  <2> QED  BY <1>2, <2>2, <2>3, <2>4
<1>3. CASE q1 < q2
  BY <1>2, <1>3, Zenon
<1>4. CASE q2 < q1
  BY <1>2, <1>4, Zenon
<1> QED  BY <1>1, <1>3, <1>4

\* The start of every thread is below the step.
LEMMA StartRange ==
  ASSUME NEW t \in ThreadSet
  PROVE  Start(t) \in 0 .. NonceStep - 1
<1>1. t[1] \in 0 .. NWorkers - 1 /\ t[2] \in 0 .. Threads - 1
  BY Zenon DEF ThreadSet, WorkerSet
<1>2. t[1] * Threads <= (NWorkers - 1) * Threads
  BY <1>1, SizesAssumption
<1>3. (NWorkers - 1) * Threads = NWorkers * Threads - Threads
  BY SizesAssumption
<1>4. t[1] * Threads \in Nat /\ NWorkers * Threads \in Nat
  BY <1>1, SizesAssumption
<1> QED  BY <1>1, <1>2, <1>3, <1>4, SizesAssumption, StepAssumption DEF Start

\* No two threads start at the same nonce.
LEMMA StartInjective ==
  ASSUME NEW s \in ThreadSet, NEW t \in ThreadSet, Start(s) = Start(t)
  PROVE  s = t
<1>1. /\ s[1] \in Nat /\ s[2] \in 0 .. Threads - 1 /\ s = <<s[1], s[2]>>
      /\ t[1] \in Nat /\ t[2] \in 0 .. Threads - 1 /\ t = <<t[1], t[2]>>
  BY SizesAssumption DEF ThreadSet, WorkerSet
<1>2. s[1] * Threads + s[2] = t[1] * Threads + t[2]
  BY Zenon DEF Start
<1>3. s[1] = t[1] /\ s[2] = t[2]
  BY SMTT(60), <1>1, <1>2, UniqueDecode, SizesAssumption
<1> QED  BY <1>1, <1>3, Zenon

\* A header tells the thread that hashes it, and after how many hashes.
LEMMA HeaderTellsThread ==
  ASSUME NEW s \in ThreadSet, NEW t \in ThreadSet, NEW j \in Nat, NEW k \in Nat,
         NEW r \in Nat, NEW n \in Nonces, AtCount(s, r, n, j), AtCount(t, r, n, k)
  PROVE  s = t /\ j = k
<1>1. Start(s) \in 0 .. NonceStep - 1 /\ Start(t) \in 0 .. NonceStep - 1
  BY StartRange, Zenon
<1>2. j * NonceStep + Start(s) = k * NonceStep + Start(t)
  <2>1. j * NonceStep \in Int /\ k * NonceStep \in Int
    BY StepAssumption
  <2> QED  BY <1>1, <2>1, StepAssumption DEF AtCount
<1>3. j = k /\ Start(s) = Start(t)
  BY <1>1, <1>2, UniqueDecode, StepAssumption, Zenon
<1> QED  BY <1>3, StartInjective, Zenon

\* A step of a thread keeps its position and its count together.
LEMMA AdvanceKeepsCount ==
  ASSUME NEW t \in ThreadSet, NEW r \in Nat, NEW n \in Nonces, NEW k \in Nat,
         AtCount(t, r, n, k)
  PROVE  /\ n + NonceStep < Space => AtCount(t, r, n + NonceStep, k + 1)
         /\ n + NonceStep >= Space => AtCount(t, r + 1, n + NonceStep - Space, k + 1)
<1>1. Start(t) \in Nat /\ NonceStep \in Nat /\ Space \in Nat /\ n \in Nat
  BY StartRange, StepAssumption, SizesAssumption DEF Nonces
<1>2. (k + 1) * NonceStep = k * NonceStep + NonceStep /\ k * NonceStep \in Nat
  BY <1>1
<1>3. (r + 1) * Space = r * Space + Space /\ r * Space \in Nat
  BY <1>1
<1> QED  BY <1>1, <1>2, <1>3 DEF AtCount

\* The workers start with nothing hashed and every thread at its first nonce.
LEMMA InitInv == Init => PartitionInv
<1> SUFFICES ASSUME Init PROVE PartitionInv
  BY Zenon
<1>1. \A t \in ThreadSet : Start(t) \in Nonces /\ Start(t) \in Nat /\ t[1] \in WorkerSet
  BY StartRange, StepAssumption, SizesAssumption DEF Nonces, ThreadSet
<1>2. TypeOK
  BY Zenon, <1>1 DEF Init, TypeOK
<1>3. ThreadSound
  <2> SUFFICES ASSUME NEW t \in ThreadSet
               PROVE  /\ AtCount(t, 0, Start(t), 0)
                      /\ thread[t].ver <= work[t[1]].ver
                      /\ thread[t].job \in {0, thread[t].ver}
                      /\ thread[t].pc = "batch" => thread[t].job # 0
    BY Zenon DEF Init, ThreadSound
  <2>1. AtCount(t, 0, Start(t), 0)
    BY <1>1, SizesAssumption, StepAssumption DEF AtCount
  <2> QED  BY <1>1, <2>1 DEF Init
<1> QED  BY <1>2, <1>3, Zenon DEF Init, PartitionInv, WorkSound, HashedSound, DistinctHeaders

\* A step that leaves the threads' positions, the hashed headers and the jobs alone.
LEMMA QuietStep ==
  ASSUME PartitionInv, TypeOK', UNCHANGED <<work, hashed, repeated>>,
         \A t \in ThreadSet :
           /\ thread'[t].ver = thread[t].ver /\ thread'[t].job = thread[t].job
           /\ thread'[t].nonce = thread[t].nonce /\ thread'[t].roll = thread[t].roll
           /\ thread'[t].k = thread[t].k
           /\ thread'[t].pc = "batch" => thread[t].pc = "batch"
  PROVE  PartitionInv'
<1>1. ThreadSound'
  BY Zenon DEF PartitionInv, ThreadSound, AtCount
<1>2. HashedSound'
  <2> SUFFICES ASSUME NEW h \in hashed
               PROVE  /\ AtCount(h.by, h.roll, h.nonce, h.k)
                      /\ h.job # 0
                      /\ \/ h.job < thread'[h.by].ver
                         \/ h.job = thread'[h.by].ver /\ h.k < thread'[h.by].k
    BY Zenon DEF HashedSound, AtCount
  <2>1. h.by \in ThreadSet
    BY Zenon DEF PartitionInv, TypeOK
  <2> QED  BY <2>1, Zenon DEF PartitionInv, HashedSound
<1> QED  BY <1>1, <1>2, Zenon DEF PartitionInv, WorkSound, DistinctHeaders

\* Start, Stop and the end of the context touch no position.
LEMMA LifeStep ==
  ASSUME PartitionInv, NEW w \in WorkerSet,
         \/ StartClaims(w) \/ StartRuns(w) \/ Closes(w) \/ ContextEnds
         \/ StopBegins(w) \/ StopStep(w)
  PROVE  PartitionInv'
<1> USE DEF PartitionInv
<1>1. TypeOK'
  <2>1. CASE StartClaims(w)
    BY <2>1, Zenon DEF StartClaims, TypeOK, historyVars
  <2>2. CASE StartRuns(w)
    <3>1. /\ life' = [life EXCEPT ![w] = "running"]
          /\ thread' = [t \in ThreadSet |-> IF t[1] = w THEN [thread[t] EXCEPT !.pc = "top"]
                                            ELSE thread[t]]
          /\ UNCHANGED <<cancelled, ctxDone, stopper, work, hashed, repeated, lag>>
      BY Zenon, <2>2 DEF StartRuns, historyVars
    <3>2. life' \in [WorkerSet -> {"new", "started", "running", "closed"}]
      BY SMTT(30), <3>1 DEF TypeOK
    <3>3. \A t \in ThreadSet : [thread[t] EXCEPT !.pc = "top"] \in
            [pc : {"none", "top", "reload", "batch", "exit"}, ver : Nat,
             job : Nat, nonce : Nonces, roll : Nat, i : Nat, k : Nat]
      BY SMTT(60) DEF TypeOK
    <3>4. thread' \in [ThreadSet -> [pc : {"none", "top", "reload", "batch", "exit"}, ver : Nat,
                        job : Nat, nonce : Nonces, roll : Nat, i : Nat, k : Nat]]
      BY Zenon, <3>1, <3>3 DEF TypeOK
    <3> QED  BY Zenon, <3>1, <3>2, <3>4 DEF TypeOK
  <2>3. CASE Closes(w)
    BY <2>3, Zenon DEF Closes, TypeOK, historyVars
  <2>4. CASE ContextEnds
    BY <2>4, Zenon DEF ContextEnds, TypeOK, historyVars
  <2>5. CASE StopBegins(w)
    BY <2>5, Zenon DEF StopBegins, TypeOK, historyVars
  <2>6. CASE StopStep(w)
    BY <2>6, Zenon DEF StopStep, StopCancels, StopReturns, TypeOK, historyVars
  <2> QED  BY <2>1, <2>2, <2>3, <2>4, <2>5, <2>6, Zenon
<1>2. UNCHANGED <<work, hashed, repeated>>
  BY Zenon DEF StartClaims, StartRuns, Closes, ContextEnds, StopBegins, StopStep, StopCancels,
         StopReturns, historyVars
<1>3. \A t \in ThreadSet :
        /\ thread'[t].ver = thread[t].ver /\ thread'[t].job = thread[t].job
        /\ thread'[t].nonce = thread[t].nonce /\ thread'[t].roll = thread[t].roll
        /\ thread'[t].k = thread[t].k
        /\ thread'[t].pc = "batch" => thread[t].pc = "batch"
  <2>1. CASE StartRuns(w)
    BY <2>1 DEF StartRuns, TypeOK
  <2>2. CASE ~StartRuns(w)
    BY <2>2, Zenon
    DEF StartClaims, Closes, ContextEnds, StopBegins, StopStep, StopCancels, StopReturns
  <2> QED  BY <2>1, <2>2, Zenon
<1> QED  BY <1>1, <1>2, <1>3, QuietStep, Zenon

\* A new version of the work is ahead of every thread.
LEMMA SetWorkStep ==
  ASSUME PartitionInv, NEW w \in WorkerSet, NEW idle \in BOOLEAN, SetWork(w, idle)
  PROVE  PartitionInv'
<1> USE DEF PartitionInv
<1>1. TypeOK'
  BY DEF SetWork, TypeOK, lifeVars, historyVars
<1>2. \A v \in WorkerSet : work[v].ver <= work'[v].ver /\ work'[v].job \in {0, work'[v].ver}
  BY DEF SetWork, TypeOK, WorkSound
<1>3. ThreadSound'
  <2> SUFFICES ASSUME NEW t \in ThreadSet
               PROVE  thread[t].ver <= work'[t[1]].ver
    BY Zenon DEF ThreadSound, SetWork, AtCount
  <2>1. t[1] \in WorkerSet
    BY Zenon DEF ThreadSet
  <2>2. thread[t].ver \in Nat /\ work[t[1]].ver \in Nat /\ work'[t[1]].ver \in Nat
    BY <1>1, <2>1, Zenon DEF TypeOK
  <2>3. thread[t].ver <= work[t[1]].ver
    BY Zenon DEF ThreadSound
  <2> QED  BY <1>2, <2>1, <2>2, <2>3
<1>4. HashedSound'
  BY Zenon DEF HashedSound, SetWork, historyVars, AtCount
<1> QED  BY <1>1, <1>2, <1>3, <1>4, Zenon DEF WorkSound, DistinctHeaders, SetWork, historyVars

\* A thread that reloads keeps its position or goes back to its start, for a later job.
LEMMA ReloadStep ==
  ASSUME PartitionInv, NEW t \in ThreadSet, Reload(t)
  PROVE  PartitionInv'
<1> USE DEF PartitionInv
<1> DEFINE th == thread[t]
           w == work[t[1]]
<1>1. /\ t[1] \in WorkerSet /\ w \in [ver : Nat, job : Nat]
      /\ th \in [pc : {"none", "top", "reload", "batch", "exit"}, ver : Nat, job : Nat,
                 nonce : Nonces, roll : Nat, i : Nat, k : Nat]
      /\ Start(t) \in Nonces
  BY StartRange, StepAssumption, SizesAssumption DEF TypeOK, ThreadSet, Nonces
<1>2. /\ thread'[t].ver = w.ver
      /\ th.ver = w.ver => /\ thread'[t].job = th.job /\ thread'[t].nonce = th.nonce
                          /\ thread'[t].roll = th.roll /\ thread'[t].k = th.k
      /\ th.ver # w.ver => /\ thread'[t].job = w.job /\ thread'[t].nonce = Start(t)
                          /\ thread'[t].roll = 0 /\ thread'[t].k = 0
      /\ thread'[t].pc = "batch" => thread'[t].job # 0
  BY <1>1, ZenonT(60) DEF Reload, Reloaded, TypeOK
<1>3. \A s \in ThreadSet \ {t} : thread'[s] = thread[s]
  BY Zenon DEF Reload, TypeOK
<1>4. UNCHANGED <<work, hashed, repeated>>
  BY Zenon DEF Reload
<1>5. TypeOK'
  <2>1. Reloaded(t) \in [pc : {"none", "top", "reload", "batch", "exit"}, ver : Nat, job : Nat,
                        nonce : Nonces, roll : Nat, i : Nat, k : Nat]
    BY Zenon, <1>1 DEF Reloaded
  <2> QED  BY Zenon, <2>1 DEF Reload, TypeOK, lifeVars
<1>6. th.ver <= w.ver
  BY Zenon DEF ThreadSound
<1>7. ThreadSound'
  <2>1. AtCount(t, 0, Start(t), 0)
    BY StartRange, SizesAssumption, StepAssumption DEF AtCount
  <2>2. AtCount(t, thread'[t].roll, thread'[t].nonce, thread'[t].k)
    BY <1>2, <2>1, Zenon DEF ThreadSound
  <2>3. thread'[t].job \in {0, thread'[t].ver}
    BY <1>1, <1>2, Zenon DEF ThreadSound, WorkSound
  <2>4. thread'[t].ver <= work'[t[1]].ver
    BY <1>1, <1>2, <1>4
  <2> QED  BY <1>2, <1>3, <1>4, <2>2, <2>3, <2>4, ZenonT(60) DEF ThreadSound, AtCount
<1>8. HashedSound'
  <2> SUFFICES ASSUME NEW h \in hashed
               PROVE  \/ h.job < thread'[h.by].ver
                      \/ h.job = thread'[h.by].ver /\ h.k < thread'[h.by].k
    BY <1>4, Zenon DEF HashedSound, AtCount
  <2>1. h.by \in ThreadSet /\ h.job \in Nat
    BY Zenon DEF TypeOK
  <2>2. h.job < thread[h.by].ver \/ (h.job = thread[h.by].ver /\ h.k < thread[h.by].k)
    BY Zenon DEF HashedSound
  <2> QED  BY <1>1, <1>2, <1>3, <1>6, <2>1, <2>2
<1> QED  BY <1>4, <1>5, <1>7, <1>8, Zenon DEF WorkSound, DistinctHeaders

\* The header a thread hashes next is new, whoever hashed what before.
LEMMA HashIsNew ==
  ASSUME PartitionInv, NEW t \in ThreadSet, thread[t].pc = "batch",
         NEW h \in hashed, SameHeader(h, Header(t))
  PROVE  FALSE
<1>1. /\ h.by \in ThreadSet /\ h.k \in Nat /\ h.roll \in Nat /\ h.nonce \in Nonces
      /\ thread[t].k \in Nat /\ thread[t].roll \in Nat /\ thread[t].nonce \in Nonces
      /\ thread[t].ver \in Nat
  BY Zenon DEF PartitionInv, TypeOK
<1>2. /\ AtCount(h.by, h.roll, h.nonce, h.k)
      /\ h.job < thread[h.by].ver \/ (h.job = thread[h.by].ver /\ h.k < thread[h.by].k)
  BY Zenon DEF PartitionInv, HashedSound
<1>3. AtCount(t, thread[t].roll, thread[t].nonce, thread[t].k) /\ thread[t].job = thread[t].ver
  BY Zenon DEF PartitionInv, ThreadSound
<1>4. h.job = thread[t].job /\ h.nonce = thread[t].nonce /\ h.roll = thread[t].roll
  BY Zenon DEF SameHeader, Header
<1>5. h.by = t /\ h.k = thread[t].k
  BY SMTT(60), <1>1, <1>2, <1>3, <1>4, HeaderTellsThread
<1> QED  BY <1>1, <1>2, <1>3, <1>4, <1>5

\* One hash of grind keeps every thread on its progression.
LEMMA HashStep ==
  ASSUME PartitionInv, NEW t \in ThreadSet, Hash(t)
  PROVE  PartitionInv'
<1> USE DEF PartitionInv
<1> DEFINE th == thread[t]
           new == Header(t)
<1>1. /\ th \in [pc : {"none", "top", "reload", "batch", "exit"}, ver : Nat, job : Nat,
                 nonce : Nonces, roll : Nat, i : Nat, k : Nat]
      /\ th.pc = "batch" /\ Space \in Nat /\ NonceStep \in Nat /\ NonceStep < Space
  BY SizesAssumption, StepAssumption, Zenon DEF TypeOK, Hash
<1>2. /\ thread'[t].ver = th.ver /\ thread'[t].job = th.job /\ thread'[t].k = th.k + 1
      /\ th.nonce + NonceStep < Space =>
           thread'[t].nonce = th.nonce + NonceStep /\ thread'[t].roll = th.roll
      /\ th.nonce + NonceStep >= Space =>
           thread'[t].nonce = th.nonce + NonceStep - Space /\ thread'[t].roll = th.roll + 1
  BY <1>1 DEF Hash, Advance, TypeOK, Nonces
<1>3. \A s \in ThreadSet \ {t} : thread'[s] = thread[s]
  BY Zenon DEF Hash, TypeOK
<1>4. work' = work /\ hashed' = hashed \cup {new}
  BY Zenon DEF Hash
<1>5. TypeOK'
  <2>1. Advance(th) \in [pc : {"none", "top", "reload", "batch", "exit"}, ver : Nat, job : Nat,
                        nonce : Nonces, roll : Nat, i : Nat, k : Nat]
    <3>1. th.nonce \in Int /\ 0 <= th.nonce /\ th.nonce < Space
      BY <1>1 DEF Nonces
    <3>2. CASE th.nonce + NonceStep < Space
      <4>1. th.nonce + NonceStep \in Nonces
        BY <1>1, <3>1, <3>2 DEF Nonces
      <4> QED  BY <1>1, <3>2, <4>1, Zenon DEF Advance
    <3>3. CASE ~(th.nonce + NonceStep < Space)
      <4>1. th.nonce + NonceStep - Space \in Nonces
        BY <1>1, <3>1, <3>3 DEF Nonces
      <4>2. PICK n \in Nonces, r \in Nat : n = th.nonce + NonceStep - Space /\ r = th.roll + 1
        BY <1>1, <4>1
      <4>3. Advance(th) = [th EXCEPT !.nonce = n, !.roll = r]
        BY <3>3, <4>2, Zenon DEF Advance
      <4> QED  BY Zenon, <1>1, <4>3
    <3> QED  BY <3>2, <3>3, Zenon
  <2>2. thread' \in [ThreadSet -> [pc : {"none", "top", "reload", "batch", "exit"}, ver : Nat,
                      job : Nat, nonce : Nonces, roll : Nat, i : Nat, k : Nat]]
    <3> DEFINE adv == Advance(th)
               moved == [adv EXCEPT !.pc = IF th.i + 1 = BatchSize THEN "top" ELSE "batch",
                                    !.i = @ + 1, !.k = @ + 1]
    <3>1. thread' = [thread EXCEPT ![t] = moved]
      BY Zenon DEF Hash
    <3>2. adv \in [pc : {"none", "top", "reload", "batch", "exit"}, ver : Nat, job : Nat,
                  nonce : Nonces, roll : Nat, i : Nat, k : Nat]
      BY <2>1, Zenon
    <3> HIDE DEF adv
    <3>3. moved \in [pc : {"none", "top", "reload", "batch", "exit"}, ver : Nat, job : Nat,
                    nonce : Nonces, roll : Nat, i : Nat, k : Nat]
      <4>1. PICK i \in Nat, k \in Nat : i = adv.i + 1 /\ k = adv.k + 1
        BY <3>2
      <4>2. PICK pc \in {"top", "batch"} : pc = IF th.i + 1 = BatchSize THEN "top" ELSE "batch"
        BY Zenon
      <4>3. moved = [adv EXCEPT !.pc = pc, !.i = i, !.k = k]
        BY <4>1, <4>2, Zenon
      <4> QED  BY ZenonT(60), <3>2, <4>3
    <3> HIDE DEF moved
    <3> QED  BY <3>1, <3>3, Zenon DEF TypeOK
  <2>3. hashed' \subseteq [job : Nat, nonce : Nonces, roll : Nat, by : ThreadSet, k : Nat]
    BY <1>1, <1>4 DEF TypeOK, Header
  <2>4. repeated' \in BOOLEAN
    BY Zenon DEF Hash
  <2>5. lag' \in [ThreadSet -> Nat]
    BY DEF Hash, TypeOK
  <2> QED  BY <2>2, <2>3, <2>4, <2>5, Zenon DEF Hash, TypeOK, lifeVars
<1>6. ThreadSound'
  <2>1. AtCount(t, thread'[t].roll, thread'[t].nonce, thread'[t].k)
    <3>1. AtCount(t, th.roll, th.nonce, th.k)
      BY Zenon DEF ThreadSound
    <3>2. th.nonce + NonceStep < Space \/ th.nonce + NonceStep >= Space
      BY <1>1 DEF Nonces
    <3> QED  BY <1>1, <1>2, <3>1, <3>2, AdvanceKeepsCount
  <2> QED  BY <1>1, <1>2, <1>3, <1>4, <2>1, ZenonT(60) DEF ThreadSound, AtCount
<1>7. HashedSound'
  <2> SUFFICES ASSUME NEW h \in hashed'
               PROVE  /\ AtCount(h.by, h.roll, h.nonce, h.k)
                      /\ h.job # 0
                      /\ \/ h.job < thread'[h.by].ver
                         \/ h.job = thread'[h.by].ver /\ h.k < thread'[h.by].k
    BY Zenon DEF HashedSound, AtCount
  <2>1. CASE h \in hashed
    <3>1. h.by \in ThreadSet /\ h.k \in Nat
      BY <2>1, Zenon DEF TypeOK
    <3> QED  BY <1>1, <1>2, <1>3, <2>1, <3>1 DEF HashedSound
  <2>2. CASE h = new
    BY <1>1, <1>2, <2>2 DEF ThreadSound, Header
  <2> QED  BY <1>4, <2>1, <2>2, Zenon
<1>8. DistinctHeaders'
  BY <1>1, HashIsNew, Zenon DEF Hash, DistinctHeaders
<1> QED  BY <1>4, <1>5, <1>6, <1>7, <1>8, Zenon DEF WorkSound

\* Every step of the workers keeps PartitionInv.
LEMMA StepInv == PartitionInv /\ [Next]_vars => PartitionInv'
<1> SUFFICES ASSUME PartitionInv, [Next]_vars PROVE PartitionInv'
  BY Zenon
<1>1. CASE ContextEnds
  <2>1. 0 \in WorkerSet
    BY SizesAssumption DEF WorkerSet
  <2> QED  BY <1>1, <2>1, LifeStep, Zenon
<1>2. ASSUME NEW w \in WorkerSet,
             \/ StartClaims(w) \/ StartRuns(w) \/ Closes(w) \/ StopBegins(w) \/ StopStep(w)
      PROVE  PartitionInv'
  BY <1>2, LifeStep, Zenon
<1>3. ASSUME NEW w \in WorkerSet, NEW idle \in BOOLEAN, SetWork(w, idle)
      PROVE  PartitionInv'
  BY <1>3, SetWorkStep, Zenon
<1>4. ASSUME NEW t \in ThreadSet, CheckContext(t) \/ SkipBatch(t)
      PROVE  PartitionInv'
  <2>1. TypeOK'
    <3>1. CASE CheckContext(t)
      BY <3>1 DEF CheckContext, PartitionInv, TypeOK, lifeVars, historyVars
    <3>2. CASE SkipBatch(t)
      BY <3>2 DEF SkipBatch, PartitionInv, TypeOK, lifeVars, historyVars
    <3> QED  BY <1>4, <3>1, <3>2, Zenon
  <2>2. /\ UNCHANGED <<work, hashed, repeated>>
        /\ \A s \in ThreadSet :
             /\ thread'[s].ver = thread[s].ver /\ thread'[s].job = thread[s].job
             /\ thread'[s].nonce = thread[s].nonce /\ thread'[s].roll = thread[s].roll
             /\ thread'[s].k = thread[s].k
             /\ thread'[s].pc = "batch" => thread[s].pc = "batch"
    BY <1>4 DEF CheckContext, SkipBatch, PartitionInv, TypeOK, historyVars
  <2> QED  BY <2>1, <2>2, QuietStep, Zenon
<1>5. ASSUME NEW t \in ThreadSet, Reload(t) PROVE PartitionInv'
  BY <1>5, ReloadStep, Zenon
<1>6. ASSUME NEW t \in ThreadSet, Hash(t) PROVE PartitionInv'
  BY <1>6, HashStep, Zenon
<1>7. CASE UNCHANGED vars
  BY Zenon, <1>7 DEF vars, PartitionInv, TypeOK, ThreadSound, WorkSound, HashedSound,
              DistinctHeaders, AtCount
<1> QED  BY <1>1, <1>2, <1>3, <1>4, <1>5, <1>6, <1>7, Zenon DEF Next, ThreadStep

\* No header of a job is hashed twice, for every number of devices and threads, every
\* step that covers them, every nonce space and every batch size.
THEOREM HeadersAreDistinct == Spec => []DistinctHeaders
<1>1. PartitionInv => DistinctHeaders
  BY Zenon DEF PartitionInv
<1> QED  BY <1>1, InitInv, StepInv, PTL DEF Spec

\* The inductive invariant, with the type invariant, holds throughout.
THEOREM PartitionHolds == Spec => []PartitionInv
BY InitInv, StepInv, PTL DEF Spec

\* A step that neither hashes nor reloads lets no thread into a batch.
LEMMA QuietBatch ==
  ASSUME BatchSound, UNCHANGED lag,
         \A s \in ThreadSet :
           thread'[s].pc = "batch" => thread[s].pc = "batch" /\ thread'[s].i = thread[s].i
  PROVE  BatchSound'
BY Zenon DEF BatchSound

\* A batch begins on the current version of the work, and every hash of it counts in i.
LEMMA BatchStep == PartitionInv /\ BatchSound /\ [Next]_vars => BatchSound'
<1> SUFFICES ASSUME PartitionInv, BatchSound, [Next]_vars PROVE BatchSound'
  BY Zenon
<1>0. /\ BatchSize \in Nat \ {0} /\ lag \in [ThreadSet -> Nat]
      /\ thread \in [ThreadSet -> [pc : {"none", "top", "reload", "batch", "exit"}, ver : Nat,
                       job : Nat, nonce : Nonces, roll : Nat, i : Nat, k : Nat]]
  BY SizesAssumption, Zenon DEF PartitionInv, TypeOK
<1>1. ASSUME NEW w \in WorkerSet, StartRuns(w) PROVE BatchSound'
  <2>1. \A s \in ThreadSet :
          thread'[s].pc = "batch" => thread[s].pc = "batch" /\ thread'[s].i = thread[s].i
    BY <1>0, <1>1, Zenon DEF StartRuns
  <2> QED  BY <1>1, <2>1, QuietBatch, Zenon DEF StartRuns, historyVars
<1>2. CASE UNCHANGED <<thread, lag>>
  BY <1>2, QuietBatch, Zenon
<1>3. ASSUME NEW w \in WorkerSet,
             \/ StartClaims(w) \/ Closes(w) \/ StopBegins(w) \/ StopStep(w)
             \/ \E idle \in BOOLEAN : SetWork(w, idle)
      PROVE  BatchSound'
  BY Zenon, <1>2, <1>3
  DEF StartClaims, Closes, StopBegins, StopStep, StopCancels, StopReturns, SetWork,
                    historyVars
<1>4. ASSUME NEW t \in ThreadSet, CheckContext(t) \/ SkipBatch(t) PROVE BatchSound'
  <2>1. \A s \in ThreadSet :
          thread'[s].pc = "batch" => thread[s].pc = "batch" /\ thread'[s].i = thread[s].i
    BY <1>0, <1>4, ZenonT(60) DEF CheckContext, SkipBatch
  <2> QED  BY <1>4, <2>1, QuietBatch, Zenon DEF CheckContext, SkipBatch, historyVars
<1>5. ASSUME NEW t \in ThreadSet, Reload(t) PROVE BatchSound'
  <2>1. Reloaded(t).ver = work[t[1]].ver
    BY <1>0, ZenonT(60) DEF Reloaded
  <2>2. lag' = [lag EXCEPT ![t] = 0]
    BY <1>5, <2>1, Zenon DEF Reload
  <2>3. DOMAIN Reloaded(t) = {"pc", "ver", "job", "nonce", "roll", "i", "k"}
    BY <1>0, Zenon DEF Reloaded
  <2>4. thread'[t].i = 0 /\ \A s \in ThreadSet \ {t} : thread'[s] = thread[s]
    BY <1>0, <1>5, <2>3, Zenon DEF Reload
  <2> QED  BY <1>0, <2>2, <2>4 DEF BatchSound
<1>6. ASSUME NEW t \in ThreadSet, Hash(t) PROVE BatchSound'
  <2>1. Advance(thread[t]).i = thread[t].i
        /\ DOMAIN Advance(thread[t]) = {"pc", "ver", "job", "nonce", "roll", "i", "k"}
    BY <1>0, Zenon DEF Advance
  <2>2. /\ thread'[t].i = thread[t].i + 1
        /\ thread'[t].pc = IF thread[t].i + 1 = BatchSize THEN "top" ELSE "batch"
        /\ \A s \in ThreadSet \ {t} : thread'[s] = thread[s]
    BY <1>0, <1>6, <2>1, Zenon DEF Hash
  <2>3. /\ lag'[t] = 0 \/ lag'[t] = lag[t] + 1
        /\ \A s \in ThreadSet \ {t} : lag'[s] = lag[s]
    BY <1>0, <1>6, Zenon DEF Hash
  <2>4. thread[t].i < BatchSize /\ lag[t] <= thread[t].i
    BY <1>6, Zenon DEF BatchSound, Hash
  <2>5. /\ lag'[t] <= BatchSize
        /\ thread'[t].pc = "batch" => thread'[t].i < BatchSize /\ lag'[t] <= thread'[t].i
    BY <1>0, <2>2, <2>3, <2>4
  <2> QED  BY <2>2, <2>3, <2>5, Zenon DEF BatchSound
<1> QED  BY <1>1, <1>2, <1>3, <1>4, <1>5, <1>6, Zenon
            DEF Next, ThreadStep, vars, ContextEnds, historyVars

\* A replaced or withdrawn job costs each thread at most a batch, whenever SetWork comes.
THEOREM StaleWorkIsBounded == Spec => []StaleWorkBounded
<1>1. Init => BatchSound
  BY SizesAssumption DEF Init, BatchSound
<1>2. BatchSound => StaleWorkBounded
  BY Zenon DEF BatchSound, StaleWorkBounded
<1> QED  BY <1>1, <1>2, PartitionHolds, BatchStep, PTL DEF Spec
-----------------------------------------------------------------------------
\* The Stratum V2 client.

\* What the handlers of the session and its user do not touch.
LEMMA AdapterRests ==
  ASSUME AdapterInv, UNCHANGED <<pending, pendingOrder, heldTip, log, emitted>>
  PROVE  AdapterInv'
<1>1. \A k : TipsUpTo(k)' = TipsUpTo(k)
          /\ \A id : Announced(id, k)' = Announced(id, k)
  BY Zenon DEF TipsUpTo, Announced
<1>2. \A e, k : JobSound(e, k) => JobSound(e, k)'
  BY <1>1, ZenonT(60) DEF JobSound, Newest
<1>3. /\ (\A id \in DOMAIN pending :
          /\ Newest(pending[id], Announced(id, Len(log)))
          /\ \A i \in TipsUpTo(Len(log)) : i > pending[id] => log[i].id = id)'
      /\ (IF heldTip = 0 THEN TipsUpTo(Len(log)) = {} ELSE Newest(heldTip, TipsUpTo(Len(log))))'
  BY <1>1, Zenon DEF AdapterInv, Newest
<1>4. (\A n \in DOMAIN emitted :
         emitted[n].at \in 1 .. Len(log) /\ JobSound(emitted[n].job, emitted[n].at))'
  BY <1>2, Zenon DEF AdapterInv
<1>5. (\A k \in DOMAIN log :
         (log[k].t = "NewMiningJob" /\ log[k].ntime # NoTime /\ TipsUpTo(k) # {})
           => \E n \in DOMAIN emitted : emitted[n].at = k)'
  BY <1>1, Zenon DEF AdapterInv
<1> QED  BY <1>3, <1>4, <1>5, Zenon DEF AdapterInv

\* Nothing is decoded, pending or emitted.
LEMMA AdapterStarts == ASSUME AdapterOK, AdapterInit PROVE AdapterInv
<1>1. log = <<>> /\ pendingOrder = <<>> /\ emitted = <<>> /\ heldTip = 0 /\ pending = NoPending
  BY Zenon DEF AdapterInit
<1>2. DOMAIN pending = {} /\ Range(pendingOrder) = {}  BY <1>1 DEF NoPending, Range
<1>3. TipsUpTo(Len(log)) = {} /\ DOMAIN log = {} /\ DOMAIN emitted = {}
          /\ Len(pendingOrder) = 0
  BY <1>1 DEF TipsUpTo
<1>4. log \in Seq(Frames) /\ pendingOrder \in Seq(JobIds)
  BY <1>1
<1>5. \A S : emitted \in Seq(S)  BY <1>1
<1> QED  BY <1>1, <1>2, <1>3, <1>4, <1>5 DEF AdapterInv, AdapterOK

\* A frame is appended to log: what was said of the earlier ones still holds.
LEMMA LogGrows ==
  ASSUME NEW m \in Frames, log \in Seq(Frames), log' = Append(log, m)
  PROVE  /\ Len(log) \in Nat /\ log' \in Seq(Frames) /\ Len(log') = Len(log) + 1
         /\ log'[Len(log) + 1] = m
         /\ \A i \in 1 .. Len(log) : log'[i] = log[i]
         /\ \A k \in 0 .. Len(log) :
              /\ TipsUpTo(k)' = TipsUpTo(k)
              /\ \A id : Announced(id, k)' = Announced(id, k)
         /\ TipsUpTo(Len(log))' = TipsUpTo(Len(log)) \cup
              (IF m.t = "SetNewPrevHash" THEN {Len(log) + 1} ELSE {})
         /\ \A id : Announced(id, Len(log))' = Announced(id, Len(log)) \cup
              (IF m.t = "NewMiningJob" /\ m.id = id THEN {Len(log) + 1} ELSE {})
<1>1. /\ Len(log) \in Nat /\ log' \in Seq(Frames) /\ Len(log') = Len(log) + 1
      /\ log'[Len(log) + 1] = m /\ \A i \in 1 .. Len(log) : log'[i] = log[i]
  OBVIOUS
<1>2. \A k \in 0 .. Len(log) : \A i \in 1 .. k : log'[i] = log[i]  BY <1>1
<1>3. \A k \in 0 .. Len(log) :
        TipsUpTo(k)' = TipsUpTo(k) /\ \A id : Announced(id, k)' = Announced(id, k)
  BY <1>2, Zenon DEF TipsUpTo, Announced
<1>4. 1 .. Len(log') = (1 .. Len(log)) \cup {Len(log) + 1}  BY <1>1
<1>5. TipsUpTo(Len(log))' = TipsUpTo(Len(log)) \cup
        (IF m.t = "SetNewPrevHash" THEN {Len(log) + 1} ELSE {})
  <2> SUFFICES ASSUME NEW i
               PROVE  i \in TipsUpTo(Len(log))' <=>
                        \/ i \in TipsUpTo(Len(log))
                        \/ m.t = "SetNewPrevHash" /\ i = Len(log) + 1
    BY Zenon
  <2>1. i \in TipsUpTo(Len(log))' <=> i \in 1 .. Len(log') /\ log'[i].t = "SetNewPrevHash"
    BY Zenon DEF TipsUpTo
  <2>2. i \in TipsUpTo(Len(log)) <=> i \in 1 .. Len(log) /\ log[i].t = "SetNewPrevHash"
    BY Zenon DEF TipsUpTo
  <2>3. Len(log) + 1 \notin 1 .. Len(log)  BY <1>1
  <2> QED  BY <1>1, <1>4, <2>1, <2>2, <2>3, Zenon
<1>6. ASSUME NEW id
      PROVE  Announced(id, Len(log))' = Announced(id, Len(log)) \cup
               (IF m.t = "NewMiningJob" /\ m.id = id THEN {Len(log) + 1} ELSE {})
  <2> SUFFICES ASSUME NEW i
               PROVE  i \in Announced(id, Len(log))' <=>
                        \/ i \in Announced(id, Len(log))
                        \/ m.t = "NewMiningJob" /\ m.id = id /\ i = Len(log) + 1
    BY Zenon
  <2>1. i \in Announced(id, Len(log))' <=>
          i \in 1 .. Len(log') /\ log'[i].t = "NewMiningJob" /\ log'[i].id = id
    BY Zenon DEF Announced
  <2>2. i \in Announced(id, Len(log)) <=>
          i \in 1 .. Len(log) /\ log[i].t = "NewMiningJob" /\ log[i].id = id
    BY Zenon DEF Announced
  <2>3. Len(log) + 1 \notin 1 .. Len(log)  BY <1>1
  <2> QED  BY <1>1, <1>4, <2>1, <2>2, <2>3, Zenon
<1> QED  BY <1>1, <1>3, <1>5, <1>6, Zenon

\* So does what was said of the jobs emitted before.
LEMMA JobStays ==
  ASSUME NEW m \in Frames, log \in Seq(Frames), log' = Append(log, m),
         NEW e, NEW k \in 1 .. Len(log), JobSound(e, k)
  PROVE  JobSound(e, k)'
<1>1. k \in 0 .. Len(log)  OBVIOUS
<1>2. TipsUpTo(k)' = TipsUpTo(k) /\ Announced(e.id, k)' = Announced(e.id, k)
  BY <1>1, LogGrows, Zenon
<1>3. e.root \in 1 .. k /\ TipsUpTo(k) \subseteq 1 .. k
  BY Zenon DEF JobSound, Newest, Announced, TipsUpTo
<1>4. 1 .. k \subseteq 1 .. Len(log)  OBVIOUS
<1>5. \A i \in 1 .. k : log'[i] = log[i]  BY <1>4, LogGrows, Zenon
<1>6. log'[e.root] = log[e.root] /\ log'[k] = log[k] /\ \A i \in TipsUpTo(k) : log'[i] = log[i]
  BY <1>3, <1>5
<1> QED  BY <1>2, <1>6, ZenonT(60) DEF JobSound, Newest

\* The jobs and the promise to emit, when a frame emits job e or, if the frame is not one
\* that calls for a job, nothing.
LEMMA EmittedStays ==
  ASSUME NEW m \in Frames, AdapterInv, log' = Append(log, m), NEW at, at = Len(log) + 1,
         \/ emitted' = emitted /\ (m.t = "NewMiningJob" => m.ntime = NoTime \/ heldTip = 0)
         \/ \E e \in [id : JobIds, root : Nat, prev : Nat, ntime : Nat, clean : BOOLEAN] :
              /\ JobSound(e, at)'
              /\ emitted' = Append(emitted, [job |-> e, at |-> at])
  PROVE  /\ emitted' \in Seq([job : [id : JobIds, root : Nat, prev : Nat, ntime : Nat,
                                    clean : BOOLEAN], at : Nat])
         /\ \A n \in DOMAIN emitted' :
              emitted'[n].at \in 1 .. Len(log') /\ JobSound(emitted[n].job, emitted[n].at)'
         /\ (\A k \in DOMAIN log :
              (log[k].t = "NewMiningJob" /\ log[k].ntime # NoTime /\ TipsUpTo(k) # {})
                => \E n \in DOMAIN emitted : emitted[n].at = k)'
<1> DEFINE Entry == [job : [id : JobIds, root : Nat, prev : Nat, ntime : Nat, clean : BOOLEAN],
                     at : Nat]
           L == Len(log)
           Calls(k) == log[k].t = "NewMiningJob" /\ log[k].ntime # NoTime
                          /\ TipsUpTo(k) # {}
<1>0. log \in Seq(Frames) /\ emitted \in Seq(Entry)
  BY Zenon DEF AdapterInv
<1>1. /\ L \in Nat /\ Len(log') = at /\ at = L + 1 /\ log'[at] = m
      /\ \A i \in 1 .. L : log'[i] = log[i]
      /\ \A k \in 0 .. L : TipsUpTo(k)' = TipsUpTo(k)
      /\ TipsUpTo(Len(log))' = TipsUpTo(L)
                \cup (IF m.t = "SetNewPrevHash" THEN {at} ELSE {})
  BY <1>0, LogGrows, Zenon
<1>2. /\ DOMAIN log = 1 .. L /\ DOMAIN log' = (1 .. L) \cup {at}
      /\ 1 .. L \subseteq 1 .. Len(log') /\ at \in 1 .. Len(log') /\ 1 .. L \subseteq 0 .. L
  <2>1. DOMAIN log = 1 .. L /\ DOMAIN log' = 1 .. Len(log')  BY <1>0
  <2> HIDE DEF L
  <2> QED  BY <1>1, <2>1
<1>3. ASSUME NEW n \in DOMAIN emitted
      PROVE  emitted[n].at \in 1 .. Len(log')
             /\ \A e, k : e = emitted[n].job /\ k = emitted[n].at => JobSound(e, k)'
  <2>1. emitted[n].at \in 1 .. L /\ JobSound(emitted[n].job, emitted[n].at)
    BY Zenon DEF AdapterInv
  <2>2. \A e, k : e = emitted[n].job /\ k = emitted[n].at => JobSound(e, k)'
    BY <1>0, <2>1, JobStays, ZenonT(30)
  <2> QED  BY <1>2, <2>1, <2>2, Zenon
<1>4. ASSUME NEW k \in 1 .. L, Calls(k)' PROVE \E n \in DOMAIN emitted : emitted[n].at = k
  <2>1. Calls(k)  BY <1>1, <1>2, <1>4, Zenon
  <2> QED  BY <1>2, <2>1, Zenon DEF AdapterInv
<1> HIDE DEF L
<1>5. CASE emitted' = emitted /\ (m.t = "NewMiningJob" => m.ntime = NoTime \/ heldTip = 0)
  <2>1. \A n \in DOMAIN emitted' :
          emitted'[n].at \in 1 .. Len(log') /\ JobSound(emitted[n].job, emitted[n].at)'
    BY <1>3, <1>5, Zenon
  <2>2. ~Calls(at)'
    <3>1. (Calls(at)' => m.t = "NewMiningJob" /\ heldTip = 0 /\ TipsUpTo(at)' # {})
      BY <1>1, <1>5, Zenon
    <3>2. heldTip = 0 => TipsUpTo(L) = {}  BY Zenon DEF AdapterInv, L
    <3>3. TipsUpTo(at)' = TipsUpTo(Len(log))'  BY <1>1, Zenon
    <3> QED  BY <1>1, <3>1, <3>2, <3>3, ZenonT(30)
  <2>3. \A k \in DOMAIN log' : Calls(k)' => \E n \in DOMAIN emitted' : emitted'[n].at = k
    BY <1>2, <1>4, <1>5, <2>2, Zenon
  <2> QED  BY <1>0, <1>5, <2>1, <2>3, Zenon
<1>6. CASE \E e \in [id : JobIds, root : Nat, prev : Nat, ntime : Nat, clean : BOOLEAN] :
             /\ JobSound(e, at)'
             /\ emitted' = Append(emitted, [job |-> e, at |-> at])
  <2>1. PICK e \in [id : JobIds, root : Nat, prev : Nat, ntime : Nat, clean : BOOLEAN] :
             /\ JobSound(e, at)'
             /\ emitted' = Append(emitted, [job |-> e, at |-> at])
    BY <1>6, Zenon DEF L
  <2> DEFINE new == [job |-> e, at |-> at]
             N == Len(emitted)
  <2>2. new \in Entry /\ new.job = e /\ new.at = at  BY <1>1
  <2> HIDE DEF new, Entry
  <2>3. /\ emitted' \in Seq(Entry) /\ N \in Nat
        /\ DOMAIN emitted = 1 .. N /\ DOMAIN emitted' = (1 .. N) \cup {N + 1}
        /\ emitted'[N + 1] = new /\ \A n \in 1 .. N : emitted'[n] = emitted[n]
    BY <1>0, <2>1, <2>2 DEF new
  <2>4. ASSUME NEW n \in DOMAIN emitted'
        PROVE  emitted'[n].at \in 1 .. Len(log') /\ JobSound(emitted[n].job, emitted[n].at)'
    <3>1. CASE n \in 1 .. N  BY <1>3, <2>3, <3>1, Zenon
    <3>2. CASE n = N + 1
      <4>1. emitted'[n].job = e /\ emitted'[n].at = at  BY <2>2, <2>3, <3>2, ZenonT(30)
      <4> QED  BY <1>2, <2>1, <4>1, Zenon
    <3> QED  BY <2>3, <3>1, <3>2, ZenonT(30)
  <2>5. ASSUME NEW k \in DOMAIN log', Calls(k)'
        PROVE  \E n \in DOMAIN emitted' : emitted'[n].at = k
    <3>1. CASE k \in 1 .. L  BY <1>4, <2>3, <2>5, <3>1, ZenonT(60)
    <3>2. CASE k = at  BY <2>2, <2>3, <3>2, ZenonT(30)
    <3> QED  BY <1>2, <3>1, <3>2, Zenon
  <2> QED  BY <2>3, <2>4, <2>5, Zenon DEF Entry
<1> QED  BY <1>5, <1>6, Zenon

\* What AdapterInv says of the positions in log.
LEMMA Positions ==
  ASSUME AdapterInv
  PROVE  /\ Len(log) \in Nat /\ DOMAIN log = 1 .. Len(log)
         /\ \A k : TipsUpTo(k) \subseteq 1 .. k /\ \A id : Announced(id, k) \subseteq 1 .. k
         /\ heldTip # 0 => heldTip \in 1 .. Len(log)
         /\ \A id \in DOMAIN pending : pending[id] \in 1 .. Len(log)
<1>1. Len(log) \in Nat /\ DOMAIN log = 1 .. Len(log)
  <2>1. log \in Seq(Frames)  BY Zenon DEF AdapterInv
  <2> QED  BY <2>1
<1>2. \A k : TipsUpTo(k) \subseteq 1 .. k /\ \A id : Announced(id, k) \subseteq 1 .. k
  BY Zenon DEF TipsUpTo, Announced
<1> QED  BY <1>1, <1>2, Zenon DEF AdapterInv, Newest

\* A frame carries a job id and a time, NoTime included.
LEMMA FrameTypes ==
  ASSUME AdapterOK, NEW m \in Frames PROVE m.id \in JobIds /\ m.ntime \in Nat
<1>1. m.id \in JobIds /\ m.ntime \in NTimes \cup {NoTime}
  <2>1. CASE m \in [t : {"NewMiningJob"}, id : JobIds, ntime : NTimes \cup {NoTime}]
    BY <2>1, Zenon
  <2>2. CASE m \in [t : {"SetNewPrevHash"}, id : JobIds, ntime : NTimes]  BY <2>2, Zenon
  <2> QED  BY <2>1, <2>2, Zenon DEF Frames
<1>2. (\A x \in NTimes : x \in Nat) /\ NoTime \in Nat
  <2>1. NTimes \subseteq Nat  BY Zenon DEF AdapterOK
  <2>2. NoTime \in Nat  BY Zenon DEF NoTime
  <2> QED  BY <2>1, <2>2, Zenon
<1> QED  BY <1>1, <1>2, Zenon

\* The ids pending after an announcement: none that was not announced, within the cap.
LEMMA EvictKeeps ==
  ASSUME AdapterOK, NEW q \in Seq(JobIds), NEW id \in JobIds, Len(q) <= PendingCap,
         NEW base, base = IF id \in Range(q) THEN q ELSE Append(q, id)
  PROVE  /\ Evict(base) \in Seq(JobIds) /\ Len(Evict(base)) <= PendingCap
         /\ Range(Evict(base)) \subseteq Range(q) \cup {id}
<1>1. PendingCap \in Nat \ {0}  BY Zenon DEF AdapterOK
<1>2. /\ base \in Seq(JobIds) /\ Len(base) <= PendingCap + 1
      /\ \A i \in DOMAIN base : base[i] = id \/ \E j \in DOMAIN q : base[i] = q[j]
  BY <1>1
<1>3. CASE Len(base) <= PendingCap
  <2>1. Evict(base) = base  BY <1>1, <1>2, <1>3 DEF Evict
  <2> QED  BY <1>2, <1>3, <2>1, ZenonT(60) DEF Range
<1>4. CASE ~(Len(base) <= PendingCap)
  <2>1. Evict(base) = Tail(base) /\ base # <<>>  BY <1>1, <1>2, <1>4 DEF Evict
  <2>2. /\ Tail(base) \in Seq(JobIds) /\ Len(Tail(base)) = Len(base) - 1
        /\ \A i \in DOMAIN Tail(base) : i + 1 \in DOMAIN base /\ Tail(base)[i] = base[i + 1]
    BY <1>2, <2>1
  <2>3. Len(Tail(base)) <= PendingCap  BY <1>1, <1>2, <2>2
  <2>4. ASSUME NEW x \in Range(Tail(base)) PROVE x \in Range(q) \cup {id}
    <3>1. PICK i \in DOMAIN Tail(base) : x = Tail(base)[i]  BY Zenon DEF Range
    <3>2. i + 1 \in DOMAIN base /\ x = base[i + 1]  BY <2>2, <3>1, Zenon
    <3> QED  BY <1>2, <3>2, Zenon DEF Range
  <2> QED  BY <2>1, <2>2, <2>3, <2>4, Zenon
<1> QED  BY <1>3, <1>4, ZenonT(30)

\* NewMiningJob.
LEMMA NewJobKeeps ==
  ASSUME AdapterOK, AdapterInv, NEW m \in Frames, m.t = "NewMiningJob",
         log' = Append(log, m), onNewMiningJob(m)
  PROVE  AdapterInv'
<1>1. PICK at : at = Len(log) + 1  BY Zenon
<1> DEFINE L == Len(log)
           base == IF m.id \in DOMAIN pending THEN pendingOrder ELSE Append(pendingOrder, m.id)
           order == Evict(base)
           job == [id |-> m.id, root |-> at, prev |-> heldTip, ntime |-> m.ntime, clean |-> FALSE]
<1>2. /\ pendingOrder' = order /\ heldTip' = heldTip
      /\ pending' = [i \in Range(order) |-> IF i = m.id THEN at ELSE pending[i]]
      /\ IF m.ntime # NoTime /\ heldTip # 0
         THEN emitted' = Append(emitted, [job |-> job, at |-> at]) ELSE emitted' = emitted
  BY <1>1, Zenon DEF onNewMiningJob, Emits, Silent
<1>3. m.id \in JobIds /\ m.ntime \in Nat  BY FrameTypes, Zenon
<1>4. /\ order \in Seq(JobIds) /\ Len(order) <= PendingCap
      /\ Range(order) \subseteq DOMAIN pending \cup {m.id}
  <2>1. /\ pendingOrder \in Seq(JobIds) /\ Len(pendingOrder) <= PendingCap
        /\ DOMAIN pending = Range(pendingOrder)
    BY Zenon DEF AdapterInv
  <2> QED  BY <1>3, <2>1, EvictKeeps, ZenonT(60)
<1>5. /\ L \in Nat /\ log' \in Seq(Frames) /\ Len(log') = at /\ at = L + 1 /\ log'[at] = m
      /\ \A i \in 1 .. L : log'[i] = log[i]
      /\ TipsUpTo(Len(log))' = TipsUpTo(L)
      /\ \A id : Announced(id, Len(log))' =
                  Announced(id, L) \cup (IF m.id = id THEN {at} ELSE {})
  <2>1. log \in Seq(Frames)  BY Zenon DEF AdapterInv
  <2>2. TipsUpTo(Len(log))' = TipsUpTo(L) \cup {}  BY <2>1, LogGrows, Zenon
  <2> QED  BY <1>1, <2>1, <2>2, LogGrows, ZenonT(60)
<1>6. TipsUpTo(at)' = TipsUpTo(L)
          /\ Announced(m.id, at)' = Announced(m.id, L) \cup {at}
  BY <1>5, Zenon
<1>7. TipsUpTo(L) \subseteq 1 .. L /\ \A id : Announced(id, L) \subseteq 1 .. L
  BY Positions, Zenon
<1> HIDE DEF L, order, base, job
<1>8. at \in Nat /\ (\A i \in 1 .. L : i <= at) /\ at <= at /\ \A i \in 1 .. L : ~(i > at)
  BY <1>5
<1>9. Newest(at, Announced(m.id, L) \cup {at})  BY <1>7, <1>8, Zenon DEF Newest
<1>10. ASSUME NEW id \in DOMAIN pending'
       PROVE  /\ Newest(pending'[id], Announced(id, Len(log))')
              /\ \A i \in TipsUpTo(Len(log))' : i > pending'[id] => log'[i].id = id
  <2>1. CASE id = m.id
    <3>1. pending'[id] = at  BY <1>2, <2>1, ZenonT(30)
    <3> QED  BY <1>5, <1>7, <1>8, <1>9, <2>1, <3>1, Zenon
  <2>2. CASE id # m.id
    <3>1. pending'[id] = pending[id] /\ id \in DOMAIN pending  BY <1>2, <1>4, <2>2, ZenonT(30)
    <3>2. /\ Newest(pending[id], Announced(id, L))
          /\ \A i \in TipsUpTo(L) : i > pending[id] => log[i].id = id
      BY <3>1, Zenon DEF AdapterInv, L
    <3>3. Announced(id, Len(log))' = Announced(id, L) \cup {}  BY <1>5, <2>2, Zenon
    <3> QED  BY <1>5, <1>7, <3>1, <3>2, <3>3, ZenonT(60)
  <2> QED  BY <2>1, <2>2, Zenon
<1>11. (IF heldTip = 0 THEN TipsUpTo(Len(log)) = {} ELSE Newest(heldTip, TipsUpTo(Len(log))))'
  BY <1>2, <1>5, Zenon DEF AdapterInv, L, Newest
<1>12. \/ emitted' = emitted /\ (m.t = "NewMiningJob" => m.ntime = NoTime \/ heldTip = 0)
       \/ \E e \in [id : JobIds, root : Nat, prev : Nat, ntime : Nat, clean : BOOLEAN] :
            /\ JobSound(e, at)'
            /\ emitted' = Append(emitted, [job |-> e, at |-> at])
  <2>1. CASE m.ntime # NoTime /\ heldTip # 0
    <3>1. heldTip \in Nat /\ Newest(heldTip, TipsUpTo(L))
      <4>1. heldTip \in 1 .. L  BY <2>1, Positions, ZenonT(30) DEF L
      <4>2. heldTip \in Nat  BY <1>5, <4>1
      <4> QED  BY <2>1, <4>2, Zenon DEF AdapterInv, L
    <3>2. /\ job.id = m.id /\ job.root = at /\ job.prev = heldTip /\ job.ntime = m.ntime
          /\ job.clean = FALSE
          /\ job \in [id : JobIds, root : Nat, prev : Nat, ntime : Nat, clean : BOOLEAN]
      BY <1>3, <1>8, <3>1, Zenon DEF job
    <3>3. PICK e : e = job  BY Zenon
    <3>4. m.ntime >= log'[at].ntime  BY <1>3, <1>5
    <3>5. JobSound(e, at)'
      BY <1>6, <1>9, <3>1, <3>2, <3>3, <3>4, Zenon DEF JobSound, Newest
    <3> QED  BY <1>2, <2>1, <3>2, <3>3, <3>5, Zenon
  <2>2. CASE ~(m.ntime # NoTime /\ heldTip # 0)  BY <1>2, <2>2, Zenon
  <2> QED  BY <2>1, <2>2, ZenonT(30)
<1>13. DOMAIN pending' = Range(pendingOrder)'  BY <1>2, Zenon DEF Range
<1>14. /\ emitted' \in Seq([job : [id : JobIds, root : Nat, prev : Nat, ntime : Nat,
                                  clean : BOOLEAN], at : Nat])
       /\ \A n \in DOMAIN emitted' :
            emitted'[n].at \in 1 .. Len(log') /\ JobSound(emitted[n].job, emitted[n].at)'
       /\ (\A k \in DOMAIN log :
            (log[k].t = "NewMiningJob" /\ log[k].ntime # NoTime /\ TipsUpTo(k) # {})
              => \E n \in DOMAIN emitted : emitted[n].at = k)'
  BY <1>1, <1>12, EmittedStays, Zenon
<1>15. log' \in Seq(Frames) /\ pendingOrder' \in Seq(JobIds)
          /\ Len(pendingOrder') <= PendingCap
  BY <1>2, <1>4, <1>5, Zenon
<1> QED  BY <1>10, <1>11, <1>13, <1>14, <1>15, Zenon DEF AdapterInv

\* SetNewPrevHash.
LEMMA TipKeeps ==
  ASSUME AdapterOK, AdapterInv, NEW m \in Frames, m.t = "SetNewPrevHash",
         log' = Append(log, m), onSetNewPrevHash(m)
  PROVE  AdapterInv'
<1>1. PICK at : at = Len(log) + 1  BY Zenon
<1> DEFINE L == Len(log)
           root == pending[m.id]
           later == IF log[root].ntime > m.ntime THEN log[root].ntime ELSE m.ntime
           job == [id |-> m.id, root |-> root, prev |-> at, ntime |-> later, clean |-> TRUE]
<1>2. /\ heldTip' = at
      /\ m.id \in DOMAIN pending =>
           /\ pending' = [i \in {m.id} |-> pending[i]] /\ pendingOrder' = <<m.id>>
           /\ emitted' = Append(emitted, [job |-> job, at |-> at])
      /\ m.id \notin DOMAIN pending =>
           pending' = NoPending /\ pendingOrder' = <<>> /\ emitted' = emitted
  BY <1>1, Zenon DEF onSetNewPrevHash, Emits, Silent
<1>3. m.id \in JobIds /\ m.ntime \in Nat  BY FrameTypes, Zenon
<1>5. /\ L \in Nat /\ log' \in Seq(Frames) /\ Len(log') = at /\ at = L + 1 /\ log'[at] = m
      /\ \A i \in 1 .. L : log'[i] = log[i] /\ log[i] \in Frames
      /\ TipsUpTo(Len(log))' = TipsUpTo(L) \cup {at}
      /\ \A id : Announced(id, Len(log))' = Announced(id, L)
  <2>1. log \in Seq(Frames)  BY Zenon DEF AdapterInv
  <2>2. \A id : Announced(id, Len(log))' = Announced(id, L) \cup {}
    BY <2>1, LogGrows, Zenon
  <2>3. \A i \in 1 .. L : log[i] \in Frames  BY <2>1
  <2> QED  BY <1>1, <2>1, <2>2, <2>3, LogGrows
<1>6. TipsUpTo(at)' = TipsUpTo(L) \cup {at}
          /\ Announced(m.id, at)' = Announced(m.id, L)
  BY <1>5, Zenon
<1>7. TipsUpTo(L) \subseteq 1 .. L /\ \A id : Announced(id, L) \subseteq 1 .. L
  BY Positions, Zenon
<1> HIDE DEF L, root, later, job
<1>8. at \in Nat /\ (\A i \in 1 .. L : i <= at) /\ at <= at  BY <1>5
<1>9. Newest(at, TipsUpTo(L) \cup {at})  BY <1>7, <1>8, Zenon DEF Newest
<1>10. ASSUME m.id \in DOMAIN pending
       PROVE  /\ root \in 1 .. L /\ Newest(root, Announced(m.id, L))
              /\ \A i \in TipsUpTo(L) \cup {at} : i > root => log'[i].id = m.id
  <2>1. root \in 1 .. L  BY <1>10, Positions, Zenon DEF root, L
  <2>2. /\ Newest(root, Announced(m.id, L))
        /\ \A i \in TipsUpTo(L) : i > root => log[i].id = m.id
    BY <1>10, Zenon DEF AdapterInv, root, L
  <2> QED  BY <1>5, <1>7, <2>1, <2>2, Zenon
<1>11. ASSUME NEW id \in DOMAIN pending'
       PROVE  /\ Newest(pending'[id], Announced(id, Len(log))')
              /\ \A i \in TipsUpTo(Len(log))' : i > pending'[id] => log'[i].id = id
  <2>1. m.id \in DOMAIN pending /\ id = m.id /\ pending'[id] = root
    BY <1>2, Zenon DEF NoPending, root
  <2> QED  BY <1>5, <1>10, <2>1, Zenon
<1>12. (IF heldTip = 0 THEN TipsUpTo(Len(log)) = {} ELSE Newest(heldTip, TipsUpTo(Len(log))))'
  <2>1. at # 0  BY <1>5
  <2> QED  BY <1>2, <1>5, <1>9, <2>1, Zenon DEF Newest
<1>13. \/ emitted' = emitted /\ (m.t = "NewMiningJob" => m.ntime = NoTime \/ heldTip = 0)
       \/ \E e \in [id : JobIds, root : Nat, prev : Nat, ntime : Nat, clean : BOOLEAN] :
            /\ JobSound(e, at)'
            /\ emitted' = Append(emitted, [job |-> e, at |-> at])
  <2>1. CASE m.id \in DOMAIN pending
    <3>1. root \in Nat /\ log'[root] = log[root] /\ log[root].ntime \in Nat
      <4>1. root \in 1 .. L  BY <1>10, <2>1, Zenon
      <4>2. log'[root] = log[root] /\ log[root] \in Frames  BY <1>5, <4>1, Zenon
      <4> QED  BY <1>5, <4>1, <4>2, FrameTypes
    <3>2. later \in Nat /\ later >= log[root].ntime /\ later >= m.ntime
      BY <1>3, <3>1 DEF later
    <3>3. /\ job.id = m.id /\ job.root = root /\ job.prev = at /\ job.ntime = later
          /\ job.clean = TRUE
          /\ job \in [id : JobIds, root : Nat, prev : Nat, ntime : Nat, clean : BOOLEAN]
      BY <1>3, <1>8, <3>1, <3>2, ZenonT(30) DEF job
    <3>4. PICK e : e = job  BY Zenon
    <3>5. JobSound(e, at)'
      <4>1. Newest(e.prev, TipsUpTo(at)') /\ Newest(e.root, Announced(e.id, at)')
        BY <1>6, <1>9, <1>10, <2>1, <3>3, <3>4, Zenon
      <4>2. e.ntime >= log'[e.root].ntime /\ e.prev = at /\ e.ntime >= log'[at].ntime
        BY <1>5, <3>1, <3>2, <3>3, <3>4, Zenon
      <4>3. \A i \in TipsUpTo(at)' : i > e.root => log'[i].id = e.id
        BY <1>6, <1>10, <2>1, <3>3, <3>4, Zenon
      <4> QED  BY <3>3, <3>4, <4>1, <4>2, <4>3, Zenon DEF JobSound, Newest
    <3> QED  BY <1>2, <2>1, <3>3, <3>4, <3>5, ZenonT(60)
  <2>2. CASE m.id \notin DOMAIN pending  BY <1>2, <2>2, ZenonT(30)
  <2> QED  BY <2>1, <2>2, Zenon
<1>14. /\ emitted' \in Seq([job : [id : JobIds, root : Nat, prev : Nat, ntime : Nat,
                                  clean : BOOLEAN], at : Nat])
       /\ \A n \in DOMAIN emitted' :
            emitted'[n].at \in 1 .. Len(log') /\ JobSound(emitted[n].job, emitted[n].at)'
       /\ (\A k \in DOMAIN log :
            (log[k].t = "NewMiningJob" /\ log[k].ntime # NoTime /\ TipsUpTo(k) # {})
              => \E n \in DOMAIN emitted : emitted[n].at = k)'
  BY <1>1, <1>13, EmittedStays, Zenon
<1>15. /\ pendingOrder' \in Seq(JobIds) /\ Len(pendingOrder') <= PendingCap
       /\ DOMAIN pending' = Range(pendingOrder)'
  <2>0. PendingCap \in Nat \ {0}  BY Zenon DEF AdapterOK
  <2>1. CASE m.id \in DOMAIN pending
    <3>1. DOMAIN pending' = {m.id} /\ pendingOrder' = <<m.id>>  BY <1>2, <2>1, ZenonT(30)
    <3>2. Range(pendingOrder)' = {m.id}  BY <3>1 DEF Range
    <3> QED  BY <1>3, <2>0, <3>1, <3>2
  <2>2. CASE m.id \notin DOMAIN pending
    <3>1. DOMAIN pending' = {} /\ pendingOrder' = <<>>
      BY <1>2, <2>2, ZenonT(30) DEF NoPending
    <3>2. Range(pendingOrder)' = {}  BY <3>1 DEF Range
    <3> QED  BY <2>0, <3>1, <3>2
  <2> QED  BY <2>1, <2>2, ZenonT(30)
<1> QED  BY <1>5, <1>11, <1>12, <1>14, <1>15, Zenon DEF AdapterInv

\* Every step keeps AdapterInv.
LEMMA AdapterStep ==
  ASSUME AdapterOK, AdapterInv, [AdapterNext]_(adapterVars)
  PROVE  AdapterInv'
<1>1. CASE readLoop
  <2>1. PICK m \in Frames :
          /\ log' = Append(log, m)
          /\ \/ m.t = "NewMiningJob" /\ onNewMiningJob(m)
             \/ m.t = "SetNewPrevHash" /\ onSetNewPrevHash(m)
    BY <1>1, Zenon DEF readLoop
  <2> QED  BY <2>1, NewJobKeeps, TipKeeps, Zenon
<1>2. CASE \/ Dial \/ LoopTop \/ SkipsFrame \/ ReadFails \/ HandsOver \/ GivesUp \/ TakesJob
           \/ Close \/ Cancel \/ UNCHANGED adapterVars
           \/ \E a \in Answers : SetupAnswered(a) \/ ChannelAnswered(a)
  <2>1. UNCHANGED <<pending, pendingOrder, heldTip, log, emitted>>
    BY Zenon, <1>2
    DEF Dial, LoopTop, SkipsFrame, ReadFails, HandsOver, GivesUp, TakesJob, Close, Cancel,
        SetupAnswered, ChannelAnswered, adapterVars, assembly
  <2> QED  BY <2>1, AdapterRests, Zenon
<1> QED  BY <1>1, <1>2, Zenon DEF AdapterNext

(* The client's jobs are the pool's (AssembledSound): each job that        *)
(* sv2JobAssembler emits has the newest tip and the newest merkle root of  *)
(* its id, no tip in between passed it over, its ntime is behind neither   *)
(* frame's, and a job announced for the tip in force is emitted at once,   *)
(* however ids are reused and whatever pendingCap evicts.                  *)
THEOREM JobsAreThePools ==
  ASSUME AdapterOK
  PROVE  AdapterSpec => []AssembledSound
<1>1. AdapterInv => AssembledSound
  <2> SUFFICES ASSUME AdapterInv PROVE AssembledSound  BY Zenon
  <2>1. ASSUME NEW i, NEW S \in SUBSET Nat, Newest(i, S) PROVE i = LastOf(S)
    <3>1. Newest(LastOf(S), S)  BY <2>1, Zenon DEF Newest, LastOf
    <3>2. i \in Nat /\ LastOf(S) \in Nat /\ i <= LastOf(S) /\ LastOf(S) <= i
      BY <2>1, <3>1, Zenon DEF Newest
    <3> QED  BY <3>2
  <2>2. ASSUME NEW k \in 1 .. Len(log) PROVE 1 .. k \subseteq Nat  OBVIOUS
  <2>3. \A k : TipsUpTo(k) \subseteq 1 .. k /\ \A id : Announced(id, k) \subseteq 1 .. k
    BY Positions, Zenon
  <2>4. ASSUME NEW n \in DOMAIN emitted
        PROVE  LET e == emitted[n].job
                   k == emitted[n].at
               IN  /\ e.prev = LastOf(TipsUpTo(k))
                   /\ e.root = LastOf(Announced(e.id, k))
                   /\ e.ntime >= log[e.root].ntime
                   /\ IF e.clean
                      THEN /\ e.prev = k
                           /\ e.ntime >= log[k].ntime
                           /\ \A i \in TipsUpTo(k) : i > e.root => log[i].id = e.id
                      ELSE e.root = k
    <3> DEFINE e == emitted[n].job
               k == emitted[n].at
    <3>1. k \in 1 .. Len(log) /\ JobSound(e, k)  BY Zenon DEF AdapterInv
    <3>2. TipsUpTo(k) \in SUBSET Nat /\ Announced(e.id, k) \in SUBSET Nat
      BY <2>2, <2>3, <3>1, Zenon
    <3> HIDE DEF e, k
    <3>3. e.prev = LastOf(TipsUpTo(k)) /\ e.root = LastOf(Announced(e.id, k))
      BY <2>1, <3>1, <3>2, Zenon DEF JobSound
    <3> QED  BY <3>1, <3>3, Zenon DEF JobSound, e, k
  <2> QED  BY <2>4, Zenon DEF AssembledSound, AdapterInv
<1>2. AdapterInit => AdapterInv  BY AdapterStarts, Zenon
<1>3. AdapterInv /\ [AdapterNext]_(adapterVars) => AdapterInv'  BY AdapterStep, Zenon
<1> QED  BY <1>1, <1>2, <1>3, PTL DEF AdapterSpec
=============================================================================
