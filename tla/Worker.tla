------------------------------- MODULE Worker -------------------------------
(***************************************************************************)
(* The SHA256d workers of internal/miner/worker.go as engine/setup.go      *)
(* starts them: NWorkers workers of Threads grind goroutines each, that    *)
(* share one job and divide its headers among them. A header is a nonce    *)
(* below Space and a timestamp roll. Start, Stop and the goroutines they   *)
(* race with are stepped at their locks and channel operations; hashing    *)
(* one nonce is one step.                                                  *)
(***************************************************************************)
EXTENDS Integers, FiniteSets

CONSTANTS
  NWorkers, Threads,   \* devices, and goroutines per device
  NonceStep,           \* the step shared by all of them
  Space,               \* number of nonces: 2^32
  BatchSize,           \* batchSize: nonces hashed between two looks at the job
  MaxSets,             \* bound: SetWork calls per worker
  MaxHashes            \* bound: hashes per thread and job

ASSUME SizesAssumption ==
  /\ NWorkers \in Nat \ {0} /\ Threads \in Nat \ {0} /\ Space \in Nat \ {0}
  /\ BatchSize \in Nat \ {0} /\ MaxSets \in Nat /\ MaxHashes \in Nat
\* startMinerWorkers: the step covers every (worker, thread) pair and fits in a uint32.
ASSUME StepAssumption ==
  NonceStep \in Nat /\ NWorkers * Threads <= NonceStep /\ NonceStep < Space

VARIABLES
  life,      \* worker -> "new", "started", "running", "closed" (shares and done closed)
  cancelled, \* workers whose own context is cancelled
  ctxDone,   \* the context they were all started under has ended
  stopper,   \* worker -> Stop: "no", "wait" (cancelReady), "join" (done), "returned"
  work,      \* worker -> [ver, job]: workVer and the job, 0 for none
  thread,    \* thread -> its locals
  hashed,    \* history: headers hashed
  repeated,  \* history: a header was hashed twice
  lag        \* history: thread -> hashes of a job since it was replaced

vars == <<life, cancelled, ctxDone, stopper, work, thread, hashed, repeated, lag>>
lifeVars == <<life, cancelled, ctxDone, stopper>>
historyVars == <<hashed, repeated, lag>>

WorkerSet == 0 .. NWorkers - 1
ThreadSet == WorkerSet \X (0 .. Threads - 1)

\* NonceOffset + threadID.
Start(t) == t[1] * Threads + t[2]

Init ==
  /\ life = [w \in WorkerSet |-> "new"] /\ cancelled = {} /\ ctxDone = FALSE
  /\ stopper = [w \in WorkerSet |-> "no"]
  /\ work = [w \in WorkerSet |-> [ver |-> 0, job |-> 0]]
  /\ thread = [t \in ThreadSet |->
       [pc |-> "none", ver |-> 0, job |-> 0, nonce |-> Start(t), roll |-> 0, i |-> 0, k |-> 0]]
  /\ hashed = {} /\ repeated = FALSE /\ lag = [t \in ThreadSet |-> 0]
-----------------------------------------------------------------------------
\* Start, up to the point where it has claimed the worker ...
StartClaims(w) ==
  /\ life[w] = "new"
  /\ life' = [life EXCEPT ![w] = "started"]
  /\ UNCHANGED <<cancelled, ctxDone, stopper, work, thread, historyVars>>

\* ... and from the publication of the cancel function to the running goroutines.
StartRuns(w) ==
  /\ life[w] = "started"
  /\ life' = [life EXCEPT ![w] = "running"]
  /\ thread' = [t \in ThreadSet |-> IF t[1] = w THEN [thread[t] EXCEPT !.pc = "top"]
                                    ELSE thread[t]]
  /\ UNCHANGED <<cancelled, ctxDone, stopper, work, historyVars>>

\* The goroutine that waits for the threads closes the channels.
Closes(w) ==
  /\ life[w] = "running" /\ \A t \in ThreadSet : t[1] = w => thread[t].pc = "exit"
  /\ life' = [life EXCEPT ![w] = "closed"]
  /\ UNCHANGED <<cancelled, ctxDone, stopper, work, thread, historyVars>>

\* Stop of a worker that was never started returns at once.
StopBegins(w) ==
  /\ stopper[w] = "no"
  /\ stopper' = [stopper EXCEPT ![w] = IF life[w] = "new" THEN "returned" ELSE "wait"]
  /\ UNCHANGED <<life, cancelled, ctxDone, work, thread, historyVars>>

StopCancelsEarly(w) ==
  /\ stopper[w] = "wait"
  /\ cancelled' = IF life[w] = "started" THEN cancelled ELSE cancelled \cup {w}
  /\ stopper' = [stopper EXCEPT ![w] = "join"]
  /\ UNCHANGED <<life, ctxDone, work, thread, historyVars>>

\* Stop waits for cancelReady before it cancels.
StopCancels(w) ==
  /\ stopper[w] = "wait" /\ life[w] # "started"
  /\ cancelled' = cancelled \cup {w}
  /\ stopper' = [stopper EXCEPT ![w] = "join"]
  /\ UNCHANGED <<life, ctxDone, work, thread, historyVars>>

StopReturns(w) ==
  /\ stopper[w] = "join" /\ life[w] = "closed"
  /\ stopper' = [stopper EXCEPT ![w] = "returned"]
  /\ UNCHANGED <<life, cancelled, ctxDone, work, thread, historyVars>>

ContextEnds ==
  /\ ~ctxDone
  /\ ctxDone' = TRUE
  /\ UNCHANGED <<life, cancelled, stopper, work, thread, historyVars>>

\* SetWork: the next job, or none. All workers are given the same jobs.
SetWork(w, idle) ==
  /\ work[w].ver < MaxSets
  /\ work' = [work EXCEPT ![w] = [ver |-> @.ver + 1, job |-> IF idle THEN 0 ELSE @.ver + 1]]
  /\ UNCHANGED <<lifeVars, thread, historyVars>>
-----------------------------------------------------------------------------
\* grind, top of the loop.
CheckContext(t) ==
  /\ thread[t].pc = "top"
  /\ thread' = [thread EXCEPT ![t].pc = IF ctxDone \/ t[1] \in cancelled THEN "exit" ELSE "reload"]
  /\ UNCHANGED <<lifeVars, work, historyVars>>

ReloadKeepsOld(t) ==
  LET th == thread[t] w == work[t[1]] IN
  IF th.ver = w.ver \/ w.job = 0 THEN th
  ELSE [th EXCEPT !.ver = w.ver, !.job = w.job, !.nonce = Start(t), !.roll = 0, !.k = 0]

\* Another version of the work restarts the thread at its own first nonce.
Reloaded(t) ==
  LET th == thread[t] w == work[t[1]] IN
  IF th.ver = w.ver THEN th
  ELSE [th EXCEPT !.ver = w.ver, !.job = w.job, !.nonce = Start(t), !.roll = 0, !.k = 0]

\* grind under the lock: with no job the thread sleeps and starts over.
Reload(t) ==
  /\ thread[t].pc = "reload"
  /\ thread' = [thread EXCEPT ![t] =
       [Reloaded(t) EXCEPT !.pc = IF Reloaded(t).job = 0 THEN "top" ELSE "batch", !.i = 0]]
  /\ lag' = [lag EXCEPT ![t] = IF Reloaded(t).ver = work[t[1]].ver THEN 0 ELSE @]
  /\ UNCHANGED <<lifeVars, work, hashed, repeated>>

AdvanceNoRoll(th) == [th EXCEPT !.nonce = (@ + NonceStep) % Space]

\* The next nonce; one that wraps rolls the timestamp.
Advance(th) ==
  IF th.nonce + NonceStep < Space THEN [th EXCEPT !.nonce = @ + NonceStep]
  ELSE [th EXCEPT !.nonce = @ + NonceStep - Space, !.roll = @ + 1]

\* k counts the hashes of this thread for this job: history.
Header(t) == [job |-> thread[t].job, nonce |-> thread[t].nonce, roll |-> thread[t].roll,
              by |-> t, k |-> thread[t].k]

SameHeader(g, h) == g.job = h.job /\ g.nonce = h.nonce /\ g.roll = h.roll

\* One iteration of the batch.
Hash(t) ==
  /\ thread[t].pc = "batch" /\ thread[t].k < MaxHashes
  /\ thread' = [thread EXCEPT ![t] =
       [Advance(thread[t]) EXCEPT !.pc = IF thread[t].i + 1 = BatchSize THEN "top" ELSE "batch",
                                  !.i = @ + 1, !.k = @ + 1]]
  /\ hashed' = hashed \cup {Header(t)}
  /\ repeated' = (repeated \/ \E h \in hashed : SameHeader(h, Header(t)))
  /\ lag' = [lag EXCEPT ![t] = IF work[t[1]].ver = thread[t].ver THEN 0 ELSE @ + 1]
  /\ UNCHANGED <<lifeVars, work>>

\* Beyond the bound the rest of the batch is not modelled.
SkipBatch(t) ==
  /\ thread[t].pc = "batch" /\ thread[t].k = MaxHashes
  /\ thread' = [thread EXCEPT ![t].pc = "top"]
  /\ UNCHANGED <<lifeVars, work, historyVars>>

ThreadStep(t) == CheckContext(t) \/ Reload(t) \/ Hash(t) \/ SkipBatch(t)
StopStep(w) == StopCancels(w) \/ StopReturns(w)

Next ==
  \/ ContextEnds
  \/ \E w \in WorkerSet :
       \/ StartClaims(w) \/ StartRuns(w) \/ Closes(w)
       \/ StopBegins(w) \/ StopStep(w)
       \/ \E idle \in BOOLEAN : SetWork(w, idle)
  \/ \E t \in ThreadSet : ThreadStep(t)

Spec == Init /\ [][Next]_vars

\* Every goroutine runs: Start once it has begun, Stop, the threads, the closer.
FairSpec ==
  /\ Spec
  /\ \A w \in WorkerSet : WF_vars(StartRuns(w)) /\ WF_vars(Closes(w)) /\ WF_vars(StopStep(w))
  /\ \A t \in ThreadSet : WF_vars(ThreadStep(t))
-----------------------------------------------------------------------------
Nonces == 0 .. Space - 1

TypeOK ==
  /\ life \in [WorkerSet -> {"new", "started", "running", "closed"}]
  /\ cancelled \subseteq WorkerSet /\ ctxDone \in BOOLEAN
  /\ stopper \in [WorkerSet -> {"no", "wait", "join", "returned"}]
  /\ work \in [WorkerSet -> [ver : Nat, job : Nat]]
  /\ thread \in [ThreadSet -> [pc : {"none", "top", "reload", "batch", "exit"}, ver : Nat,
                               job : Nat, nonce : Nonces, roll : Nat, i : Nat, k : Nat]]
  /\ hashed \subseteq [job : Nat, nonce : Nonces, roll : Nat, by : ThreadSet, k : Nat]
  /\ repeated \in BOOLEAN
  /\ lag \in [ThreadSet -> Nat]

\* Within a job no header is hashed twice by anybody: not by two threads, not by two
\* devices, not by one thread after its nonces wrapped around.
DistinctHeaders == ~repeated

\* A replaced or withdrawn job costs at most the rest of a batch per thread.
StaleWorkBounded == \A t \in ThreadSet : lag[t] <= BatchSize

\* Stop of a worker that was started returns, also when it races Start, and then no
\* goroutine of the worker is left.
StopCompletes ==
  \A w \in WorkerSet :
    stopper[w] = "wait" ~> stopper[w] = "returned" /\ life[w] = "closed"

\* What a thread has done is determined by its count: it stands where NonceStep from its
\* own start has taken it.
AtCount(t, r, n, k) == r * Space + n = Start(t) + k * NonceStep

\* A thread is where its count says, on the current or an earlier version of the work.
ThreadSound ==
  \A t \in ThreadSet :
    /\ AtCount(t, thread[t].roll, thread[t].nonce, thread[t].k)
    /\ thread[t].ver <= work[t[1]].ver
    /\ thread[t].job \in {0, thread[t].ver}
    /\ thread[t].pc = "batch" => thread[t].job # 0

WorkSound == \A w \in WorkerSet : work[w].job \in {0, work[w].ver}

\* Nothing was hashed that its thread has not passed, in this job or an earlier one.
HashedSound ==
  \A h \in hashed :
    /\ AtCount(h.by, h.roll, h.nonce, h.k)
    /\ h.job # 0
    /\ h.job < thread[h.by].ver \/ (h.job = thread[h.by].ver /\ h.k < thread[h.by].k)

\* Of a replaced job a thread has hashed at most what it has hashed in its batch.
BatchSound ==
  \A t \in ThreadSet :
    /\ lag[t] <= BatchSize
    /\ thread[t].pc = "batch" => thread[t].i < BatchSize /\ lag[t] <= thread[t].i

\* The inductive invariant behind DistinctHeaders.
PartitionInv == TypeOK /\ ThreadSound /\ WorkSound /\ HashedSound /\ DistinctHeaders
=============================================================================
