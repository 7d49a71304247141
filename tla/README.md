# Otedama in TLA+

Otedama is a Bitcoin miner written in Go. It keeps one mining session open with
one of several pools, spreads the pool's work over the devices of the machine,
submits the shares they find, and lets prices, provider quotes and the pool's
behaviour decide when to hash, for whom, and when to leave. Around that it keeps a
wallet, a configuration, a service definition and a log. This directory holds a
TLA+ model of it, the TLC configurations that check the model on small instances,
and proofs of its main invariants for every value of the constants. Paths below
are relative to the repository root (`src/` here).

`PROJECT.json` lists, for every definition, the lines of code it stands for; for
every property, a plausible bug of that code that violates it (definitions such as
`LoadOrRecreate` are those bugs and are used by nothing else); and the hazards of
the code with the properties that cover them.

## 1. The system

| part | code | module |
|---|---|---|
| Reconnect loop: pool and address at hand, degraded marks, delay, readiness | `internal/engine/run.go`, `setup.go` | ReconnectLoop |
| Stratum V2 session: job table, tip, targets, open submits, verdicts | `run.go` (`runSession`) | SV2Session |
| Stratum V2 client: handshake answers, read loop, job assembler | `internal/poolproto/stratumv2` | SV2Adapter |
| Stratum V2 bytes: messages, frames, encrypted records | `internal/stratum` | SV2Codec, SV2Wire |
| Stratum V1 client: gate and stash, calls, channels, Close | `internal/poolproto/stratumv1` | StratumV1, JobFeed |
| Stratum V1 session: last job, difficulty, submit goroutines | `run.go` (`runSessionV1`) | V1Session |
| Workers: threads, nonces, rolls, Start and Stop | `internal/miner/worker.go` | Worker |
| Arbitration: which stream each device works for | `internal/arbitration` | Arbitration |
| Arbitration loop, price curtailment, dispatch of jobs | `engine/arbitrate.go`, `run.go` | MiningControl |
| Providers and fan-in: quotes on their way | `internal/provider`, `engine/fanin.go` | QuoteFeed |
| One run of the engine, from flags to exit code | `cmd/otedama/run.go`, `run.go`, `setup.go`, `hal`, `httpserver` | EngineRun |
| Price and hashrate feeds | `internal/rates` | RateFetch |
| Hashrate, uptime, earnings and drop accounts | `engine/stats.go`, stats ticks of `run.go` | Telemetry |
| Wallet files | `internal/lightning`, `cmd/otedama/wallet.go` | Wallet, AtomicStore |
| Configuration layers, validation, pool registry | `internal/config`, `internal/poolproto/poolproto.go` | Config |
| Service installation | `internal/daemon`, `cmd/otedama/service.go` | Service |
| Capped log file | `cmd/otedama/logfile.go` | LogFile |
| Addresses, recovery phrases, coinbase scan | `internal/btccrypto`, `internal/lightning/seed.go` | Codecs |

How they interact. `Run` starts the workers, the price goroutine, the arbitration
loop and the providers, and then runs the reconnect loop until shutdown. The loop
dials a pool and runs one session at a time. A session, the price goroutine and the
arbitration loop write the same workers without a common lock: each reads a gate or
the pause set first and acts on it later. Found shares go through one merged channel
that outlives sessions, so a session can take shares of its predecessor. A V1 session
runs beside the client's read loop, and its submit goroutines live until their call
returns, possibly after the session they belong to. Providers quote through bounded
channels and a fan-in into the arbitration loop. Statistics read worker counters that
live as long as the engine from accounts that live as long as a session. Other
processes (`wallet change-passphrase`, `service install`) write the same files.

What makes it hard, and what must hold:

- failover: no pair of address and pool is tried twice in a row, a marked pool is
  left alone, an outage does not change who is paid, nothing of a session survives it;
- jobs and tips in any order: a worker never hashes a job on the wrong tip, and
  always the newest one it can; no header is hashed twice;
- verdicts that are late, repeated or exaggerated: no share is counted twice, and a
  pool is judged by its own shares only;
- two goroutines on the V1 client's stash, channels and pending calls: nothing is
  lost or applied twice, no channel is sent on after it was closed, no call waits for
  ever;
- three goroutines on the workers: no device is routed on an expired price or moved
  without a gain, and an idle one ends up without work;
- everything ends when the context does;
- a killed process or a power loss leaves the wallet whole and the same wallet;
- what the program decodes (frames, addresses, phrases, transactions) is what was
  written.

## 2. The modules

Every module abstracts data and keeps control: a job is its number, its kind and the
tip at which it came; a target is a small number with 0 for "none"; a quote is a
device and a round, or a few integers. History variables record what a property needs
to speak of the past; the variables' comments name them, and no step of the program
depends on them (the pool of SV2Session consults one, `born`, to play a pool with
fresh job ids). Two critical sections of one function are two steps.

**ReconnectLoop.** `runReconnectLoop`, `nextFailoverPool` and the backoff. A session is
reduced to its outcome (dial failure, established and ended, refused, yield degraded,
fatal) and to which pools are reachable (`up`, changed by the network at any time).
`Accepts` says which pool accepts which payout address; `V2Pools` which pools speak
Stratum V2, where a refusal is fatal. The context may be cancelled in every state.

**SV2Session.** `runSession` after the handshake, one action per message type, and
taking a share, the limiter's refill, the yield check, opening and ending. `startJob`
reads the curtailment gate and a later step `Arm` calls `updateWork`, because the price
goroutine can run in between. The pool chooses every message freely; `FreshIDs`
restricts it to one that never reuses a job id. The code does not look at the channel
of a SetNewPrevHash (run.go:1300), so the model does not either.

**SV2Codec, SV2Wire, SV2Samples.** The encoder and decoder of every message type, byte
by byte and with the code's widths; a writer that frames them, plainly or through
`EncryptedConn`; a connection that may be cut at any byte; and the reader
(`ReadFrame`, `DispatchFrame`). The peer may also send misshapen payloads, or a frame in
two records (`Splits` says where it may break it). The AEAD is
external: a ciphertext byte carries the nonce it was sealed under. `SV2Samples` has one
message of each type with the limits of its fields.

**SV2Adapter.** `Dial`, `Negotiate` with every answer, the read loop with
`sv2JobAssembler`, whose emit blocks on a bounded channel, `Close` and cancellation. The
loop looks at the context and at the closed flag only before it blocks in `ReadFrame`, so
a frame that arrives after either is still handled.

**StratumV1, JobFeed.** The read loop, the negotiation, calls with their timers, and
`Close`. The two goroutines that can replay the stash each have a queue in hand
(`todo`), and may apply messages at the same time: what a handler does before it takes
`sendMu` (complete the job, store the difficulty, set the warned flag; `AheadOfLock`) is
one step, whose result the goroutine carries (`carry`) into the step under the lock. What
the pool sends is free; it answers a request once it was written, and may send answers
that no call waits for or that it gave before (`MaxStray`). `JobFeed` is the promise V1Session
relies on: a queue that loses only the oldest jobs and only for a newer one, in which a
clean job discards what waits.

**V1Session.** `runSessionV1` on top of such a feed. While `DialURL` negotiates (phase
`dial`) the read loop and the negotiation's replay both store and announce difficulties
and deliver jobs; afterwards the read loop alone does. A job has the name the pool gave
it, which the pool may use again, and the engine compares what `v1JobWireID` makes of it:
the value of a decimal name, the hash of any other (`WireID`, any function in the proofs,
one with a collision in the run). Submit goroutines (`flights`) carry
the session they belong to and report whenever they like. The wait a pool can ask for
with client.reconnect is the phase `parked`.

**Worker.** Workers of several threads over a nonce space of any size, `Start`, `Stop`,
`SetWork`, and `grind` one hash at a time with its wrap-around and ntime roll.

**Arbitration, MiningControl.** `Decide` and what it calls as operators (hysteresis,
floor, families, confidence, non-finite yields), and the three goroutines that write the
workers: arbitration ticks over quotes that age, dispatch of a job worker by worker, and
the price goroutine.

**QuoteFeed.** Polling providers with `sendQuote` in its selects, the forwarders, the
merged channel with its closer, and the receiving loop.

**EngineRun.** The phases of `cmdRun` and `Run` with the deferred stops in their order,
wallet set-up, device detection with its driver goroutines, the HTTP server, and a
signal at any moment. What runs inside is abstracted to what the modules above show:
a cancelled goroutine ends.

**RateFetch.** Single flight and its followers, sources that fail or report anything, the
plausible band, agreement, median and cache; the hashrate feed alike.

**Telemetry.** The statistics tick with its window, monitor, uptime, earnings and drop
accounts over several sessions. Time is in half seconds, and one tick happens at one
instant: the code reads the clock for the window, the uptime and the earnings in turn
(run.go:1108, 1136, 1142), microseconds apart.

**Wallet, AtomicStore.** Every system call on `wallet.dat`, the fingerprint and the
temporaries is a step of one of several processes; each may be killed between two, and
power may be lost, which keeps of an unsynced file anything and of a renamed entry
either version. That one engine runs on a data directory at a time is an assumption
about the operator: the code takes no lock. `AtomicStore` is the promise of `save`.

**Config, Service.** Defaults, file, environment and flags with their origins, warnings,
`Validate` (not-a-number and infinity included), `FromURL`, `Lookup`; and service
install, uninstall, status on systemd, launchd and Windows with managers that fail,
writes that fail before or after the old file is truncated, and
the engine they later start in an environment of its own.

**LogFile.** `Write` and `rotateLocked` over a file system whose calls may fail, `Stat`
included, after which the size the code goes by may be less than the file's.

**Codecs.** Bech32 and Bech32m, BIP-39 phrases bit by bit, and the scan of a coinbase
transaction. SHA-256 appears as a constant operator for the checksum's first byte.

The `MC` modules give constants their values, and join parts: in each of the six that
the passing runs use, a variable `part`, fixed by the initial state, says which component
a behaviour runs while the variables of the others rest. Such a module EXTENDS the
components it joins, so the property a run checks is the very definition a theorem of
section 5 is about, and instantiates a component anew only for further values of its
constants. Components that are joined so have names of their own for their initial
states, next-state relations and specifications (`SessionSpec`, `ControlSpec`,
`WalletSpec`, `RateSpec`, `AdapterSpec`, `LogSpec`, `StatsSpec`).

## 3. The runs

| run | module, configuration | states | time |
|---|---|---|---|
| `reconnect` | MCReconnect, `Reconnect.cfg` | 107,142 | 1.5 min |
| `sv2` | MCSV2, `SV2.cfg` | 2,826,451 | 2.5 min |
| `v1` | MCV1, `V1.cfg` | 1,249,690 | 3 min |
| `mining` | MCMining, `Mining.cfg` | 211,438 | 3.5 min |
| `engine` | MCEngine, `Engine.cfg` | 136,406 | 1.5 min |
| `host` | MCHost, `Host.cfg` | 879,141 | 2 min |

**reconnect.** The loop and the feeds. Three pools and two addresses; the first two
pools refuse the primary address; the second pool speaks V2; 14 attempts, or no limit.
Three pools are the fewest with a pool before, at and after the one at hand, which the
wrap-around of `nextFailoverPool` and the skipping of marks need; 14 attempts are two
sweeps over the six pairs and a third begun. `LoopInv`, the inductive invariant of the
proofs (readiness, gauge and work end with the session, a marked pool is not dialled,
the delay after a working session is the initial one, an address that worked is kept);
`NoHammering`; `SleepsAfterSweep`; and under fairness `StopsOnCancel` and
`UnmarkedPoolReached`: a pool that stays reachable, accepts every address and is
unmarked gives sessions again and again, whatever the others do. The feeds have one
source that may report anything, at and just past the limits of agreement, and two
fetches: `FeedTrusted`, and under fairness `FetchReturns`.

**sv2.** Five parts. Three reused job ids over a table of two (the fewest that evict and
refill it), two tips, targets that do not decode, curtailment; one session whose third
share exceeds the table of open submits; two sessions of two shares, which leftovers and
old verdicts need; a message of each type followed by short ones over either transport,
in one record or broken inside the header of the frame or soon after it;
and the adapter with four frames over a channel of one. `SessionInv` (section 5),
`WorkTracksActive` whatever the pool sends (`missed` records that the curtailment gate
withheld the active job or took it away, or that nothing gave it a target),
`SubmitsCurrent` for pools with fresh ids, `DecodedFaithfully`, `AssembledSound`.

**v1.** Five parts. Three jobs through a stash of one and a queue of two, both of which
overflow; two messages of any of the seven kinds; a reconnect directive with a submitter
whose calls race Close, and one answer that nobody asked for; the engine over two sessions
with two jobs of three names, two of which have one hash, a retarget (one difficulty
converts to no target) and curtailment; and one session with three retargets, the fewest
that let replay and read loop cross and a later one put things right. Each message is in
one place and applied once
(`EachMessageOnce`), nothing takes effect before authorization (`GateHolds`), the client
implements the job feed (`FeedsJobs`), a response channel is settled once
(`SettledOnce`), a closed one never sent on (`NoSendAfterClose`); the workers follow the
pool (`WorkFollowsPool`), every share gets one verdict (`EveryShareAccounted`), and a
session is judged by its own submits (`YieldOwnShares`). Two of them say how far the code
goes: if the replay and the read loop set the difficulty at the same time, or the
channels close under the replay, the workers may have the difficulty announced last
instead of the one stored last, until the next retarget (`crossed`); and that no share is
submitted for another job than its own holds as long as the pool's job ids have distinct
wire ids (`DistinctIDs`), over all sessions, since shares outlive them.

**mining.** Two threads with step two over a nonce space of three, so that the wrap
changes the residue; two devices, two streams, one of which takes any device, quotes that
are undated, late, ahead or not finite; two providers, one of which publishes more than
its channel holds. `DistinctHeaders`, `StaleWorkBounded`, `StopCompletes`;
`MirrorsAllocation`, `RoutedOnFreshQuote`, `SwitchOnlyOnGain`, `IdleDrains`; `FeedStops`.

**engine.** What must end. `CallsReturn` and `CloseReachesEngine` of the V1 client (one
message suffices: a reconnect directive is the only one that starts a Close);
`ShutdownCompletes` for a signal in any phase, except that a first run waits for the
answers to its backup questions.

**host.** The service over two commands, two config places, three environments
(`LayersHonest`, `StartsRunnable`); the wallet with two processes, three commands, two
seeds, two faults (`AtomicReplace`, `SeedKept`); a log of cap three over ten writes and
two failing calls, which is three rotations (`LogKeepsTail`); two sessions of the accounts
(`NoPhantomUptime`); and one call of each encoding on sampled inputs: an address of each
kind with an edit at every place, entropies and phrases, transactions at the boundaries
of a compact size (`SlipsRefused`, `PhraseFaithful`, `CoinbaseReadRight`).

Deadlock is checked in `reconnect` and `v1`, where an explicit stuttering step says in
which states the system may stop. It is not in the other four: a finished call, a
finished run, an exhausted bound ends a behaviour there, and that what must end does so
is what their liveness properties say.

### What the violations show

Each violation run checks one sentence of the repository.

- `reconnect_redirect`: run.go:699-700 says an outage "can never silently redirect
  earnings to a different address". If the network comes back between the last failed
  dial with the primary address and the first with the backup, the backup establishes
  the first session and is kept for good.
- `sv2_curtailed`: run.go:1086-1088 says workers stay idle while curtailed. A gate raised
  between the check in `startJob` and `updateWork` is missed, and the workers are idled
  once per episode only.
- `v1_order`: stratumv1.go:348-350 says a stashed message never applies behind a newer
  one. The stash is taken under the lock and applied after it is released, and a message
  read in between goes first.
- `v1_stale`: docs/CATEGORY_AUDIT.md:8151 says the curtail life cycle "can never re-arm a
  stale job". A job dropped while curtailed is not recorded, and the next retarget
  re-issues the one before.
- `quote_drop`: polling.go:96-98 says the oldest quote is dropped "so the freshest
  estimate always wins". Between the two selects the fan-in may empty the channel of
  older quotes, and the one dropped is the freshest of another device.
- `worker_drops`: docs/CATEGORY_AUDIT.md:8263 says "no drop is lost or double-counted". A
  new session starts its account at 0 while the workers' counters go on.

### Further configurations

These check a sentence of the repository that the model contradicts as well; they are
smaller points and not among the listed runs.

| configuration, module | sentence | what happens |
|---|---|---|
| `SV2AdapterClose`, SV2Adapter | dialer.go:236-238, the loop exits on connection close | it stays blocked in emit until the context ends (and, after a cancellation, in `ReadFrame` until the connection closes) |
| `EngineExit`, EngineRun | docs/API.md:39, a signal is a clean exit | one during device detection is reported as missing hardware (setup.go:47) |
| `WalletPhrase`, Wallet | docs/CATEGORY_AUDIT.md:8423, the phrase of a new wallet is shown | a kill between save and print leaves a wallet whose phrase nobody saw |
| `LogRotate`, LogFile | logfile.go:21-24, a failed rotation loses no writes | when the reopening fails the write is lost |
| `ServiceCarveOut`, MCService | service.go:262-264, the unit's writable path is the one used | the service resolves its data directory anew at start |
| `ServiceUninstall`, MCService | docs/API.md:107, uninstall stops the service | the failure of `disable` is ignored (service.go:231) |

Four more can be read off an action without a configuration: a V1 difficulty is stored
before `sendMu` is taken (stratumv1.go:385-386), so of two that replay and read loop set
at once the older may be announced last, where stratumv1.go:394-395 says the consumer
always sees the newest retarget, never a stale one; a V2 pool's refusal of the
channel is fatal (run.go:2051) although CHANGELOG.md:7938-7940 says a refused address
leads to the next one; a frame cut right after its header is io.EOF where frame.go:268-269
says io.ErrUnexpectedEOF; and `Encrypt` moves the nonce before it refuses an oversized
payload, where noise.go:300-302 refuses it so as not to desynchronise the stream.

Weaknesses met while modelling that no sentence denies: a marked pool that recovers is
not retried while the only unmarked one stays down; a V1 message stashed just after the
replay waits for the next one; V1 workers hash on during a reconnect wait; a V1 pool that
uses a job id again, or two ids of one hash, is sent shares of the earlier job under the
later one's name; `service status` on macOS says running of a label that is only loaded; a
log whose size could not be read may outgrow its cap; a scrape can
fall between the two steps of `setActivePayout`; two engines on one empty data directory
would each create a wallet.

## 4. Fairness

Safety parts assume none. In every liveness property the fairness is weak and of the
program's own steps: a goroutine that can run is scheduled, and a timer that is armed
fires.

- ReconnectLoop: the loop's steps, and those that end a dial or handshake, which have
  deadlines. No healthy session must end, no network must come back.
- StratumV1: read loop, negotiation, Close, each call and its timer, and the read that
  fails on a closed connection. The pool owes no answer and no message.
- Worker: Start once begun, Stop, the threads and the closer.
- MiningControl: the arbitration ticker, dispatch and price goroutine. Ticks are fair
  although quotes may keep arriving, since a Go select chooses among ready cases at
  random. No job, quote or price is owed.
- QuoteFeed: providers, forwarders, closer, and the loop's exit; the loop owes no
  progress before the context ends.
- EngineRun: main, drivers, goroutines; not the user, the signal or the pool.
- RateFetch: callers, and the end of every HTTP call, which has a timeout of 10 s.

## 5. The proofs

TLAPS checks all of them with its SMT, Zenon and LS4 backends. The only assumptions are
the named `ASSUME`s of ReconnectLoop, SV2Session, StratumV1 and Worker and these
definitions, which the theorems on the other components take as a hypothesis:
`SourcesOK` of RateFetch, `AdapterOK` of SV2Adapter, `SessionsOK` of V1Session,
`ConstantsOK` of MiningControl and of Service, `WalletOK` of Wallet, `CapOK` of LogFile.
They say that constants have the types the code gives them, that a capacity is not zero
(a log file has room for its marker and a write), and that what an honest source reports
is plausible. TLC evaluates all of them in the runs. No theorem depends on a bound of
section 3.

There are 40 listed theorems. 27 of them state a property that a run checks, by the same
definition, which leaves nine liveness properties and four on encodings to TLC alone; the
others are consequences of the invariants that a reader of the code will look for.

**NetworkProofs**, on the reconnect loop and the feeds. The loop, for any number of
pools and addresses, any acceptance relation, any attempt limit. None of the properties
is inductive. `LoopInv` adds: marks come only from sessions, so there are none before
the first session or with one pool, and the pool at hand is never marked (`MarksSound`);
what was dialled since the last sleep lies lexicographically before the current pair
(`WalkOrdered`); no earlier pair that may be dialled was skipped (`WalkComplete`); the
delay is the initial one from a working session to the next sleep (`BackoffSound`). The
walk's order makes `NoHammering` a matter of progress, and its completeness gives
`SleepsAfterSweep`. The lemma `NextFailoverPool` characterises the cyclic scan and rests
on the least element of a set of naturals. `OneSourceCannotMove` (`FeedTrusted`), for
any readings, any band and any interleaving of callers: a value is cached only by a
fetch that all sources answered or failed (`RateInv`), so the theorem is about one set
of readings. Of at most three the usable ones are sorted, case by case on their number
(`Sorted`, `Ranks`); of three the median lies between two honest ones or is one, and two
count only if they agree (`Trusted`).

**SV2SessionProofs**, for any job ids, targets, caps and bounds, with or without
curtailment, whether or not the pool reuses ids. `SessionInv` adds: a job is active only
at a tip it is valid for, and arming happens only in a live session with an active job
(`ActiveSound`); workers are idle between sessions, the gate is open without
curtailment, and what was assigned decodes (`IdleSound`); this session's verdicts and open
submits never exceed the shares it took (`SessionBounded`). From it: the job table never
drifts, headers are valid, no verdict counts twice, open submits are bounded, a yield
verdict is justified. `WorkNeverLags` (`WorkTracksActive`, for any pool): each step that
changes the active job, the tip or the share target sends the workers' new work through
`startJob` or takes it away, and `missed` says when the gate or a missing target stopped
it.
`SubmitsStayCurrent`: a pool that never reuses a job id is only sent shares of this
session and tip. Shares wait in a channel that outlives sessions, so the invariant
`FreshInv` follows them there: one that has the active id is of this session and tip, and
an id announced for the tip still to come has no shares yet.

**WorkProofs**, on the workers and on the adapter that feeds them.
For any number of workers and threads, any batch size, and any nonce space larger than a
step that covers all threads, `PartitionInv` says where a thread is: `roll * Space +
nonce` is its start plus a multiple of the step, and it has hashed only what it has
passed. Starts are distinct and below the step, quotient and remainder are unique, so a
header tells its thread and its place in that thread (`HeaderTellsThread`), and a hash at
a new place is a new header (`HashIsNew`). Hence `HeadersAreDistinct`, also where the
step does not divide the nonce space. `StaleWorkIsBounded`: hashes on replaced work fit
into the batch that was begun, whose count bounds them (`BatchSound`).
`JobsAreThePools`, for any job ids, ntimes, number of frames and a table of at least one
job: `AdapterInv` says that a pending id leads to its newest announcement, that every tip
since then named that id, and that the tip held is the newest, which a clean job and a
job for the tip in force need.

**StratumV1Proofs**, for any number of messages and submitters and any capacities.
`SessionFeedsJobs`: the client implements JobFeed under the mapping that takes its job
channel for the queue, with the typing invariant `FeedInv`, which also says that a job
carried to the lock is one that can be queued; `sendJob` loses nothing, the oldest job
or all of them, whichever goroutine calls it, and every other step takes a job, closes
the feed or stutters. `ResponsesSettleOnce`: `CallInv` adds that a settled call is not
pending, that ids in hand are fresh and distinct, and that a response about to be
delivered was removed from the pending calls by the read loop itself; it asks nothing of
the answers, which may be repeated or to no call at all. `MessagesStayOnce`:
`MessageInv` spreads the messages sent over the wire, the reader's hand, the stash, the
queues in hand of the two goroutines, the applied and the dropped ones; each step moves
messages between two places, and a goroutine has a queue only while it applies it.
`GateStaysShut`: `OpenedInv` adds that before authorization the read loop only stashes
and the negotiation has not reached the replay. `NothingSentAfterClose`: a step that
sends checks the flag under the lock that closes.

**V1SessionProofs**, for any jobs, names and wire ids, difficulties, capacities and number
of sessions and shares. `WorkersFollowPool`: what waits in the channel is the difficulty
announced last; unless the two goroutines crossed, one of them at most is announcing, and
what it announces was stored last; and the last job taken is armed or with the workers at
the difficulty applied last (`FollowInv`; `PhaseInv` says that after the negotiation the
read loop is alone). `SharesStayAccounted`: a submit goroutine is new when it is
spawned, so the count of those in flight moves with the counters (`CountInv`).
`SessionsJudgedAlone`: no goroutine is of a session to come; and every job in hand, queued,
armed or ground, and every share found, goes by the wire id that was recorded for its
number (`StrayInv`), so equal wire ids mean the same job when those ids are distinct.

**MiningControlProofs**, for any devices, families, integer yields and times of quotes,
rates, margins and timeouts. `RoutesAreFresh`: a decision routes a device only to a
candidate, a candidate comes from an entry that survived pruning, and no quote was
received longer ago than its entry is old (`MarketInv`), whatever time the quote claims.
`SwitchesPay`: the chosen candidate is the first in the order of scores, so hysteresis
compares the stream held with the best one; the lemmas `BestIsFirst`, `Choice` and
`Decisions` say so of `Decide` and of what it calls. `BooksFollowAllocation`
(`MirrorsAllocation`) is both halves of the books: during `reconcileArbPauses` the pause
set is right up to the device at hand (`PauseInv`), and the activity map adds up to what
the decision expected to earn (`ActivityInv`). The latter is about sums over finite sets
of any size. A sum is characterised by the relation a recursion would satisfy, for which
every finite set has exactly one value (`SumsExist`, `SumsAgree`, by induction over the
subsets of one set); then sums split over disjoint sets (`SumUnion`), and a sum over
devices is the sum over streams of the sums over their devices (`SumByGroup`).

**HostProofs**, on the wallet, the accounts and the log. `SaveIsAtomic` and `SeedStays`,
for any number of processes, temporaries, seeds and passphrases, with kills, sweeps and
power losses between any two system calls: `WalletInv` says what each process relies on
between two steps (`ProcInv`). One that generates found no wallet and is the only run;
any other that saves holds the wallet's seed; its temporary, unless swept, holds what it
wrote and is synced before the rename; and what is durable has the seed of what is
visible. The first is a refinement: a rename is a `Put` of AtomicStore, `Flush` and
`PowerLoss` are its own, everything else stutters. `UptimeIsReal`: `StatsInv` ties the
accountants to the window they trust, both primed by one tick and on one clock.
`LogStaysWhole` (`LogKeepsTail`), for any cap, any number of writes and whichever calls
of a rotation fail: `LogInv` adds that the size is that of the file, or less once a
`Stat` failed, that a file is full when it is renamed away, and that the marker goes
into an empty one. That the two files are a tail of the writes moves through a write by
`TailGrows` and through a rotation by `TailOfTail`.

**ServiceProofs**, for any flags, environments and files, on each of the three systems.
`ServiceInv`: every definition on disk, loaded or running is one that an install wrote
whole, and what runs was validated. `LayersStayHonest` then follows from lemmas on the
layers (a flag that is set wins, a numeric variable wins or is warned about), and
`StartsAreRunnable` from lemmas on `Validate`, `FromURL` and `Lookup`.

**Refinements.** StratumV1 implements JobFeed (`FeedsJobs`) and Wallet implements
AtomicStore (`AtomicReplace`); both are model-checked and proved.

**Only model-checked**, and why:

- all liveness (`StopsOnCancel`, `UnmarkedPoolReached`, `StopCompletes`, `IdleDrains`,
  `FeedStops`, `CallsReturn`, `CloseReachesEngine`, `ShutdownCompletes`, `FetchReturns`):
  fairness and ENABLED are beyond the provers;
- `SlipsRefused`, `PhraseFaithful`, `CoinbaseReadRight`: what these codecs compute for
  every input needs induction over data; they are checked on sampled inputs at the limits
  of their fields;
- `DecodedFaithfully`: a proof would have to go through the byte layout of every message
  type, and would be several times longer than the model; it is checked on one message of
  each type, followed by short ones, with the stream cut at every byte.

## 6. Not modelled

- Cryptography: SHA-256, the Noise handshake, secp256k1, key derivation, AES-GCM. Where
  its outcome matters it is a constant or an external operator.
- Base58 and 256-bit targets: arithmetic on long integers without state, out of reach of
  small instances. A target decodes or does not.
- The V1 parsers (`parse.go`): stateless checks of JSON parameters; lines that do not
  parse are no steps.
- The yield formulas of the providers, source health and clock skew of the feeds: data
  that reach gauges and log lines only, or enter the model as free choices.
- Metrics text, HTTP handlers, dashboard, translations, doctor, completion, version:
  single-threaded formatting.
- TLS and sockets: a connection delivers in order or fails.
- Wall-clock time, except where it is counted (Telemetry, ages of quotes): a timer is a
  step that may happen whenever it is armed. The jitter of the backoff is left out.

`PROJECT.json` has a component for every part with the reason.
