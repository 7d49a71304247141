------------------------------ MODULE RateFetch ------------------------------
(***************************************************************************)
(* The two feeds of internal/rates: the BTC/USD price, whose Fetch         *)
(* coalesces concurrent callers, and the network hashrate, which only its  *)
(* background goroutine fetches. A behaviour is about one of them. A       *)
(* reading is an integer, 0 standing for a source that failed (transport   *)
(* error, HTTP status, unparsable or non-finite number); a cached median   *)
(* is stored doubled, so that the mean of two readings is exact.           *)
(***************************************************************************)
EXTENDS Integers, FiniteSets, FiniteSetsExt, Sequences

CONSTANTS
  Faulty,                 \* the one source of a feed that may report anything
  Honest, Odd,            \* readings of the others; further readings of the faulty one
  Lo, Hi,                 \* the plausibility band
  MaxFetches              \* bound

VARIABLES
  feed,         \* "price" or "hashrate"
  inflight,     \* Fetcher.inflight: the number of the call, or 0
  calls,        \* calls so far, each [done, err]
  fetching,       \* caller -> [pc, call, err]
  answers,      \* source -> its reading in the fetch under way, or Waiting
  value,        \* cached doubled median, or 0
  basis         \* history: the readings behind it

rateVars == <<feed, inflight, calls, fetching, answers, value, basis>>

defaultSources == {1, 2, 3}       \* Coinbase, Kraken, CoinGecko
defaultHashrateSources == {1, 2}  \* mempool.space, blockchain.info
Fetchers == {"background", "other"}

Waiting == -1
ReadingsOf(s) == {0} \union Honest \union IF s = Faulty THEN Odd ELSE {}
Resting == [pc |-> "idle", call |-> 0, err |-> FALSE]

RateInit ==
  /\ feed \in {"price", "hashrate"}
  /\ inflight = 0 /\ calls = << >> /\ fetching = [c \in Fetchers |-> Resting] /\ value = 0
  /\ answers = [s \in (IF feed = "price" THEN defaultSources ELSE defaultHashrateSources) |-> Waiting]
  /\ basis = answers
-----------------------------------------------------------------------------
InBand(r) == {s \in DOMAIN r : Lo <= r[s] /\ r[s] <= Hi}

\* The readings within the band, lowest first.
Usable(r) ==
  LET sorted == CHOOSE q \in [1 .. Cardinality(InBand(r)) -> InBand(r)] :
                  \A i, j \in DOMAIN q : i < j => q[i] # q[j] /\ r[q[i]] <= r[q[j]]
  IN  [i \in DOMAIN sorted |-> r[sorted[i]]]

AgreeAlways(q) == TRUE
Agree(q) == ~(Len(q) = 2 /\ q[2] > q[1] * 4)

Median(q) == LET n == Len(q)
             IN  IF n % 2 = 1 THEN 2 * q[n \div 2 + 1] ELSE q[n \div 2] + q[n \div 2 + 1]

Cache(q) ==
  IF q # << >> /\ Agree(q) THEN value' = Median(q) /\ basis' = answers ELSE UNCHANGED <<value, basis>>
-----------------------------------------------------------------------------
CallsAlone(c) ==
  /\ fetching[c].pc = "idle" /\ Len(calls) < MaxFetches
  /\ inflight' = IF feed = "price" THEN Len(calls) + 1 ELSE 0
  /\ calls' = Append(calls, [done |-> FALSE, err |-> FALSE])
  /\ fetching' = [fetching EXCEPT ![c] = [pc |-> "fetch", call |-> Len(calls) + 1, err |-> FALSE]]
  /\ UNCHANGED <<feed, answers, value, basis>>

\* Fetcher.Fetch: a caller joins the fetch in progress or leads one.
Fetch(c) ==
  /\ feed = "price"
  /\ \/ inflight = 0 /\ CallsAlone(c)
     \/ /\ inflight # 0 /\ fetching[c].pc = "idle"
        /\ fetching' = [fetching EXCEPT ![c] = [pc |-> "wait", call |-> inflight, err |-> FALSE]]
        /\ UNCHANGED <<feed, inflight, calls, answers, value, basis>>

\* StartBackground of the hashrate fetcher: at once and on every tick.
StartBackground == feed = "hashrate" /\ CallsAlone("background")

\* fetchOne of one source; a cancelled leader and the client's timeout are readings of 0.
fetchOne(s, v) ==
  /\ \E c \in Fetchers : fetching[c].pc = "fetch"
  /\ answers[s] = Waiting /\ answers' = [answers EXCEPT ![s] = v]
  /\ UNCHANGED <<feed, inflight, calls, fetching, value, basis>>

Answered == \A s \in DOMAIN answers : answers[s] # Waiting
Forget == answers' = [s \in DOMAIN answers |-> Waiting]

\* doFetch has all answers: the leader caches the median, or fails and leaves the cache,
\* and Fetch clears inflight.
doFetch(c) ==
  /\ feed = "price" /\ fetching[c].pc = "fetch" /\ Answered /\ Forget
  /\ LET q == Usable(answers)
     IN  Cache(q) /\ fetching' = [fetching EXCEPT ![c].pc = "close", ![c].err = ~(q # << >> /\ Agree(q))]
  /\ inflight' = 0
  /\ UNCHANGED <<feed, calls>>

ClosesOnSuccess(c) ==
  /\ fetching[c].pc = "close" /\ fetching' = [fetching EXCEPT ![c] = Resting]
  /\ calls' = [calls EXCEPT ![fetching[c].call] = [done |-> ~fetching[c].err, err |-> fetching[c].err]]
  /\ UNCHANGED <<feed, inflight, answers, value, basis>>

\* The leader publishes the outcome and returns; another fetch may have begun meanwhile.
Closes(c) ==
  /\ fetching[c].pc = "close" /\ fetching' = [fetching EXCEPT ![c] = Resting]
  /\ calls' = [calls EXCEPT ![fetching[c].call] = [done |-> TRUE, err |-> fetching[c].err]]
  /\ UNCHANGED <<feed, inflight, answers, value, basis>>

\* A coalesced caller takes over the outcome, or leaves when its own context ends.
Returns(c) ==
  /\ fetching[c].pc = "wait" /\ calls[fetching[c].call].done
  /\ fetching' = [fetching EXCEPT ![c] = Resting]
  /\ UNCHANGED <<feed, inflight, calls, answers, value, basis>>

Leaves(c) ==
  /\ fetching[c].pc = "wait" /\ fetching' = [fetching EXCEPT ![c] = Resting]
  /\ UNCHANGED <<feed, inflight, calls, answers, value, basis>>

\* HashrateFetcher.Fetch: its fetchOne applies the band, the rest is the same.
HashrateFetch ==
  /\ feed = "hashrate" /\ fetching["background"].pc = "fetch" /\ Answered /\ Forget
  /\ Cache(Usable(answers)) /\ fetching' = [fetching EXCEPT !["background"] = Resting]
  /\ UNCHANGED <<feed, inflight, calls>>
-----------------------------------------------------------------------------
LeaderSteps(c) == doFetch(c) \/ Closes(c)

SourceAnswers == \E s \in DOMAIN answers : \E v \in ReadingsOf(s) : fetchOne(s, v)

RateNext ==
  \/ \E c \in Fetchers : Fetch(c) \/ LeaderSteps(c) \/ Returns(c) \/ Leaves(c)
  \/ SourceAnswers \/ StartBackground \/ HashrateFetch

\* Every HTTP call ends (10 s timeout), and callers are scheduled; nobody must call or leave.
RateFairness ==
  /\ \A c \in Fetchers : WF_rateVars(LeaderSteps(c)) /\ WF_rateVars(Returns(c))
  /\ WF_rateVars(SourceAnswers)
  /\ WF_rateVars(HashrateFetch)

RateSpec == RateInit /\ [][RateNext]_rateVars
RateFairSpec == RateSpec /\ RateFairness
-----------------------------------------------------------------------------
\* Every caller returns: the leader whatever its sources do, and those that wait for it
\* when the fetch fails as well as when it succeeds.
FetchReturns == \A c \in Fetchers : fetching[c].pc # "idle" ~> fetching[c].pc = "idle"

\* One source that reports anything within the band cannot move a cached price or hashrate
\* far: as long as an honest source stood behind it, the value lies between 5/8 of the
\* lowest and 5/2 of the highest honest reading, and between these when three answered.
FeedTrusted ==
  LET good == {basis[s] : s \in DOMAIN basis \ {Faulty}} \ {0, Waiting}
  IN  good # {} =>
        /\ 4 * value >= 5 * Min(good) /\ value <= 5 * Max(good)
        /\ Len(Usable(basis)) = 3 => value >= 2 * Min(good) /\ value <= 2 * Max(good)

-----------------------------------------------------------------------------
(* Why one source cannot move the feed.                                    *)

\* What the proofs need of the constants: readings are integers, and the honest ones are
\* plausible, that is positive.
SourcesOK ==
  /\ Lo \in Nat \ {0} /\ Hi \in Int
  /\ Honest \subseteq Lo .. Hi /\ Odd \subseteq Int \ {Waiting}

\* The inductive invariant: what is cached came from answers of all sources.
RateInv ==
  /\ DOMAIN answers \in {defaultSources, defaultHashrateSources}
  /\ DOMAIN basis = DOMAIN answers
  /\ \A s \in DOMAIN answers : answers[s] \in {Waiting} \cup ReadingsOf(s)
  /\ \A s \in DOMAIN basis : basis[s] \in {Waiting} \cup ReadingsOf(s)
  /\ FeedTrusted
=============================================================================
