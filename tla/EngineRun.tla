------------------------------ MODULE EngineRun ------------------------------
(***************************************************************************)
(* One "otedama run" from its flags to its exit code: cmdRun, the HTTP     *)
(* server it starts, engine.Run with its phases and its deferred stops,    *)
(* device detection, and the goroutines those start. The pool sessions,    *)
(* the quote feed and the miner threads are abstracted to what             *)
(* ReconnectLoop, QuoteFeed and Worker show of them: readiness comes and   *)
(* goes until the loop returns, and a goroutine that is cancelled ends. A  *)
(* signal may arrive at any time.                                          *)
(***************************************************************************)
EXTENDS Integers

CONSTANTS Drivers, Miners   \* drivers registered with the HAL; those whose devices hash

VARIABLES
  ctxDone,     \* the context of the run is cancelled
  main,        \* where cmdRun and the calls below it are
  input,       \* what the user gave: [verdict, http, tui, firstRun]
  drv,         \* driver -> Enumerate: "off", "run", "none", "sent", "taken"
  gor,         \* goroutine -> "off", "run", "blocked", "exit"
  stop,        \* goroutines a Stop has cancelled
  http,        \* the HTTP server: "off", "serving", "down"
  ready,       \* what /readyz answers
  code         \* the exit code, or Running

vars == <<ctxDone, main, input, drv, gor, stop, http, ready, code>>

Running == -1
Goroutines == {"workers", "shareFwd", "tickers", "dashboard", "httpWatch", "provider1", "provider2",
               "quotes"}

\* What the flags and the configuration come to; the rest matters only if the run starts.
Inputs == [verdict : {"usage", "invalid", "dryRun"}, http : {FALSE}, tui : {FALSE}, firstRun : {FALSE}]
          \union [verdict : {"start"}, http : BOOLEAN, tui : BOOLEAN, firstRun : BOOLEAN]

Init ==
  /\ ctxDone = FALSE /\ main = "flags" /\ input \in Inputs
  /\ drv = [d \in Drivers |-> "off"] /\ gor = [g \in Goroutines |-> "off"] /\ stop = {}
  /\ http = "off" /\ ready = FALSE /\ code = Running

Goto(pc) == main' = pc
Started(gs) == gor' = [g \in Goroutines |-> IF g \in gs THEN "run" ELSE gor[g]]
-----------------------------------------------------------------------------
(* cmdRun.                                                                 *)

\* Flags, configuration and --dry-run are settled before the signal handler is installed.
Prepares ==
  /\ main = "flags"
  /\ IF input.verdict = "start" THEN Goto("http") /\ UNCHANGED code
     ELSE Goto("exit") /\ code' = CASE input.verdict = "usage" -> 64
                                    [] input.verdict = "invalid" -> 78
                                    [] input.verdict = "dryRun" -> 0
  /\ UNCHANGED <<ctxDone, input, drv, gor, stop, http, ready>>

\* startHTTPServer: a server that cannot listen is a warning.
StartsHTTP ==
  /\ main = "http" /\ Goto("wallet")
  /\ \/ input.http /\ http' = "serving" /\ Started({"httpWatch"})
     \/ UNCHANGED <<http, gor>>
  /\ UNCHANGED <<ctxDone, input, drv, stop, ready, code>>

\* A signal cancels the context that everything below is started with.
Signal ==
  /\ main \notin {"flags", "exit"} /\ ~ctxDone /\ ctxDone' = TRUE
  /\ UNCHANGED <<main, input, drv, gor, stop, http, ready, code>>

\* Server.Stop, by the goroutine that watches the context or by cmdRun.
HTTPDown ==
  /\ gor["httpWatch"] = "run" /\ ctxDone
  /\ gor' = [gor EXCEPT !["httpWatch"] = "exit"] /\ http' = "down"
  /\ UNCHANGED <<ctxDone, main, input, drv, stop, ready, code>>
-----------------------------------------------------------------------------
(* Run, phases 1 to 8.                                                     *)

\* The uptime goroutine runs from the start; a new wallet asks for words on a terminal.
SetsUpWallet ==
  /\ main = "wallet" /\ Goto(IF input.firstRun THEN "quiz" ELSE "detect")
  /\ Started({"tickers"})
  /\ drv' = [d \in Drivers |-> IF input.firstRun THEN "off" ELSE "run"]
  /\ UNCHANGED <<ctxDone, input, stop, http, ready, code>>

\* verifyBackupPositions reads the terminal, which no context interrupts.
Answers ==
  /\ main = "quiz" /\ Goto("detect") /\ drv' = [d \in Drivers |-> "run"]
  /\ UNCHANGED <<ctxDone, input, gor, stop, http, ready, code>>

\* A driver's goroutine sends its result, a device or none, to a channel with room for all.
Enumerated(d) ==
  /\ drv[d] = "run"
  /\ \E result \in {"sent", "none"} : drv' = [drv EXCEPT ![d] = result]
  /\ UNCHANGED <<ctxDone, main, input, gor, stop, http, ready, code>>

DetectTakes(d) ==
  /\ main = "detect" /\ drv[d] = "sent" /\ drv' = [drv EXCEPT ![d] = "taken"]
  /\ UNCHANGED <<ctxDone, main, input, gor, stop, http, ready, code>>

Found == {d \in Drivers : drv[d] = "taken"}
Cancelled == IF ctxDone THEN 0 ELSE 1   \* cmdRun: context.Canceled is not an error

\* Detect ends when all drivers have answered or the context is done; detectDevices
\* reports the interruption only if no device was found.
DetectEnds ==
  /\ main = "detect" /\ (ctxDone \/ \A d \in Drivers : drv[d] \in {"taken", "none"})
  /\ IF Found = {} THEN Goto("unwind") /\ code' = Cancelled
     ELSE Goto("miners") /\ UNCHANGED code
  /\ UNCHANGED <<ctxDone, input, drv, gor, stop, http, ready>>

\* startMinerWorkers, and the feeds of phase 4.
StartsWorkers ==
  /\ main = "miners"
  /\ IF Found \intersect Miners = {} THEN Goto("unwind") /\ code' = 1 /\ UNCHANGED gor
     ELSE Goto("providers") /\ Started({"workers", "shareFwd"}) /\ UNCHANGED code
  /\ UNCHANGED <<ctxDone, input, drv, stop, http, ready>>

\* startProviders, mergeQuotes, the arbitration loop and the dashboard.
StartsProviders ==
  /\ main = "providers" /\ Goto("session")
  /\ Started({"provider1", "provider2", "quotes"} \union IF input.tui THEN {"dashboard"} ELSE {})
  /\ UNCHANGED <<ctxDone, input, drv, stop, http, ready, code>>

\* OnReady, from the sessions of runReconnectLoop.
SessionTurns ==
  /\ main = "session" /\ ready' = ~ready
  /\ UNCHANGED <<ctxDone, main, input, drv, gor, stop, http, code>>

\* runReconnectLoop returns: cancelled, out of attempts, or with a fatal session error.
SessionEnds ==
  /\ main = "session" /\ Goto("notReady")
  /\ \/ ctxDone /\ code' = 0
     \/ code' = 1
  /\ UNCHANGED <<ctxDone, input, drv, gor, stop, http, ready>>
-----------------------------------------------------------------------------
(* The deferred calls of Run, last first, and then those of cmdRun.        *)

NotReady ==
  /\ main = "notReady" /\ ready' = FALSE
  /\ Goto(IF input.tui THEN "dashboard" ELSE "provider2")
  /\ UNCHANGED <<ctxDone, input, drv, gor, stop, http, code>>

\* A deferred Stop cancels its goroutine and waits for it: Dashboard.Stop, Stop of each
\* provider from the last one started, Worker.Stop.
StopsInTurn == [dashboard |-> "provider2", provider2 |-> "provider1", provider1 |-> "workers",
                workers |-> "unwind"]

Stops(g) ==
  /\ main = g
  /\ \/ g \notin stop /\ stop' = stop \union {g} /\ UNCHANGED main
     \/ g \in stop /\ gor[g] = "exit" /\ Goto(StopsInTurn[g]) /\ UNCHANGED stop
  /\ UNCHANGED <<ctxDone, input, drv, gor, http, ready, code>>

\* cmdRun's own: Server.Stop, the log file, and the context.
Unwinds ==
  /\ main = "unwind" /\ Goto("exit") /\ ctxDone' = TRUE
  /\ http' = IF http = "serving" THEN "down" ELSE http
  /\ UNCHANGED <<input, drv, gor, stop, ready, code>>
-----------------------------------------------------------------------------
(* The other goroutines.                                                   *)

ExitsUnlessBlocked(g) ==
  /\ g # "httpWatch" /\ gor[g] = "run"
  /\ g \in stop \/ (ctxDone /\ g # "dashboard")
  /\ gor' = [gor EXCEPT ![g] = "exit"]
  /\ UNCHANGED <<ctxDone, main, input, drv, stop, http, ready, code>>

\* A stopped goroutine ends, and all but the dashboard watch the context of the run too
\* (workers, providers, fan-in and arbitration, uptime, prices, rate fetchers). The fan-ins
\* also end with their inputs.
Exits(g) ==
  /\ g # "httpWatch" /\ gor[g] \in {"run", "blocked"}
  /\ \/ g \in stop
     \/ ctxDone /\ g # "dashboard"
     \/ g = "shareFwd" /\ gor[g] = "run" /\ gor["workers"] = "exit"
     \/ g = "quotes" /\ gor["provider1"] = "exit" /\ gor["provider2"] = "exit"
  /\ gor' = [gor EXCEPT ![g] = "exit"]
  /\ UNCHANGED <<ctxDone, main, input, drv, stop, http, ready, code>>

\* With no session to read the merged shares, their fan-in fills the channel and blocks.
Blocks ==
  /\ main \notin {"providers", "session"} /\ gor["shareFwd"] = "run"
  /\ gor' = [gor EXCEPT !["shareFwd"] = "blocked"]
  /\ UNCHANGED <<ctxDone, main, input, drv, stop, http, ready, code>>
-----------------------------------------------------------------------------
MainSteps ==
  \/ Prepares \/ StartsHTTP \/ SetsUpWallet \/ DetectEnds \/ StartsWorkers
  \/ StartsProviders \/ NotReady \/ Unwinds
  \/ \E g \in DOMAIN StopsInTurn : Stops(g)
  \/ (ctxDone /\ SessionEnds)

Next ==
  \/ MainSteps \/ Signal \/ HTTPDown \/ Answers \/ SessionTurns \/ SessionEnds \/ Blocks
  \/ \E d \in Drivers : Enumerated(d) \/ DetectTakes(d)
  \/ \E g \in Goroutines : Exits(g)

Spec == Init /\ [][Next]_vars

\* Every goroutine is scheduled; the user, the signal and the pool owe nothing.
Fairness ==
  /\ WF_vars(MainSteps) /\ WF_vars(HTTPDown)
  /\ \A d \in Drivers : WF_vars(Enumerated(d))
  /\ \A g \in Goroutines : WF_vars(Exits(g))

FairSpec == Spec /\ Fairness
-----------------------------------------------------------------------------
Quiet == \A g \in Goroutines : gor[g] \in {"off", "exit"}

\* Whatever a run was doing when its context is cancelled, and however full its channels
\* are, every Stop it defers returns, it reaches its exit code, and every goroutine it
\* started ends; a first run is excepted, whose backup questions hold it until they are
\* answered.
ShutdownCompletes == (ctxDone /\ ~input.firstRun) ~> (main = "exit" /\ Quiet)

\* docs/API.md: exit code 0 is a clean shutdown, "e.g. SIGINT after Ctrl+C"; a run that a
\* signal stops before it has a session has no error to report.
SignalExitsClean == main = "unwind" /\ ctxDone /\ gor["workers"] = "off" => code = 0
=============================================================================
