------------------------------ MODULE QuoteFeed ------------------------------
(***************************************************************************)
(* The way of a yield quote from a provider to the arbitration loop: the   *)
(* polling goroutine of internal/provider with its bounded channel, the    *)
(* fan-in of internal/engine/fanin.go and the receiving side of            *)
(* runArbitrationLoop. A quote is a pair of a device and the round of      *)
(* publication that produced it. Channel operations are steps.             *)
(***************************************************************************)
EXTENDS Integers, Sequences, FiniteSets

CONSTANTS
  Providers,
  Quotes,        \* provider -> quotes in one publication, one per device it can use
  Cap,           \* capacity of a provider's channel: 16, 32
  MergedCap,     \* capacity of the merged channel: 64
  Rounds         \* bound: provider -> publications

VARIABLES
  ctxDone,       \* the context of the run is cancelled
  prov,          \* provider -> its polling goroutine and its channel
  fwd,           \* provider -> the fan-in goroutine that reads that channel
  merged,        \* the merged channel
  mergedClosed,
  arb,           \* runArbitrationLoop: "loop", "exit"
  heard          \* <<provider, device>> -> round of the last quote received

vars == <<ctxDone, prov, fwd, merged, mergedClosed, arb, heard>>

Slots == UNION {{<<p, d>> : d \in 1 .. Quotes[p]} : p \in Providers}

\* launch, mergeQuotes and runArbitrationLoop have just started their goroutines.
Init ==
  /\ ctxDone = FALSE
  /\ prov = [p \in Providers |-> [pc |-> "publish", stopped |-> FALSE, round |-> 1, next |-> 1,
                                  ch |-> << >>]]
  /\ fwd = [p \in Providers |-> [pc |-> "recv", held |-> <<0, 0>>]]
  /\ merged = << >> /\ mergedClosed = FALSE /\ arb = "loop"
  /\ heard = [s \in Slots |-> 0]
-----------------------------------------------------------------------------
(* pollingProvider. loop publishes at once and then on every tick.         *)

Done(p) == ctxDone \/ prov[p].stopped

\* The end of publish: all its quotes sent, or sendQuote gave up because of the context.
Waits(r) == [r EXCEPT !.pc = "wait", !.next = 1]

Sent(p) ==
  LET r == [prov[p] EXCEPT !.ch = Append(@, <<prov[p].next, prov[p].round>>)]
  IN  IF r.next = Quotes[p] THEN Waits(r) ELSE [r EXCEPT !.pc = "publish", !.next = @ + 1]

\* sendQuote, first select; its default is taken when neither case is ready.
sendQuote(p) ==
  /\ prov[p].pc = "publish"
  /\ \/ Len(prov[p].ch) < Cap /\ prov' = [prov EXCEPT ![p] = Sent(p)]
     \/ Done(p) /\ prov' = [prov EXCEPT ![p] = Waits(prov[p])]
     \/ Len(prov[p].ch) = Cap /\ ~Done(p) /\ prov' = [prov EXCEPT ![p].pc = "drop"]
  /\ UNCHANGED <<ctxDone, fwd, merged, mergedClosed, arb, heard>>

\* The oldest quote is dropped, if the reader has not emptied the channel meanwhile ...
DropsOldest(p) ==
  /\ prov[p].pc = "drop"
  /\ prov' = [prov EXCEPT ![p].pc = "resend", ![p].ch = IF @ = << >> THEN @ ELSE Tail(@)]
  /\ UNCHANGED <<ctxDone, fwd, merged, mergedClosed, arb, heard>>

\* ... and the new one is sent: this goroutine is the only writer, so there is room.
SendsNewest(p) ==
  /\ prov[p].pc = "resend"
  /\ \/ Len(prov[p].ch) < Cap /\ prov' = [prov EXCEPT ![p] = Sent(p)]
     \/ Done(p) /\ prov' = [prov EXCEPT ![p] = Waits(prov[p])]
  /\ UNCHANGED <<ctxDone, fwd, merged, mergedClosed, arb, heard>>

Tick(p) ==
  /\ prov[p].pc = "wait" /\ prov[p].round < Rounds[p]
  /\ prov' = [prov EXCEPT ![p].pc = "publish", ![p].round = @ + 1]
  /\ UNCHANGED <<ctxDone, fwd, merged, mergedClosed, arb, heard>>

\* The goroutine ends and closes its channel.
LoopExits(p) ==
  /\ prov[p].pc = "wait" /\ Done(p)
  /\ prov' = [prov EXCEPT ![p].pc = "exit"]
  /\ UNCHANGED <<ctxDone, fwd, merged, mergedClosed, arb, heard>>
-----------------------------------------------------------------------------
(* fanIn: one goroutine per input and one that closes the output.          *)

FwdReceives(p) ==
  /\ fwd[p].pc = "recv" /\ prov[p].ch # << >>
  /\ fwd' = [fwd EXCEPT ![p] = [pc |-> "send", held |-> Head(prov[p].ch)]]
  /\ prov' = [prov EXCEPT ![p].ch = Tail(@)]
  /\ UNCHANGED <<ctxDone, merged, mergedClosed, arb, heard>>

FwdSends(p) ==
  /\ fwd[p].pc = "send" /\ Len(merged) < MergedCap
  /\ merged' = Append(merged, <<p, fwd[p].held[1], fwd[p].held[2]>>)
  /\ fwd' = [fwd EXCEPT ![p] = [pc |-> "recv", held |-> <<0, 0>>]]
  /\ UNCHANGED <<ctxDone, prov, mergedClosed, arb, heard>>

Drained(p) == prov[p].pc = "exit" /\ prov[p].ch = << >>

FwdExitsUnlessSending(p) ==
  /\ fwd[p].pc = "recv" /\ (ctxDone \/ Drained(p))
  /\ fwd' = [fwd EXCEPT ![p] = [pc |-> "exit", held |-> <<0, 0>>]]
  /\ UNCHANGED <<ctxDone, prov, merged, mergedClosed, arb, heard>>

\* Both selects also watch the context; the receive ends on a closed, drained input.
FwdExits(p) ==
  /\ \/ fwd[p].pc \in {"recv", "send"} /\ ctxDone
     \/ fwd[p].pc = "recv" /\ Drained(p)
  /\ fwd' = [fwd EXCEPT ![p] = [pc |-> "exit", held |-> <<0, 0>>]]
  /\ UNCHANGED <<ctxDone, prov, merged, mergedClosed, arb, heard>>

MergedCloses ==
  /\ ~mergedClosed /\ \A p \in Providers : fwd[p].pc = "exit"
  /\ mergedClosed' = TRUE
  /\ UNCHANGED <<ctxDone, prov, fwd, merged, arb, heard>>
-----------------------------------------------------------------------------
(* runArbitrationLoop, without its ticks.                                  *)

ArbReceives ==
  /\ arb = "loop" /\ merged # << >>
  /\ heard' = [heard EXCEPT ![<<Head(merged)[1], Head(merged)[2]>>] = Head(merged)[3]]
  /\ merged' = Tail(merged)
  /\ UNCHANGED <<ctxDone, prov, fwd, mergedClosed, arb>>

ArbExits ==
  /\ arb = "loop" /\ (ctxDone \/ (mergedClosed /\ merged = << >>))
  /\ arb' = "exit"
  /\ UNCHANGED <<ctxDone, prov, fwd, merged, mergedClosed, heard>>
-----------------------------------------------------------------------------
Cancel ==
  /\ ~ctxDone /\ ctxDone' = TRUE
  /\ UNCHANGED <<prov, fwd, merged, mergedClosed, arb, heard>>

\* The first half of Stop; the second waits for the goroutine.
Stop(p) ==
  /\ ~prov[p].stopped /\ prov' = [prov EXCEPT ![p].stopped = TRUE]
  /\ UNCHANGED <<ctxDone, fwd, merged, mergedClosed, arb, heard>>

ProviderSteps(p) == sendQuote(p) \/ DropsOldest(p) \/ SendsNewest(p) \/ LoopExits(p)
FwdSteps(p) == FwdReceives(p) \/ FwdSends(p) \/ FwdExits(p)

Next ==
  \/ \E p \in Providers : ProviderSteps(p) \/ FwdSteps(p) \/ Tick(p) \/ Stop(p)
  \/ MergedCloses \/ ArbReceives \/ ArbExits
  \/ Cancel

Spec == Init /\ [][Next]_vars

\* Every goroutine is scheduled; the arbitration loop owes no progress before the context
\* ends (a tick may keep it), nor does anyone stop the feed.
Fairness ==
  /\ \A p \in Providers : WF_vars(ProviderSteps(p)) /\ WF_vars(FwdSteps(p))
  /\ WF_vars(MergedCloses) /\ WF_vars(ArbExits)

FairSpec == Spec /\ Fairness
-----------------------------------------------------------------------------
\* The quote is in a channel or in the hands of the fan-in.
OnItsWay(p, q) ==
  \/ \E i \in 1 .. Len(prov[p].ch) : prov[p].ch[i] = q
  \/ fwd[p].held = q
  \/ \E i \in 1 .. Len(merged) : merged[i] = <<p, q[1], q[2]>>

\* sendQuote's comment: it drops "the oldest buffered quote if the channel is full so the
\* freshest estimate always wins". Estimates are kept per device; with room for more quotes
\* than a publication has, the freshest of every device should be on its way.
FreshestOfEachDevice ==
  \A s \in Slots :
    LET p == s[1]  r == prov[p]
        sending == r.pc \in {"publish", "drop", "resend"}
        last == IF sending /\ s[2] >= r.next THEN r.round - 1 ELSE r.round
    IN  \/ last = 0 \/ Done(p) \/ heard[s] = last
        \/ (sending /\ r.next = s[2]) \/ OnItsWay(p, <<s[2], last>>)

\* Stop waits for the provider's goroutine with nobody left who must read its channel: it
\* returns although the channels are full and the loop is slow, and once the context has
\* ended every goroutine of the feed ends.
StopReturns ==
  /\ \A p \in Providers : prov[p].stopped ~> prov[p].pc = "exit"
  /\ ctxDone ~> (mergedClosed /\ arb = "exit" /\ \A p \in Providers : prov[p].pc = "exit")
=============================================================================
