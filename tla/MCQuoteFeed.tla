----------------------------- MODULE MCQuoteFeed -----------------------------
(***************************************************************************)
(* Instances of QuoteFeed.                                                 *)
(***************************************************************************)
EXTENDS QuoteFeed

\* The first provider quotes for two devices and publishes twice, the second once for one.
TwoAndOne == <<2, 1>>
=============================================================================
