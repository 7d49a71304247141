------------------------------ MODULE MCService ------------------------------
EXTENDS Service

Flag(config, dir, addr) ==
  [config |-> config, DataDir |-> dir, BitcoinAddress |-> addr, LogLevel |-> ""]

MCInstallFlags ==
  {Flag("", "", "good"), Flag("home", "flagdir", ""), Flag("", "flagdir", "other")}

Place(xdg, vals) ==
  [configHome |-> xdg, dataHome |-> xdg, home |-> "home", OTEDAMA_CONFIG |-> "",
   vars |-> vals]

(* A plain environment, one with XDG directories of its own, one with      *)
(* OTEDAMA_ variables, a number among them that does not parse.            *)
MCEnvironments ==
  {Place("", NoEnv), Place("xdg", NoEnv),
   Place("", [NoEnv EXCEPT !["DataDir"] = "envdir", !["LogLevel"] = "debug",
                           !["ArbitrationHysteresisPct"] = Malformed,
                           !["CurtailBelowBTCUSD"] = 0])}

File(c) == [state |-> "ok", cfg |-> c]
Pool(scheme, rest) == [url |-> [scheme |-> scheme, rest |-> rest], payout |-> ""]

MCFileContents ==
  {[state |-> "missing", cfg |-> ZeroConfig],
   File([ZeroConfig EXCEPT !.BitcoinAddress = "good", !.DataDir = "filedir",
           !.BitcoinAddresses = <<"other", "good">>,
           !.Pools = <<Pool("stratum+tcp", "host:port"), Pool("stratum+v2", "host:port")>>]),
   File([ZeroConfig EXCEPT !.BitcoinAddresses = <<"other">>,
           !.Pools = <<Pool("stratum+v2", "host:name")>>]),
   File([ZeroConfig EXCEPT !.BitcoinAddress = "other", !.ArbitrationHysteresisPct = NaN])}

\* What the proofs about the service assume holds of these values.
ASSUME ServiceConstants == ConstantsOK
=============================================================================
