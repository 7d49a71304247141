------------------------------- MODULE Config -------------------------------
(***************************************************************************)
(* How `otedama` arrives at a configuration: the file, the environment and *)
(* the flags laid over the defaults, what Validate refuses, and what the   *)
(* engine makes of an accepted pool list and address list.                 *)
(*                                                                         *)
(* A configuration is a record of its fields.  BitcoinAddress, LogLevel and *)
(* DataDir stand for the text fields every layer can set (LogFormat,       *)
(* Language and HTTPAddr are treated alike); the lists come from the file  *)
(* alone; the two numbers stand for the five that file and environment set. *)
(* An address is named after its defect, or is one of the good ones.       *)
(***************************************************************************)
EXTENDS Integers, Sequences, FiniteSets

TextFields == {"BitcoinAddress", "LogLevel", "DataDir"}
ListFields == {"BitcoinAddresses", "Pools"}
NumFields == {"ArbitrationHysteresisPct", "CurtailBelowBTCUSD"}
Fields == TextFields \cup ListFields \cup NumFields

(* Numbers are hundredths.  NaN compares false with everything; an absent  *)
(* variable and one that does not parse set nothing.                       *)
NaN == 1000003
Infinite == 1000002
NoNumber == 1000001
Malformed == 1000000

NoEnv == [f \in TextFields \cup NumFields |->
             IF f \in TextFields THEN "" ELSE NoNumber]

(* The zero Config, which is also what an unset field of the file looks like. *)
ZeroConfig ==
  [BitcoinAddress |-> "", LogLevel |-> "", DataDir |-> "",
   BitcoinAddresses |-> <<>>, Pools |-> <<>>,
   ArbitrationHysteresisPct |-> 0, CurtailBelowBTCUSD |-> 0]

Defaults == [ZeroConfig EXCEPT !.LogLevel = "info", !.ArbitrationHysteresisPct = 5]

-----------------------------------------------------------------------------
(* The layers.  c is the configuration so far and the origin of each field. *)

Overlay(c, layer, set, origin) ==
  [cfg |-> [f \in Fields |-> IF f \in set THEN layer[f] ELSE c.cfg[f]],
   o   |-> [f \in Fields |-> IF f \in set THEN origin ELSE c.o[f]]]

FileSets(file) == {f \in Fields : file[f] # ZeroConfig[f]}
EnvSets(env) ==
  {f \in TextFields : env[f] # ""} \cup
  {f \in NumFields : env[f] \notin {NoNumber, Malformed}}
FlagSets(flags) == {f \in TextFields : flags[f] # ""}

applyFileLayer(c, file) == Overlay(c, file, FileSets(file), "file")
applyEnvLayer(c, env) == Overlay(c, env, EnvSets(env), "env")
applyFlagLayer(c, flags) == Overlay(c, flags, FlagSets(flags), "flag")

(* The numeric variables that were given and cannot be used.               *)
EnvWarnings(env) == {f \in NumFields : env[f] = Malformed}

(* The data directory of the platform: dataHome is XDG_DATA_HOME, or       *)
(* APPDATA on Windows; home is "" when it cannot be determined.            *)
DefaultDataDir(os, place) ==
  CASE os = "windows" -> place.dataHome
    [] os = "darwin" -> place.home
    [] OTHER -> IF place.dataHome # "" THEN place.dataHome ELSE place.home

(* The mutant: the environment laid over the flags.                        *)
ResolveEnvLast(os, place, file, env, flags) ==
  LET start == [cfg |-> Defaults, o |-> [f \in Fields |-> "default"]]
      c == applyEnvLayer(applyFlagLayer(applyFileLayer(start, file), flags), env)
  IN IF c.cfg.DataDir = "" THEN [c EXCEPT !.cfg.DataDir = DefaultDataDir(os, place)]
     ELSE c

ResolveWithOrigins(os, place, file, env, flags) ==
  LET start == [cfg |-> Defaults, o |-> [f \in Fields |-> "default"]]
      c == applyFlagLayer(applyEnvLayer(applyFileLayer(start, file), env), flags)
  IN IF c.cfg.DataDir = "" THEN [c EXCEPT !.cfg.DataDir = DefaultDataDir(os, place)]
     ELSE c

(* The file that is read when --config names none.                         *)
defaultConfigPath(place) ==
  IF place.OTEDAMA_CONFIG # "" THEN place.OTEDAMA_CONFIG
  ELSE IF place.configHome # "" THEN place.configHome ELSE place.home

(* A missing, unreadable, empty or unparsable file is the zero Config.     *)
loadConfigFile(disk, path) ==
  IF path \in DOMAIN disk /\ disk[path].state = "ok" THEN disk[path].cfg
  ELSE ZeroConfig

-----------------------------------------------------------------------------
(* Pool URLs: a scheme and what follows it, named after its shape.         *)

EmptyURL == [scheme |-> "", rest |-> ""]
DefaultPoolURL == [scheme |-> "stratum+v2", rest |-> "host:port"]

validatePoolTarget(rest) ==
  /\ rest # ""                                      \* no host after the scheme
  /\ rest \notin {"user@host:port", "host:port/path"}
  /\ rest \notin {"host", "host:port:port"}         \* SplitHostPort fails
  /\ rest # ":port"                                 \* the host is empty
  /\ rest \notin {"host:0", "host:65536", "host:name"}

(* The mutant: a known scheme is enough.                                   *)
validatePoolURLScheme(url) ==
  url.scheme \in {"stratum+tcp", "stratum+tls", "stratum+v2", "stratum+v2tls"}

validatePoolURL(url) ==
  /\ url.scheme \in {"stratum+tcp", "stratum+tls", "stratum+v2", "stratum+v2tls"}
  /\ validatePoolTarget(url.rest)

knownSchemes ==
  [s \in {"stratum+v2tls", "stratum+v2", "stratum+tls", "stratum+tcp", "datum"} |->
     CASE s = "stratum+v2tls" -> "sv2tls" [] s = "stratum+v2" -> "sv2"
       [] s = "stratum+tls" -> "v1tls" [] s = "stratum+tcp" -> "v1"
       [] OTHER -> "datum"]

FromURL(url) ==
  IF url.scheme \in DOMAIN knownSchemes THEN knownSchemes[url.scheme] ELSE "unknown"

StripScheme(url) ==
  IF url.scheme \in DOMAIN knownSchemes /\ url.rest # "" THEN url.rest ELSE "error"

(* The dialers the V1 and SV2 packages register at start-up.               *)
Registered == {"v1", "v1tls", "sv2", "sv2tls"}
Lookup(proto) == proto \in Registered

(* DialURL gets as far as opening a connection to a host and a port.       *)
Dials(url) ==
  /\ FromURL(url) # "unknown"
  /\ Lookup(FromURL(url))
  /\ StripScheme(url) = "host:port"

-----------------------------------------------------------------------------
(* Validate, one operator per append...Issues.                             *)

GoodAddresses == {"good", "other"}
validateBitcoinAddress(a) ==
  /\ a \notin {"short", "long"}
  /\ a # "testnet"            \* neither 1, 3 nor bc1
  /\ a # "typo"               \* the checksum fails

AddressesOK(c) ==
  /\ c.BitcoinAddress = "" => Len(c.BitcoinAddresses) > 0
  /\ c.BitcoinAddress # "" => validateBitcoinAddress(c.BitcoinAddress)
  /\ \A i \in 1..Len(c.BitcoinAddresses) :
       /\ c.BitcoinAddresses[i] # ""
       /\ validateBitcoinAddress(c.BitcoinAddresses[i])

LogOK(c) == c.LogLevel \in {"debug", "info", "warn", "error", ""}

PoolsOK(c) ==
  \A i \in 1..Len(c.Pools) :
    /\ c.Pools[i].url # EmptyURL
    /\ validatePoolURL(c.Pools[i].url)
    /\ c.Pools[i].payout \in {"", "fpps", "pplns", "tides", "solo"}

NumbersOK(c) ==
  /\ \A f \in NumFields : c[f] \notin {NaN, Infinite}
  /\ c.ArbitrationHysteresisPct >= 0 /\ c.ArbitrationHysteresisPct < 100
  /\ c.CurtailBelowBTCUSD >= 0

Validate(c) == AddressesOK(c) /\ LogOK(c) /\ PoolsOK(c) /\ NumbersOK(c)

-----------------------------------------------------------------------------
(* What the engine takes from a configuration.                             *)

poolURLs(c) ==
  IF c.Pools = <<>> THEN <<DefaultPoolURL>>
  ELSE [i \in 1..Len(c.Pools) |-> c.Pools[i].url]

(* The primary, then the others, without the empty ones and repetitions.   *)
payoutAddresses(c) ==
  LET all == <<c.BitcoinAddress>> \o c.BitcoinAddresses
      first(i) == all[i] # "" /\ \A j \in 1..(i - 1) : all[j] # all[i]
      kept == {i \in 1..Len(all) : first(i)}
      rank(i) == Cardinality({j \in kept : j <= i})
  IN [n \in 1..Cardinality(kept) |-> all[CHOOSE i \in kept : rank(i) = n]]

sessionUser(poolUser, addr, worker) ==
  CASE poolUser # "" -> <<poolUser>>
    [] worker # "" -> <<addr, worker>>
    [] OTHER -> <<addr>>
=============================================================================
