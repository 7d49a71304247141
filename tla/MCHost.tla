------------------------------- MODULE MCHost -------------------------------
(***************************************************************************)
(* What Otedama keeps and computes on its host, on small instances: one    *)
(* behaviour installs and starts the service, handles the wallet, rotates  *)
(* the log, keeps the statistics or calls one of the encodings, as part    *)
(* says; the variables of the others rest.                                 *)
(***************************************************************************)
EXTENDS MCService, MCCodecs, Wallet, LogFile, Telemetry

VARIABLES part, call, out

\* What the proofs about the wallet and the log assume holds of these values.
ASSUME WalletConstants == WalletOK
ASSUME LogConstants == CapOK

Encodings == INSTANCE Codecs WITH
  Addresses <- MCAddresses, Entropies <- MCEntropies, Phrases <- MCPhrases,
  Coinbases <- MCCoinbases, Sum0 <- MCSum0

codecVars == <<call, out>>

\* The parts that do not run rest in one of their initial states.
MCInit ==
  /\ part \in {"service", "wallet", "log", "stats", "codecs"}
  /\ IF part = "codecs" THEN Encodings!Init
     ELSE out = Encodings!Pending /\ call = CHOOSE c \in Encodings!Calls : TRUE
  /\ WalletInit /\ StatsInit
  /\ LogInit /\ (part # "log" => active = <<>> /\ faults = 0)
  /\ IF part = "service" THEN Init
     ELSE /\ os = "linux" /\ shell = Place("", NoEnv) /\ manager = shell /\ up = TRUE
          /\ disk = [place \in Places |-> [state |-> "missing", cfg |-> ZeroConfig]]
          /\ units = [place \in Places |-> NoUnit] /\ loaded = NoUnit
          /\ enabled = FALSE /\ wanted = FALSE
          /\ proc = NoProc /\ cli = Idle /\ told = "" /\ commands = 0

MCNext ==
  /\ UNCHANGED part
  /\ \/ part = "service" /\ Next /\ UNCHANGED <<walletVars, logVars, statsVars, codecVars>>
     \/ part = "wallet" /\ WalletNext /\ UNCHANGED <<vars, logVars, statsVars, codecVars>>
     \/ part = "log" /\ LogNext /\ UNCHANGED <<vars, walletVars, statsVars, codecVars>>
     \/ part = "stats" /\ StatsNext /\ UNCHANGED <<vars, walletVars, logVars, codecVars>>
     \/ part = "codecs" /\ Encodings!Next /\ UNCHANGED <<vars, walletVars, logVars, statsVars>>

MCSpec == MCInit /\ [][MCNext]_<<part, vars, walletVars, logVars, statsVars, codecVars>>

-----------------------------------------------------------------------------
\* SlipsRefused of Codecs: an address one edit away from a valid one is refused.
SlipsRefused == Encodings!SlipsRefused

\* PhraseFaithful of Codecs: a phrase restores the entropy it was made from, or is refused.
PhraseFaithful == Encodings!PhraseFaithful

\* CoinbaseReadRight of Codecs: a coinbase pays the script exactly if an output does.
CoinbaseReadRight == Encodings!CoinbaseReadRight
=============================================================================
