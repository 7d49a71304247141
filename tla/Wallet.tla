------------------------------- MODULE Wallet -------------------------------
(***************************************************************************)
(* The wallet files of internal/lightning (wallet.dat, wallet.fingerprint  *)
(* and the temporaries of save) under the processes that open them:        *)
(* setupWallet of "otedama run", "otedama wallet verify" and "otedama      *)
(* wallet change-passphrase". Every system call that changes a file is a   *)
(* step; between two steps a process may be killed, or the machine may     *)
(* lose power, which takes every process and what was not synced.          *)
(***************************************************************************)
EXTENDS Integers, FiniteSets

CONSTANTS
  Procs,              \* processes alive at the same time
  Passphrases,
  Names,              \* names os.CreateTemp can choose
  MaxSeeds,           \* bound: seeds generated
  MaxWalletCommands,  \* bound: commands started
  MaxCrashes          \* bound: kills and power losses

VARIABLES
  wallet,    \* wallet.dat as a reader finds it: [data, synced]
  durable,   \* wallet.dat as a power loss may bring it back
  fp,        \* wallet.fingerprint: Missing, Damaged or the seed it identifies
  tmps,      \* name -> a ".wallet-*.tmp" file
  aged,      \* names of temporaries older than staleTempMaxAge
  locals,    \* process -> what it holds while a command runs
  seeds,     \* seeds generated so far: 1 .. seeds
  shown,     \* history: seeds whose recovery phrase was printed
  walletCommands, crashes

walletVars == <<wallet, durable, fp, tmps, aged, locals, seeds, shown, walletCommands, crashes>>
files == <<wallet, durable, fp, tmps, aged>>
history == <<shown, walletCommands, crashes>>

NoSeed == 0
NoName == 0
Absent == [seed |-> NoSeed, pass |-> "absent"]
Torn == [seed |-> NoSeed, pass |-> "torn"]   \* not the whole of what one write wrote
NoFile == [data |-> Absent, synced |-> TRUE]
Missing == 0         \* the fingerprint file is absent ...
Damaged == -1        \* ... or holds part of a fingerprint

Blobs == [seed : 1 .. MaxSeeds, pass : Passphrases]

\* What the proofs need of the constants.
WalletOK == MaxSeeds \in Nat /\ NoName \notin Names

EncryptSeed(seed, pass) == [seed |-> seed, pass |-> pass]

\* UnmarshalEncryptedSeed refuses what is too short, too long or of another version.
UnmarshalEncryptedSeed(file) == file.data \in Blobs

\* The seed, or NoSeed for any failure: AES-GCM authenticates the passphrase.
DecryptSeed(file, pass) ==
  IF UnmarshalEncryptedSeed(file) /\ file.data.pass = pass THEN file.data.seed ELSE NoSeed

IdleProc == [pc |-> "idle", cmd |-> "none", pass |-> "", next |-> "", seed |-> NoSeed,
         isNew |-> FALSE, tmp |-> NoName]

WalletInit ==
  /\ wallet = NoFile /\ durable = NoFile /\ fp = Missing
  /\ tmps = [n \in Names |-> NoFile] /\ aged = {}
  /\ locals = [p \in Procs |-> IdleProc] /\ seeds = 0
  /\ shown = {} /\ walletCommands = 0 /\ crashes = 0

At(p, pc) == locals[p].pc = pc
Goto(p, pc) == locals' = [locals EXCEPT ![p].pc = pc]
Exit(p) == locals' = [locals EXCEPT ![p] = IdleProc]
-----------------------------------------------------------------------------
(* The commands.                                                           *)

\* setupWallet. That one engine runs on a data directory at a time is an assumption about
\* the operator: nothing in the code locks the directory.
RunStarts(p, pass) ==
  /\ At(p, "idle") /\ walletCommands < MaxWalletCommands /\ \A q \in Procs : locals[q].cmd # "run"
  /\ locals' = [locals EXCEPT ![p] = [IdleProc EXCEPT !.pc = "open", !.cmd = "run", !.pass = pass]]
  /\ walletCommands' = walletCommands + 1
  /\ UNCHANGED <<files, seeds, shown, crashes>>

\* cmdWalletChangePassphrase looks for wallet.dat before it opens it.
ChangeStarts(p, old, new) ==
  /\ At(p, "idle") /\ walletCommands < MaxWalletCommands /\ walletCommands' = walletCommands + 1
  /\ IF wallet = NoFile THEN UNCHANGED locals
     ELSE locals' = [locals EXCEPT ![p] =
            [IdleProc EXCEPT !.pc = "open", !.cmd = "change", !.pass = old, !.next = new]]
  /\ UNCHANGED <<files, seeds, shown, crashes>>

\* walletFingerprint: the sidecar if it can be read, else the wallet if there is one.
VerifyStarts(p, pass) ==
  /\ At(p, "idle") /\ walletCommands < MaxWalletCommands /\ walletCommands' = walletCommands + 1
  /\ \/ /\ fp # Missing
        /\ locals' = [locals EXCEPT ![p] = [IdleProc EXCEPT !.pc = "compare", !.cmd = "verify",
                       !.seed = IF fp = Damaged THEN NoSeed ELSE fp]]
     \/ fp = Missing /\ wallet = NoFile /\ UNCHANGED locals
     \/ /\ fp = Missing /\ wallet # NoFile
        /\ locals' = [locals EXCEPT ![p] =
             [IdleProc EXCEPT !.pc = "open", !.cmd = "verify", !.pass = pass]]
  /\ UNCHANGED <<files, seeds, shown, crashes>>

\* cmdWalletVerify compares and reports; it writes nothing.
Compare(p) == At(p, "compare") /\ Exit(p) /\ UNCHANGED <<files, seeds, history>>
-----------------------------------------------------------------------------
(* NewWalletManager.                                                       *)

\* sweepStaleTempFiles, then os.Stat of wallet.dat.
Open(p) ==
  /\ At(p, "open")
  /\ tmps' = [n \in Names |-> IF n \in aged THEN NoFile ELSE tmps[n]] /\ aged' = {}
  /\ Goto(p, IF wallet = NoFile THEN "generate" ELSE "load")
  /\ UNCHANGED <<wallet, durable, fp, seeds, history>>

\* createNew: entropy, mnemonic and seed; the seed and the mnemonic are kept in memory.
Generate(p) ==
  /\ At(p, "generate") /\ seeds < MaxSeeds /\ seeds' = seeds + 1
  /\ locals' = [locals EXCEPT ![p].pc = "temp", ![p].seed = seeds + 1, ![p].isNew = TRUE,
                          ![p].next = locals[p].pass]
  /\ UNCHANGED <<files, history>>

LoadOrRecreate(p) ==
  /\ At(p, "load")
  /\ LET seed == DecryptSeed(wallet, locals[p].pass) IN
     IF seed = NoSeed THEN Goto(p, "generate")
     ELSE locals' = [locals EXCEPT ![p].pc = "sidecar", ![p].seed = seed]
  /\ UNCHANGED <<files, seeds, history>>

\* loadExisting: any failure ends the command.
Load(p) ==
  /\ At(p, "load")
  /\ LET seed == DecryptSeed(wallet, locals[p].pass) IN
     IF seed = NoSeed THEN Exit(p)
     ELSE locals' = [locals EXCEPT ![p].pc = "sidecar", ![p].seed = seed]
  /\ UNCHANGED <<files, seeds, history>>

\* os.WriteFile of the fingerprint, whose failure is ignored: it truncates, then writes.
WriteFingerprint(seed) == fp' \in {fp, Damaged, seed}

\* The sidecar is recreated when it is missing and never overwritten.
RestoreSidecar(p) ==
  /\ At(p, "sidecar")
  /\ IF fp = Missing THEN WriteFingerprint(locals[p].seed) ELSE UNCHANGED fp
  /\ CASE locals[p].cmd = "run" -> Exit(p)
       [] locals[p].cmd = "change" -> Goto(p, "reread")
       [] locals[p].cmd = "verify" -> Goto(p, "compare")
  /\ UNCHANGED <<wallet, durable, tmps, aged, seeds, history>>

\* ChangePassphrase reads and decrypts the file once more before it saves.
Reread(p) ==
  /\ At(p, "reread")
  /\ LET seed == DecryptSeed(wallet, locals[p].pass) IN
     IF seed = NoSeed THEN Exit(p)
     ELSE locals' = [locals EXCEPT ![p].pc = "temp", ![p].seed = seed]
  /\ UNCHANGED <<files, seeds, history>>
-----------------------------------------------------------------------------
(* save: each step may fail, and then removes the temporary and returns.   *)

Fails(p) ==
  /\ locals[p].pc \in {"generate", "temp", "write", "sync", "rename"} /\ Exit(p)
  /\ tmps' = [n \in Names |-> IF n = locals[p].tmp THEN NoFile ELSE tmps[n]]
  /\ aged' = aged \ {locals[p].tmp}
  /\ UNCHANGED <<wallet, durable, fp, seeds, history>>

CreateTemp(p) ==
  /\ At(p, "temp")
  /\ \E n \in Names :
       /\ tmps[n] = NoFile /\ \A q \in Procs : locals[q].tmp # n
       /\ tmps' = [tmps EXCEPT ![n] = [data |-> Torn, synced |-> FALSE]]
       /\ locals' = [locals EXCEPT ![p].pc = "write", ![p].tmp = n]
  /\ UNCHANGED <<wallet, durable, fp, aged, seeds, history>>

\* A temporary that another process swept is still written through its descriptor.
WriteTemp(p) ==
  /\ At(p, "write") /\ Goto(p, "sync")
  /\ tmps' = [n \in Names |-> IF n = locals[p].tmp /\ tmps[n] # NoFile
                THEN [tmps[n] EXCEPT !.data = EncryptSeed(locals[p].seed, locals[p].next)]
                ELSE tmps[n]]
  /\ UNCHANGED <<wallet, durable, fp, aged, seeds, history>>

SyncSkipped(p) ==
  /\ At(p, "sync") /\ Goto(p, "rename") /\ UNCHANGED <<files, seeds, history>>

SyncTemp(p) ==
  /\ At(p, "sync") /\ Goto(p, "rename")
  /\ tmps' = [n \in Names |-> IF n = locals[p].tmp /\ tmps[n] # NoFile
                THEN [tmps[n] EXCEPT !.synced = TRUE] ELSE tmps[n]]
  /\ UNCHANGED <<wallet, durable, fp, aged, seeds, history>>

\* Close, Chmod and Rename; the last two find no file if it was swept.
Rename(p) ==
  /\ At(p, "rename") /\ tmps[locals[p].tmp] # NoFile
  /\ wallet' = tmps[locals[p].tmp]
  /\ tmps' = [tmps EXCEPT ![locals[p].tmp] = NoFile] /\ aged' = aged \ {locals[p].tmp}
  /\ IF locals[p].isNew THEN locals' = [locals EXCEPT ![p].pc = "fingerprint", ![p].tmp = NoName]
     ELSE Exit(p)
  /\ UNCHANGED <<durable, fp, seeds, history>>

\* The end of createNew.
NewSidecar(p) ==
  /\ At(p, "fingerprint") /\ Goto(p, "print") /\ WriteFingerprint(locals[p].seed)
  /\ UNCHANGED <<wallet, durable, tmps, aged, seeds, history>>

\* printRecoveryPhrase; the quiz that follows on a terminal changes nothing.
PrintPhrase(p) ==
  /\ At(p, "print") /\ Exit(p) /\ shown' = shown \union {locals[p].seed}
  /\ UNCHANGED <<files, seeds, walletCommands, crashes>>
-----------------------------------------------------------------------------
(* The operating system and its failures.                                  *)

Ages(n) ==
  /\ tmps[n] # NoFile /\ aged' = aged \union {n}
  /\ UNCHANGED <<wallet, durable, fp, tmps, locals, seeds, history>>

Flush ==
  /\ durable' = wallet /\ durable # wallet
  /\ UNCHANGED <<wallet, fp, tmps, aged, locals, seeds, history>>

Killed(p) ==
  /\ ~At(p, "idle") /\ crashes < MaxCrashes /\ crashes' = crashes + 1 /\ Exit(p)
  /\ UNCHANGED <<files, seeds, shown, walletCommands>>

\* What a disk holds of a file whose data were not synced is anything.
Survives(file) == {[file EXCEPT !.synced = TRUE]}
                  \union (IF file.synced THEN {} ELSE {[data |-> Torn, synced |-> TRUE]})

PowerLoss ==
  /\ crashes < MaxCrashes /\ crashes' = crashes + 1
  /\ locals' = [p \in Procs |-> IdleProc]
  /\ \E w \in Survives(wallet) \union Survives(durable) : wallet' = w /\ durable' = w
  /\ tmps' \in {f \in [Names -> UNION {Survives(tmps[n]) : n \in Names}] :
                  \A n \in Names : f[n] \in Survives(tmps[n])}
  /\ fp' \in {Missing, Damaged, fp}
  /\ UNCHANGED <<aged, seeds, shown, walletCommands>>
-----------------------------------------------------------------------------
WalletNext ==
  \/ \E p \in Procs :
       \/ \E pass \in Passphrases : RunStarts(p, pass) \/ VerifyStarts(p, pass)
       \/ \E old, new \in Passphrases : ChangeStarts(p, old, new)
       \/ Compare(p) \/ Open(p) \/ Generate(p) \/ Load(p) \/ RestoreSidecar(p) \/ Reread(p)
       \/ Fails(p) \/ CreateTemp(p) \/ WriteTemp(p) \/ SyncTemp(p) \/ Rename(p)
       \/ NewSidecar(p) \/ PrintPhrase(p) \/ Killed(p)
  \/ \E n \in Names : Ages(n)
  \/ Flush
  \/ PowerLoss

WalletSpec == WalletInit /\ [][WalletNext]_walletVars
-----------------------------------------------------------------------------
(* Properties.                                                             *)

Files == [data : Blobs \union {Absent, Torn}, synced : BOOLEAN]
Saving == {"temp", "write", "sync", "rename"}
Steps == Saving \union {"idle", "open", "generate", "load", "sidecar", "reread", "compare",
                         "fingerprint", "print"}
Locals ==
  [pc : Steps,
   cmd : {"none", "run", "change", "verify"}, pass : Passphrases \union {""},
   next : Passphrases \union {""}, seed : 0 .. MaxSeeds, isNew : BOOLEAN,
   tmp : Names \union {NoName}]

TypeOK ==
  /\ wallet \in Files /\ durable \in Files /\ tmps \in [Names -> Files]
  /\ fp \in {Missing, Damaged} \union 1 .. MaxSeeds /\ aged \subseteq Names
  /\ locals \in [Procs -> Locals] /\ seeds \in 0 .. MaxSeeds

Store == INSTANCE AtomicStore WITH Values <- Blobs, visible <- wallet.data, durable <- durable.data

\* save implements an atomic replacement: whatever process is killed between whichever of
\* its system calls, whatever temporary another process sweeps and whenever power is lost,
\* wallet.dat is a whole encrypted seed or is absent.
AtomicReplace == Store!Spec

\* A seed that has reached the disk is never replaced by another one: changes of
\* passphrase, in any number and however interrupted, wrong passphrases and failed saves
\* leave the wallet the same wallet.
SeedKept ==
  [][durable # NoFile => durable'.data.seed = durable.data.seed]_durable

\* A wallet that a later run opens is one whose recovery phrase was printed.
PhraseShown ==
  \A p \in Procs : locals[p].cmd = "run" /\ At(p, "sidecar") => locals[p].seed \in shown

-----------------------------------------------------------------------------
(* Why wallet.dat is whole and its seed stays.                             *)

\* A file that is all there, or not there at all, and synced.
Whole(file) == file.synced /\ file.data \in Blobs \union {Absent}

\* What a process relies on between two of its steps. One that generates found no wallet,
\* and only a run does; any other that saves holds the seed of the wallet; and its
\* temporary, unless it was swept, holds what it wrote and is synced before the rename.
ProcInv(r) ==
  /\ r.pc # "idle" => r.cmd # "none"
  /\ r.pc \notin {"idle", "compare"} => r.pass \in Passphrases
  /\ r.cmd = "change" => r.next \in Passphrases
  /\ r.pc \in {"sidecar", "fingerprint"} => r.seed # NoSeed
  /\ r.pc \in Saving => r.seed # NoSeed /\ r.next \in Passphrases
  /\ r.pc = "reread" => r.cmd = "change"
  /\ r.tmp \in Names <=> r.pc \in {"write", "sync", "rename"}
  /\ r.isNew => r.pc \in Saving \union {"fingerprint", "print"}
  /\ r.pc = "generate" \/ (r.isNew /\ r.pc \in Saving) => r.cmd = "run" /\ wallet = NoFile
  /\ r.pc \in {"load", "sidecar", "reread"} \/ (r.cmd # "run" /\ r.pc = "open") => wallet # NoFile
  /\ r.pc \in Saving /\ ~r.isNew => wallet # NoFile /\ r.seed = wallet.data.seed
  /\ r.pc \in {"sync", "rename"} /\ tmps[r.tmp] # NoFile =>
       /\ tmps[r.tmp].data = EncryptSeed(r.seed, r.next)
       /\ r.pc = "rename" => tmps[r.tmp].synced

\* The inductive invariant. At most one process is a run, and no two share a temporary.
WalletInv ==
  /\ TypeOK /\ Whole(wallet) /\ Whole(durable)
  /\ durable # NoFile => wallet # NoFile /\ wallet.data.seed = durable.data.seed
  /\ \A p \in Procs : ProcInv(locals[p])
  /\ \A p, q \in Procs : p # q =>
       /\ ~(locals[p].cmd = "run" /\ locals[q].cmd = "run")
       /\ locals[p].tmp = locals[q].tmp => locals[p].tmp = NoName
=============================================================================
