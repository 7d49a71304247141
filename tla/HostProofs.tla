----------------------------- MODULE HostProofs -----------------------------
(***************************************************************************)
(* What the files and the statistics of the host promise, for any number   *)
(* of processes, passphrases, temporaries, commands, crashes and sessions. *)
(* The wallet is replaced atomically and keeps its seed: WalletInv says    *)
(* what each process relies on between two of its system calls, and the    *)
(* lemmas below go through the steps of the commands, of NewWalletManager, *)
(* of save and of the operating system. Productive time is time in which   *)
(* the workers hashed: StatsInv ties the accountants to the window. The    *)
(* log with its backup is the tail of what was written: LogInv says what   *)
(* the two files hold between the calls of a rotation.                     *)
(***************************************************************************)
EXTENDS Wallet, Telemetry, LogFile, SequenceTheorems, TLAPS

-----------------------------------------------------------------------------

\* The absent file, the idle process, and what a whole file that is there holds.
LEMMA FileFacts ==
  ASSUME WalletOK
  PROVE  /\ NoFile \in Files /\ Whole(NoFile) /\ IdleProc \in Locals
         /\ Absent \notin Blobs /\ NoFile.data = Absent /\ Absent.seed = NoSeed
         /\ \A f \in Files : Whole(f) /\ f # NoFile =>
              f.data \in Blobs /\ f.data.seed \in 1 .. MaxSeeds /\ f.data.pass \in Passphrases
<1>1. Absent \notin Blobs /\ Absent.seed = NoSeed  BY DEF Absent, Blobs, NoSeed
<1>2. NoFile \in Files /\ Whole(NoFile) /\ NoFile.data = Absent
  BY Zenon DEF NoFile, Files, Whole
<1>3. IdleProc \in Locals  BY DEF IdleProc, Locals, Steps, NoSeed, NoName, WalletOK
<1>4. ASSUME NEW f \in Files, Whole(f), f # NoFile
      PROVE  f.data \in Blobs /\ f.data.seed \in 1 .. MaxSeeds /\ f.data.pass \in Passphrases
  <2>1. f.data # Absent  BY <1>4, Zenon DEF Files, Whole, NoFile
  <2>2. f.data \in Blobs  BY <1>4, <2>1, Zenon DEF Whole
  <2> QED  BY <2>2, Zenon DEF Blobs
<1> QED  BY <1>1, <1>2, <1>3, <1>4, Zenon

\* A process that ended relies on nothing.
LEMMA IdleInv == ASSUME WalletOK PROVE ProcInv(IdleProc) /\ ProcInv(IdleProc)'
  BY Zenon DEF ProcInv, IdleProc, Saving, WalletOK

\* The first start: no file and no process.
LEMMA WalletStarts == ASSUME WalletOK, WalletInit PROVE WalletInv
<1>1. TypeOK  BY FileFacts DEF WalletInit, TypeOK, WalletOK
<1>2. \A p \in Procs : ProcInv(locals[p])  BY IdleInv, Zenon DEF WalletInit
<1>3. \A p \in Procs : locals[p].cmd = "none" /\ locals[p].tmp = NoName  BY Zenon DEF WalletInit, IdleProc
<1> QED  BY <1>1, <1>2, <1>3, FileFacts, Zenon DEF WalletInit, WalletInv

\* A process moves on: it touches no temporary but its own, except to remove it.
LEMMA ProcStep ==
  ASSUME WalletOK, WalletInv, NEW p \in Procs, UNCHANGED <<wallet, durable>>, TypeOK',
         \A q \in Procs \ {p} : locals'[q] = locals[q],
         \A n \in Names \ {locals[p].tmp, locals'[p].tmp} : tmps'[n] \in {tmps[n], NoFile},
         locals'[p].cmd = "run" => locals[p].cmd = "run" \/ \A q \in Procs : locals[q].cmd # "run",
         locals'[p].tmp \in {locals[p].tmp, NoName} \/ \A q \in Procs : locals[q].tmp # locals'[p].tmp,
         ProcInv(locals[p])'
  PROVE  WalletInv'
<1>1. ASSUME NEW q \in Procs, q # p PROVE ProcInv(locals[q])'
  <2>1. locals'[q] = locals[q] /\ ProcInv(locals[q])  BY <1>1, Zenon DEF WalletInv
  <2>2. CASE locals[q].pc \notin {"sync", "rename"}
    BY <2>1, <2>2, ZenonT(60) DEF ProcInv
  <2>3. CASE locals[q].pc \in {"sync", "rename"}
    <3>1. locals[q].tmp \in Names  BY <2>1, <2>3, Zenon DEF ProcInv
    <3>2. locals[q].tmp # locals[p].tmp /\ locals[q].tmp # locals'[p].tmp
      BY <1>1, <3>1, ZenonT(60) DEF WalletInv, WalletOK
    <3>3. tmps'[locals[q].tmp] \in {tmps[locals[q].tmp], NoFile}  BY <3>1, <3>2, Zenon
    <3> QED  BY <2>1, <3>3 DEF ProcInv
  <2> QED  BY <2>2, <2>3, Zenon
<1>2. \A q, s \in Procs : q # s =>
       /\ ~(locals'[q].cmd = "run" /\ locals'[s].cmd = "run")
       /\ locals'[q].tmp = locals'[s].tmp => locals'[q].tmp = NoName
  BY DEF WalletInv
<1>3. Whole(wallet)' /\ Whole(durable)'
      /\ (durable # NoFile => wallet # NoFile /\ wallet.data.seed = durable.data.seed)'
  BY Zenon DEF WalletInv, Whole
<1> QED  BY <1>1, <1>2, <1>3, Zenon DEF WalletInv

\* A process whose program counter moves.
LEMMA PcMoves ==
  ASSUME NEW r \in Locals, NEW pc \in Steps, NEW t, t = [r EXCEPT !.pc = pc]
  PROVE  /\ t \in Locals /\ t.pc = pc /\ t.cmd = r.cmd /\ t.pass = r.pass /\ t.next = r.next
         /\ t.seed = r.seed /\ t.isNew = r.isNew /\ t.tmp = r.tmp
  BY Zenon DEF Locals

\* The new locals of a process that moves on.
LEMMA Moved ==
  ASSUME TypeOK, NEW p \in Procs, NEW r \in Locals, locals' = [locals EXCEPT ![p] = r]
  PROVE  locals' \in [Procs -> Locals] /\ locals'[p] = r /\ \A q \in Procs \ {p} : locals'[q] = locals[q]
  BY Zenon DEF TypeOK

\* The commands: setupWallet, change-passphrase and verify begin.
LEMMA CommandStep ==
  ASSUME WalletOK, WalletInv, NEW p \in Procs, NEW pass \in Passphrases, NEW new \in Passphrases,
         RunStarts(p, pass) \/ ChangeStarts(p, pass, new) \/ VerifyStarts(p, pass)
  PROVE  WalletInv'
<1>0. TypeOK /\ ProcInv(locals[p]) /\ locals[p] \in Locals  BY Zenon DEF WalletInv, TypeOK
<1>1. UNCHANGED <<wallet, durable, fp, tmps, aged, seeds>>
  BY ZenonT(60) DEF RunStarts, ChangeStarts, VerifyStarts, files
<1>2. CASE UNCHANGED locals
  BY <1>1, <1>2 DEF WalletInv, TypeOK, ProcInv, Whole
<1>3. ASSUME NEW r \in Locals, locals' = [locals EXCEPT ![p] = r], ProcInv(r), r.tmp = NoName,
             r.cmd = "run" => \A q \in Procs : locals[q].cmd # "run"
      PROVE  WalletInv'
  <2>1. locals' \in [Procs -> Locals] /\ locals'[p] = r /\ \A q \in Procs \ {p} : locals'[q] = locals[q]
    BY <1>0, <1>3, Moved, Zenon
  <2>2. TypeOK'  BY <1>0, <1>1, <2>1, Zenon DEF TypeOK
  <2>3. ProcInv(locals[p])'  BY <1>1, <1>3, <2>1, ZenonT(60) DEF ProcInv
  <2> QED  BY <1>1, <1>3, <2>1, <2>2, <2>3, ProcStep, Zenon
<1>4. CASE RunStarts(p, pass)
  <2> DEFINE r == [IdleProc EXCEPT !.pc = "open", !.cmd = "run", !.pass = pass]
  <2>1. r.pc = "open" /\ r.cmd = "run" /\ r.pass = pass /\ r.isNew = FALSE /\ r.tmp = NoName
    BY Zenon DEF IdleProc
  <2>2. r \in Locals  BY FileFacts, Zenon DEF Locals, Steps
  <2>3. locals' = [locals EXCEPT ![p] = r] /\ \A q \in Procs : locals[q].cmd # "run"
    BY <1>4, Zenon DEF RunStarts
  <2> HIDE DEF r
  <2>4. ProcInv(r)  BY <2>1, Zenon DEF ProcInv, Saving, WalletOK
  <2> QED  BY <1>3, <2>1, <2>2, <2>3, <2>4, Zenon
<1>5. CASE ChangeStarts(p, pass, new)
  <2> DEFINE r == [IdleProc EXCEPT !.pc = "open", !.cmd = "change", !.pass = pass, !.next = new]
  <2>1. /\ r.pc = "open" /\ r.cmd = "change" /\ r.pass = pass /\ r.next = new /\ r.isNew = FALSE
        /\ r.tmp = NoName
    BY Zenon DEF IdleProc
  <2>2. r \in Locals  BY FileFacts, Zenon DEF Locals, Steps
  <2>3. IF wallet = NoFile THEN UNCHANGED locals ELSE locals' = [locals EXCEPT ![p] = r]
    BY <1>5, Zenon DEF ChangeStarts
  <2> HIDE DEF r
  <2>4. wallet # NoFile => ProcInv(r)  BY <2>1, Zenon DEF ProcInv, Saving, WalletOK
  <2> QED  BY <1>2, <1>3, <2>1, <2>2, <2>3, <2>4, Zenon
<1>6. CASE VerifyStarts(p, pass)
  <2> DEFINE read == [IdleProc EXCEPT !.pc = "compare", !.cmd = "verify",
                                  !.seed = IF fp = Damaged THEN NoSeed ELSE fp]
             open == [IdleProc EXCEPT !.pc = "open", !.cmd = "verify", !.pass = pass]
  <2>1. /\ read.pc = "compare" /\ read.cmd = "verify" /\ read.isNew = FALSE /\ read.tmp = NoName
        /\ open.pc = "open" /\ open.cmd = "verify" /\ open.pass = pass /\ open.isNew = FALSE
        /\ open.tmp = NoName
    BY Zenon DEF IdleProc
  <2>2. (IF fp = Damaged THEN NoSeed ELSE fp) \in 0 .. MaxSeeds
    BY <1>0 DEF TypeOK, NoSeed, Missing, Damaged, WalletOK
  <2>3. read \in Locals /\ open \in Locals  BY <2>2, FileFacts, ZenonT(60) DEF Locals, Steps
  <2>4. \/ locals' = [locals EXCEPT ![p] = read]
        \/ UNCHANGED locals
        \/ wallet # NoFile /\ locals' = [locals EXCEPT ![p] = open]
    BY <1>6, Zenon DEF VerifyStarts
  <2> HIDE DEF read, open
  <2>5. ProcInv(read) /\ (wallet # NoFile => ProcInv(open))
    BY <2>1, Zenon DEF ProcInv, Saving, WalletOK
  <2> QED  BY <1>2, <1>3, <2>1, <2>3, <2>4, <2>5, Zenon
<1> QED  BY <1>4, <1>5, <1>6, Zenon

\* NewWalletManager, the second read of ChangePassphrase, and a save that fails.
LEMMA OpenStep ==
  ASSUME WalletOK, WalletInv, NEW p \in Procs,
         Open(p) \/ Generate(p) \/ Load(p) \/ RestoreSidecar(p) \/ Reread(p) \/ Fails(p)
  PROVE  WalletInv'
<1> DEFINE r == locals[p]
<1>0. /\ TypeOK /\ ProcInv(r) /\ r \in Locals /\ IdleProc \in Locals /\ locals \in [Procs -> Locals]
      /\ wallet # NoFile => wallet.data \in Blobs /\ wallet.data.seed \in 1 .. MaxSeeds
  BY FileFacts, Zenon DEF WalletInv, TypeOK
<1>1. UNCHANGED <<wallet, durable>>
  BY Zenon DEF Open, Generate, Load, RestoreSidecar, Reread, Fails, files
<1>2. ASSUME NEW t \in Locals, locals' = [locals EXCEPT ![p] = t], t.cmd \in {r.cmd, "none"},
             t.tmp \in {r.tmp, NoName}, TypeOK',
             \A n \in Names \ {r.tmp} : tmps'[n] \in {tmps[n], NoFile},
             t = IdleProc \/ (ProcInv(t) /\ t.pc \notin {"sync", "rename"})
      PROVE  WalletInv'
  <2>1. locals'[p] = t /\ \A q \in Procs \ {p} : locals'[q] = locals[q]
    BY <1>0, <1>2, Moved, Zenon
  <2>2. ProcInv(locals[p])'
    <3>1. CASE t = IdleProc  BY <2>1, <3>1, IdleInv, ZenonT(60) DEF ProcInv
    <3>2. CASE ProcInv(t) /\ t.pc \notin {"sync", "rename"}
      BY <1>1, <2>1, <3>2, ZenonT(60) DEF ProcInv
    <3> QED  BY <1>2, <3>1, <3>2, Zenon
  <2> QED  BY <1>1, <1>2, <2>1, <2>2, ProcStep, Zenon
<1>3. CASE Open(p)
  <2> DEFINE t == [r EXCEPT !.pc = IF wallet = NoFile THEN "generate" ELSE "load"]
  <2>1. /\ t \in Locals /\ t.cmd = r.cmd /\ t.pass = r.pass /\ t.next = r.next /\ t.seed = r.seed
        /\ t.isNew = r.isNew /\ t.tmp = r.tmp
        /\ t.pc = IF wallet = NoFile THEN "generate" ELSE "load"
    <3>1. (IF wallet = NoFile THEN "generate" ELSE "load") \in Steps  BY Zenon DEF Steps
    <3> QED  BY <1>0, <3>1, PcMoves
  <2>2. locals' = [locals EXCEPT ![p] = t] /\ r.pc = "open"  BY <1>0, <1>3, Zenon DEF Open, Goto, At
  <2>3. \A n \in Names : tmps'[n] \in {tmps[n], NoFile}  BY <1>3, Zenon DEF Open
  <2>4. TypeOK'  BY <1>0, <1>1, <1>3, <2>1, <2>2, FileFacts, Zenon DEF Open, TypeOK
  <2> HIDE DEF t
  <2>5. ProcInv(t) /\ t.pc \notin {"sync", "rename"}
    BY <1>0, <2>1, <2>2, Zenon DEF ProcInv, Saving
  <2> QED  BY <1>2, <2>1, <2>2, <2>3, <2>4, <2>5, Zenon
<1>4. CASE Generate(p)
  <2> DEFINE t == [r EXCEPT !.pc = "temp", !.seed = seeds + 1, !.isNew = TRUE, !.next = r.pass]
  <2>1. seeds + 1 \in 1 .. MaxSeeds /\ seeds + 1 \in 0 .. MaxSeeds
    BY <1>0, <1>4 DEF Generate, TypeOK, WalletOK
  <2>2. /\ t \in Locals /\ t.cmd = r.cmd /\ t.pass = r.pass /\ t.next = r.pass /\ t.tmp = r.tmp
        /\ t.seed = seeds + 1 /\ t.isNew = TRUE /\ t.pc = "temp"
    <3>1. t \in Locals  BY <1>0, <2>1, ZenonT(60) DEF Locals, Steps, Saving
    <3>2. /\ t.cmd = r.cmd /\ t.pass = r.pass /\ t.next = r.pass /\ t.tmp = r.tmp
          /\ t.seed = seeds + 1 /\ t.isNew = TRUE /\ t.pc = "temp"
      BY <1>0, Zenon DEF Locals
    <3> QED  BY <3>1, <3>2, Zenon
  <2>3. locals' = [locals EXCEPT ![p] = t] /\ r.pc = "generate"
    BY <1>0, <1>4, Zenon DEF Generate, At
  <2>4. TypeOK'  BY <1>0, <1>4, <2>1, <2>2, <2>3 DEF Generate, TypeOK, files
  <2>5. UNCHANGED tmps  BY <1>4, Zenon DEF Generate, files
  <2> HIDE DEF t
  <2>6. ProcInv(t)  BY <1>0, <2>1, <2>2, <2>3 DEF ProcInv, Saving, NoSeed
  <2> QED  BY <1>2, <2>2, <2>3, <2>4, <2>5, <2>6, Zenon
<1>5. CASE Load(p) \/ Reread(p)
  <2> DEFINE seed == DecryptSeed(wallet, r.pass)
             t == [r EXCEPT !.pc = IF r.pc = "load" THEN "sidecar" ELSE "temp", !.seed = seed]
  <2>1. UNCHANGED <<fp, tmps, aged, seeds>> /\ r.pc \in {"load", "reread"}
    BY <1>5, Zenon DEF Load, Reread, At, files
  <2>2. CASE seed = NoSeed
    <3>1. locals' = [locals EXCEPT ![p] = IdleProc]  BY <1>5, <2>2, Zenon DEF Load, Reread, Exit
    <3>2. IdleProc.cmd = "none" /\ IdleProc.tmp = NoName  BY Zenon DEF IdleProc
    <3>3. TypeOK'  BY <1>0, <1>1, <2>1, <3>1, Zenon DEF TypeOK
    <3> QED  BY <1>0, <1>2, <2>1, <3>1, <3>2, <3>3, Zenon
  <2>3. CASE seed # NoSeed
    <3>1. seed \in 1 .. MaxSeeds /\ seed \in 0 .. MaxSeeds /\ seed = wallet.data.seed
      BY <2>3 DEF DecryptSeed, UnmarshalEncryptedSeed, Blobs
    <3>2. locals' = [locals EXCEPT ![p] = t]
      BY <1>0, <1>5, <2>3, <2>1, Zenon DEF Load, Reread, At
    <3>3. /\ t \in Locals /\ t.cmd = r.cmd /\ t.pass = r.pass /\ t.next = r.next /\ t.tmp = r.tmp
          /\ t.seed = seed /\ t.isNew = r.isNew
          /\ t.pc = IF r.pc = "load" THEN "sidecar" ELSE "temp"
      <4> HIDE DEF seed
      <4>1. (IF r.pc = "load" THEN "sidecar" ELSE "temp") \in Steps  BY Zenon DEF Steps, Saving
      <4>3. t \in Locals  BY <1>0, <3>1, <4>1, ZenonT(60) DEF Locals
      <4>2. /\ t.cmd = r.cmd /\ t.pass = r.pass /\ t.next = r.next /\ t.tmp = r.tmp
            /\ t.seed = seed /\ t.isNew = r.isNew
            /\ t.pc = IF r.pc = "load" THEN "sidecar" ELSE "temp"
        BY <1>0, Zenon DEF Locals
      <4> QED  BY <4>3, <4>2, Zenon
    <3> HIDE DEF t, seed
    <3>4. ProcInv(t) /\ t.pc \notin {"sync", "rename"}
      BY <1>0, <2>1, <3>1, <3>3 DEF ProcInv, Saving, NoSeed
    <3>5. TypeOK'  BY <1>0, <1>1, <2>1, <3>2, <3>3, Zenon DEF TypeOK
    <3> QED  BY <1>2, <2>1, <3>2, <3>3, <3>4, <3>5, Zenon
  <2> QED  BY <2>2, <2>3, Zenon
<1>6. CASE RestoreSidecar(p)
  <2>1. UNCHANGED <<tmps, aged, seeds>> /\ r.pc = "sidecar"
    BY <1>6, Zenon DEF RestoreSidecar, At
  <2>2. r.seed \in 1 .. MaxSeeds /\ r.cmd \in {"run", "change", "verify"} /\ wallet # NoFile
        /\ r.isNew = FALSE
    <3>1. /\ r.seed \in 0 .. MaxSeeds /\ r.cmd \in {"none", "run", "change", "verify"}
          /\ r.isNew \in BOOLEAN
      BY <1>0, Zenon DEF Locals
    <3>2. r.seed # NoSeed /\ r.cmd # "none" /\ wallet # NoFile /\ ~r.isNew
      BY <1>0, <2>1, Zenon DEF ProcInv, Saving
    <3> QED  BY <3>1, <3>2 DEF NoSeed
  <2>3. fp' \in {Missing, Damaged} \union 1 .. MaxSeeds
    BY <1>0, <1>6, <2>2, Zenon DEF RestoreSidecar, WriteFingerprint, TypeOK
  <2>4. CASE r.cmd = "run"
    <3>1. locals' = [locals EXCEPT ![p] = IdleProc]  BY <1>6, <2>4, Zenon DEF RestoreSidecar, Exit
    <3>2. IdleProc.cmd = "none" /\ IdleProc.tmp = NoName  BY Zenon DEF IdleProc
    <3>3. TypeOK'  BY <1>0, <1>1, <2>1, <2>3, <3>1, Zenon DEF TypeOK
    <3> QED  BY <1>0, <1>2, <2>1, <3>1, <3>2, <3>3, Zenon
  <2>5. CASE r.cmd # "run"
    <3> DEFINE t == [r EXCEPT !.pc = IF r.cmd = "change" THEN "reread" ELSE "compare"]
    <3>1. locals' = [locals EXCEPT ![p] = t]
      BY <1>0, <1>6, <2>2, <2>5, Zenon DEF RestoreSidecar, Goto
    <3>2. /\ t \in Locals /\ t.cmd = r.cmd /\ t.pass = r.pass /\ t.next = r.next /\ t.tmp = r.tmp
          /\ t.seed = r.seed /\ t.isNew = r.isNew
          /\ t.pc = IF r.cmd = "change" THEN "reread" ELSE "compare"
      <4>1. (IF r.cmd = "change" THEN "reread" ELSE "compare") \in Steps  BY Zenon DEF Steps
      <4> QED  BY <1>0, <4>1, PcMoves
    <3> HIDE DEF t
    <3>3. ProcInv(t) /\ t.pc \notin {"sync", "rename"}
      BY <1>0, <2>1, <2>2, <2>5, <3>2, Zenon DEF ProcInv, Saving
    <3>4. TypeOK'  BY <1>0, <1>1, <2>1, <2>3, <3>1, <3>2, Zenon DEF TypeOK
    <3> QED  BY <1>2, <2>1, <3>1, <3>2, <3>3, <3>4, Zenon
  <2> QED  BY <2>4, <2>5, Zenon
<1>7. CASE Fails(p)
  <2>1. locals' = [locals EXCEPT ![p] = IdleProc] /\ UNCHANGED <<fp, seeds>>
    BY <1>7, Zenon DEF Fails, Exit
  <2>2. IdleProc.cmd = "none" /\ IdleProc.tmp = NoName  BY Zenon DEF IdleProc
  <2>3. \A n \in Names : tmps'[n] \in {tmps[n], NoFile}  BY <1>7, Zenon DEF Fails
  <2>4. TypeOK'  BY <1>0, <1>1, <1>7, <2>1, FileFacts, Zenon DEF TypeOK, Fails
  <2> QED  BY <1>0, <1>2, <2>1, <2>2, <2>3, <2>4, Zenon
<1> QED  BY <1>3, <1>4, <1>5, <1>6, <1>7, Zenon

\* save up to the rename, the end of createNew, and a process that ends or is killed.
LEMMA SaveStep ==
  ASSUME WalletOK, WalletInv, NEW p \in Procs,
         \/ CreateTemp(p) \/ WriteTemp(p) \/ SyncTemp(p) \/ NewSidecar(p)
         \/ PrintPhrase(p) \/ Compare(p) \/ Killed(p)
  PROVE  WalletInv'
<1> DEFINE r == locals[p]
<1>0. /\ TypeOK /\ ProcInv(r) /\ r \in Locals /\ IdleProc \in Locals /\ locals \in [Procs -> Locals]
      /\ tmps \in [Names -> Files] /\ wallet' = wallet /\ durable' = durable /\ seeds' = seeds
  BY FileFacts, Zenon
  DEF WalletInv, TypeOK, CreateTemp, WriteTemp, SyncTemp, NewSidecar, PrintPhrase, Compare,
      Killed, files
<1>1. ASSUME PrintPhrase(p) \/ Compare(p) \/ Killed(p) PROVE WalletInv'
  <2>1. locals' = [locals EXCEPT ![p] = IdleProc] /\ UNCHANGED <<fp, tmps, aged>>
    BY <1>1, Zenon DEF PrintPhrase, Compare, Killed, Exit, files
  <2>2. IdleProc.cmd = "none" /\ IdleProc.tmp = NoName  BY Zenon DEF IdleProc
  <2>3. locals' \in [Procs -> Locals] /\ locals'[p] = IdleProc /\ \A q \in Procs \ {p} : locals'[q] = locals[q]
    BY <1>0, <2>1, Moved, Zenon
  <2>4. TypeOK'  BY <1>0, <2>1, <2>3, Zenon DEF TypeOK
  <2>5. ProcInv(locals[p])'  BY <2>3, IdleInv, ZenonT(60) DEF ProcInv
  <2> QED  BY <1>0, <2>1, <2>2, <2>3, <2>4, <2>5, ProcStep, Zenon
<1>2. ASSUME CreateTemp(p) PROVE WalletInv'
  <2>1. PICK n \in Names :
          /\ tmps[n] = NoFile /\ \A q \in Procs : locals[q].tmp # n
          /\ tmps' = [tmps EXCEPT ![n] = [data |-> Torn, synced |-> FALSE]]
          /\ locals' = [locals EXCEPT ![p].pc = "write", ![p].tmp = n]
    BY <1>2, Zenon DEF CreateTemp
  <2> DEFINE t == [r EXCEPT !.pc = "write", !.tmp = n]
  <2>2. /\ t \in Locals /\ t.cmd = r.cmd /\ t.pass = r.pass /\ t.next = r.next /\ t.tmp = n
        /\ t.seed = r.seed /\ t.isNew = r.isNew /\ t.pc = "write"
    BY <1>0, ZenonT(60) DEF Locals, Steps, Saving
  <2>3. locals' = [locals EXCEPT ![p] = t]  BY <1>0, <2>1, Zenon
  <2> HIDE DEF t
  <2>4. locals' \in [Procs -> Locals] /\ locals'[p] = t /\ \A q \in Procs \ {p} : locals'[q] = locals[q]
    BY <1>0, <2>2, <2>3, Moved, Zenon
  <2>5. tmps' \in [Names -> Files] /\ \A m \in Names \ {n} : tmps'[m] = tmps[m]
    BY <1>0, <2>1, Zenon DEF Files
  <2>6. r.pc = "temp" /\ UNCHANGED <<fp, aged>>  BY <1>2, Zenon DEF CreateTemp, At
  <2>7. TypeOK'  BY <1>0, <2>4, <2>5, <2>6, Zenon DEF TypeOK
  <2>8. ProcInv(locals[p])'  BY <1>0, <2>2, <2>4, <2>6, Zenon DEF ProcInv, Saving
  <2> QED  BY <1>0, <2>1, <2>2, <2>4, <2>5, <2>7, <2>8, ProcStep
<1>3. ASSUME WriteTemp(p) \/ SyncTemp(p) \/ NewSidecar(p) PROVE WalletInv'
  <2> DEFINE next == IF r.pc = "write" THEN "sync" ELSE IF r.pc = "sync" THEN "rename" ELSE "print"
             t == [r EXCEPT !.pc = next]
  <2>1. /\ r.pc \in {"write", "sync", "fingerprint"} /\ aged' = aged
        /\ locals' = [locals EXCEPT ![p] = t]
        /\ r.pc = "write" => WriteTemp(p)
        /\ r.pc = "sync" => SyncTemp(p)
        /\ r.pc = "fingerprint" => NewSidecar(p)
    BY <1>0, <1>3, Zenon DEF WriteTemp, SyncTemp, NewSidecar, At, Goto
  <2>2. /\ t \in Locals /\ t.cmd = r.cmd /\ t.pass = r.pass /\ t.next = r.next /\ t.tmp = r.tmp
        /\ t.seed = r.seed /\ t.isNew = r.isNew /\ t.pc = next
    <3>1. next \in Steps  BY Zenon DEF Steps, Saving
    <3> QED  BY <1>0, <3>1, PcMoves
  <2> HIDE DEF t
  <2>4. locals' \in [Procs -> Locals] /\ locals'[p] = t /\ \A q \in Procs \ {p} : locals'[q] = locals[q]
    BY <1>0, <2>1, <2>2, Moved, Zenon
  <2>5. /\ r.pc \in {"write", "sync"} => r.tmp \in Names /\ EncryptSeed(r.seed, r.next) \in Blobs
        /\ r.seed \in 0 .. MaxSeeds
    <3>1. r.seed \in 0 .. MaxSeeds  BY <1>0, Zenon DEF Locals
    <3>2. r.pc \in {"write", "sync"} => r.tmp \in Names /\ r.seed # NoSeed /\ r.next \in Passphrases
      BY <1>0, Zenon DEF ProcInv, Saving
    <3> QED  BY <3>1, <3>2 DEF EncryptSeed, Blobs, NoSeed
  <2> DEFINE blob == EncryptSeed(r.seed, r.next)
  <2> HIDE DEF next
  <2>6. CASE r.pc = "write"
    <3>1. tmps' = [n \in Names |-> IF n = r.tmp /\ tmps[n] # NoFile
                                  THEN [tmps[n] EXCEPT !.data = blob] ELSE tmps[n]]
          /\ fp' = fp
      BY <2>1, <2>6, Zenon DEF WriteTemp
    <3>2. blob \in Blobs  BY <2>5, <2>6, Zenon
    <3> HIDE DEF blob
    <3>3. tmps' \in [Names -> Files] /\ \A n \in Names \ {r.tmp} : tmps'[n] = tmps[n]
      BY <1>0, <3>1, <3>2, ZenonT(60) DEF Files
    <3>4. tmps[r.tmp] = NoFile => tmps'[r.tmp] = NoFile  BY <2>5, <2>6, <3>1, Zenon
    <3>5. tmps[r.tmp] # NoFile => tmps'[r.tmp].data = blob
      BY <1>0, <2>5, <2>6, <3>1, Zenon DEF Files
    <3>6. TypeOK'  BY <1>0, <2>1, <2>4, <3>1, <3>3, Zenon DEF TypeOK
    <3>7. ProcInv(locals[p])'
      BY <1>0, <2>2, <2>4, <2>5, <2>6, <3>4, <3>5, ZenonT(60) DEF ProcInv, Saving, blob, next
    <3> QED  BY <1>0, <2>2, <2>4, <3>3, <3>6, <3>7, ProcStep, Zenon
  <2>7. CASE r.pc = "sync"
    <3>1. tmps' = [n \in Names |-> IF n = r.tmp /\ tmps[n] # NoFile
                                  THEN [tmps[n] EXCEPT !.synced = TRUE] ELSE tmps[n]]
          /\ fp' = fp
      BY <2>1, <2>7, Zenon DEF SyncTemp
    <3>3. tmps' \in [Names -> Files] /\ \A n \in Names \ {r.tmp} : tmps'[n] = tmps[n]
      BY <1>0, <3>1, ZenonT(60) DEF Files
    <3>4. tmps[r.tmp] = NoFile => tmps'[r.tmp] = NoFile  BY <2>5, <2>7, <3>1, Zenon
    <3>5. tmps[r.tmp] # NoFile => tmps'[r.tmp].data = tmps[r.tmp].data /\ tmps'[r.tmp].synced = TRUE
      BY <1>0, <2>5, <2>7, <3>1, Zenon DEF Files
    <3>6. TypeOK'  BY <1>0, <2>1, <2>4, <3>1, <3>3, Zenon DEF TypeOK
    <3>7. ProcInv(locals[p])'
      BY <1>0, <2>2, <2>4, <2>5, <2>7, <3>4, <3>5, ZenonT(60) DEF ProcInv, Saving, next
    <3> QED  BY <1>0, <2>2, <2>4, <3>3, <3>6, <3>7, ProcStep, Zenon
  <2>8. CASE r.pc = "fingerprint"
    <3>1. UNCHANGED tmps /\ fp' \in {fp, Damaged, r.seed}
      BY <2>1, <2>8, Zenon DEF NewSidecar, WriteFingerprint
    <3>2. r.seed # NoSeed  BY <1>0, <2>8, Zenon DEF ProcInv
    <3>3. fp' \in {Missing, Damaged} \union 1 .. MaxSeeds
      BY <1>0, <2>5, <3>1, <3>2 DEF TypeOK, NoSeed
    <3>4. TypeOK'  BY <1>0, <2>1, <2>4, <3>1, <3>3, Zenon DEF TypeOK
    <3>5. ProcInv(locals[p])'  BY <1>0, <2>2, <2>4, <2>8, <3>1, Zenon DEF ProcInv, Saving, next
    <3> QED  BY <1>0, <2>2, <2>4, <3>1, <3>4, <3>5, ProcStep, Zenon
  <2> QED  BY <2>1, <2>6, <2>7, <2>8, Zenon
<1> QED  BY <1>1, <1>2, <1>3, Zenon

\* The rename brings a whole file: the first wallet, or the same seed encrypted anew.
LEMMA RenameStep ==
  ASSUME WalletOK, WalletInv, NEW p \in Procs, Rename(p)
  PROVE  /\ WalletInv' /\ durable' = durable /\ wallet'.data \in Blobs
         /\ wallet # NoFile => wallet'.data.seed = wallet.data.seed
<1> DEFINE r == locals[p]
           file == tmps[r.tmp]
<1>0. /\ TypeOK /\ ProcInv(r) /\ r \in Locals /\ IdleProc \in Locals /\ locals \in [Procs -> Locals]
      /\ tmps \in [Names -> Files] /\ NoFile \in Files
  BY FileFacts, Zenon DEF WalletInv, TypeOK
<1>1. /\ r.pc = "rename" /\ file # NoFile /\ wallet' = file
      /\ tmps' = [tmps EXCEPT ![r.tmp] = NoFile]
      /\ aged' = aged \ {r.tmp} /\ UNCHANGED <<durable, fp, seeds>>
  BY Zenon DEF Rename, At
<1>2. r.tmp \in Names /\ r.seed # NoSeed /\ r.next \in Passphrases
      /\ file.data = EncryptSeed(r.seed, r.next) /\ file.synced
  BY <1>0, <1>1, Zenon DEF ProcInv, Saving
<1>3. file.data \in Blobs /\ file.data.seed = r.seed /\ file \in Files
  <2>1. r.seed \in 0 .. MaxSeeds  BY <1>0, Zenon DEF Locals
  <2> QED  BY <1>0, <1>2, <2>1 DEF EncryptSeed, Blobs, NoSeed
<1>4. Whole(wallet)' /\ wallet' # NoFile
  BY <1>1, <1>2, <1>3, Zenon DEF Whole
<1>5. IF r.isNew THEN wallet = NoFile /\ r.cmd = "run"
      ELSE wallet # NoFile /\ r.seed = wallet.data.seed
  BY <1>0, <1>1, Zenon DEF ProcInv, Saving
<1>6. wallet # NoFile => wallet'.data.seed = wallet.data.seed  BY <1>1, <1>3, <1>5, Zenon
<1> DEFINE t == IF r.isNew THEN [r EXCEPT !.pc = "fingerprint", !.tmp = NoName] ELSE IdleProc
<1>7. locals' = [locals EXCEPT ![p] = t]  BY <1>0, <1>1, Zenon DEF Rename, Exit
<1>8. /\ t \in Locals /\ t.cmd \in {r.cmd, "none"} /\ t.tmp = NoName
      /\ \/ t = IdleProc
         \/ /\ t.pc = "fingerprint" /\ t.cmd = "run" /\ t.seed = r.seed /\ t.pass = r.pass
            /\ t.isNew = TRUE
  <2>1. IdleProc.cmd = "none" /\ IdleProc.tmp = NoName  BY Zenon DEF IdleProc
  <2>2. CASE r.isNew
    BY <1>0, <1>5, <2>2, ZenonT(60) DEF Locals, Steps
  <2> QED  BY <1>0, <2>1, <2>2, Zenon
<1> HIDE DEF t
<1>9. locals' \in [Procs -> Locals] /\ locals'[p] = t /\ \A q \in Procs \ {p} : locals'[q] = locals[q]
  BY <1>0, <1>7, <1>8, Moved, Zenon
<1>10. ProcInv(locals[p])'
  <2>1. CASE t = IdleProc  BY <1>9, <2>1, IdleInv, ZenonT(60) DEF ProcInv
  <2>2. CASE t.pc = "fingerprint"
    <3>1. t.cmd = "run" /\ t.seed # NoSeed /\ t.pass \in Passphrases /\ t.tmp \notin Names
      <4>1. IdleProc.pc # "fingerprint"  BY Zenon DEF IdleProc
      <4>2. t.cmd = "run" /\ t.seed = r.seed /\ t.pass = r.pass  BY <1>8, <2>2, <4>1, Zenon
      <4>3. r.pass \in Passphrases  BY <1>0, <1>1, Zenon DEF ProcInv
      <4> QED  BY <1>2, <1>8, <4>2, <4>3, Zenon DEF WalletOK
    <3> QED  BY <1>9, <2>2, <3>1, Zenon DEF ProcInv, Saving
  <2> QED  BY <1>8, <2>1, <2>2, Zenon
<1>11. ASSUME NEW q \in Procs, q # p PROVE ProcInv(locals[q])'
  <2>1. locals'[q] = locals[q] /\ ProcInv(locals[q])  BY <1>9, <1>11, Zenon DEF WalletInv
  <2>2. ~(locals[q].cmd = "run" /\ r.cmd = "run") /\ (locals[q].tmp \in Names => locals[q].tmp # r.tmp)
    BY <1>11, Zenon DEF WalletInv, WalletOK
  <2>3. locals[q].tmp \in Names => tmps'[locals[q].tmp] = tmps[locals[q].tmp]
    BY <1>0, <1>1, <2>2, Zenon
  <2>4. CASE r.isNew  BY <1>4, <1>5, <2>1, <2>2, <2>3, <2>4, ZenonT(60) DEF ProcInv
  <2>5. CASE ~r.isNew  BY <1>4, <1>5, <1>6, <2>1, <2>3, <2>5, ZenonT(60) DEF ProcInv
  <2> QED  BY <2>4, <2>5, Zenon
<1>12. \A q, s \in Procs : q # s =>
         /\ ~(locals'[q].cmd = "run" /\ locals'[s].cmd = "run")
         /\ locals'[q].tmp = locals'[s].tmp => locals'[q].tmp = NoName
  BY <1>8, <1>9 DEF WalletInv
<1>13. TypeOK'  BY <1>0, <1>1, <1>3, <1>9, Zenon DEF TypeOK
<1>14. /\ Whole(durable)'
       /\ (durable # NoFile => wallet # NoFile /\ wallet.data.seed = durable.data.seed)'
  BY <1>1, <1>4, <1>6, Zenon DEF WalletInv, Whole
<1> QED  BY <1>1, <1>3, <1>4, <1>6, <1>10, <1>11, <1>12, <1>13, <1>14, Zenon DEF WalletInv

\* What the file system does by itself: a temporary ages, the wallet reaches the disk, and
\* power is lost, after which the wallet is one of the two and no process is left.
LEMMA SystemStep ==
  ASSUME WalletOK, WalletInv, (\E n \in Names : Ages(n)) \/ Flush \/ PowerLoss
  PROVE  /\ WalletInv'
         /\ \/ UNCHANGED <<wallet, durable>>
            \/ wallet' = wallet /\ durable' = wallet
            \/ wallet' = durable /\ durable' = durable
<1>0. /\ TypeOK /\ Whole(wallet) /\ Whole(durable) /\ wallet \in Files /\ durable \in Files
      /\ tmps \in [Names -> Files]
  BY ZenonT(60) DEF WalletInv, TypeOK
<1>1. ASSUME NEW n \in Names, Ages(n) PROVE WalletInv' /\ UNCHANGED <<wallet, durable>>
  <2>1. UNCHANGED <<wallet, durable, fp, tmps, locals, seeds>> /\ aged' \subseteq Names
    BY <1>0, <1>1, ZenonT(60) DEF Ages, TypeOK
  <2> QED  BY <2>1 DEF WalletInv, TypeOK, ProcInv, Whole
<1>2. CASE Flush
  <2>1. UNCHANGED <<wallet, fp, tmps, aged, locals, seeds>> /\ durable' = wallet
    BY <1>2, Zenon DEF Flush
  <2> QED  BY <2>1 DEF WalletInv, TypeOK, ProcInv, Whole
<1>3. CASE PowerLoss
  <2>1. /\ locals' = [p \in Procs |-> IdleProc] /\ UNCHANGED <<aged, seeds>>
        /\ wallet' \in Survives(wallet) \union Survives(durable) /\ durable' = wallet'
        /\ fp' \in {Missing, Damaged, fp}
        /\ tmps' \in [Names -> UNION {Survives(tmps[n]) : n \in Names}]
        /\ \A n \in Names : tmps'[n] \in Survives(tmps[n])
    BY <1>3, Zenon DEF PowerLoss
  <2>2. Survives(wallet) = {wallet} /\ Survives(durable) = {durable}
    BY <1>0, ZenonT(60) DEF Survives, Whole, Files
  <2>3. \A n \in Names : Survives(tmps[n]) \subseteq Files
    <3>1. ASSUME NEW f \in Files PROVE Survives(f) \subseteq Files
      <4>1. [f EXCEPT !.synced = TRUE] \in Files  BY Zenon DEF Files
      <4>2. [data |-> Torn, synced |-> TRUE] \in Files  BY Zenon DEF Files
      <4> QED  BY <4>1, <4>2, Zenon DEF Survives
    <3> QED  BY <1>0, <3>1, Zenon
  <2>4. wallet' \in {wallet, durable} /\ durable' = wallet'  BY <2>1, <2>2, Zenon
  <2>5. TypeOK'  BY <1>0, <2>1, <2>3, <2>4, FileFacts, Zenon DEF TypeOK
  <2>6. \A p \in Procs : locals'[p] = IdleProc /\ ProcInv(locals[p])'
    BY <2>1, IdleInv, ZenonT(60) DEF ProcInv
  <2>7. IdleProc.cmd = "none" /\ IdleProc.tmp = NoName  BY Zenon DEF IdleProc
  <2> QED  BY <1>0, <2>4, <2>5, <2>6, <2>7, Zenon DEF WalletInv, Whole
<1> QED  BY <1>1, <1>2, <1>3, Zenon

\* Every step keeps the invariant and does to the two files one of four things.
LEMMA WalletStep ==
  ASSUME WalletOK, WalletInv, [WalletNext]_walletVars
  PROVE  /\ WalletInv'
         /\ \/ UNCHANGED <<wallet, durable>>
            \/ /\ wallet'.data \in Blobs /\ durable' = durable
               /\ wallet # NoFile => wallet'.data.seed = wallet.data.seed
            \/ wallet' = wallet /\ durable' = wallet
            \/ wallet' = durable /\ durable' = durable
<1>1. CASE UNCHANGED walletVars
  <2>1. UNCHANGED <<wallet, durable, fp, tmps, aged, locals, seeds>>  BY <1>1, Zenon DEF walletVars
  <2> QED  BY <2>1 DEF WalletInv, TypeOK, ProcInv, Whole
<1>2. ASSUME NEW p \in Procs, NEW pass \in Passphrases, NEW new \in Passphrases,
             RunStarts(p, pass) \/ ChangeStarts(p, pass, new) \/ VerifyStarts(p, pass)
      PROVE  WalletInv' /\ UNCHANGED <<wallet, durable>>
  <2>1. WalletInv'  BY <1>2, CommandStep, Zenon
  <2>2. UNCHANGED <<wallet, durable>>
    BY <1>2, Zenon DEF RunStarts, VerifyStarts, ChangeStarts, files
  <2> QED  BY <2>1, <2>2, Zenon
<1>4. ASSUME NEW p \in Procs,
             Open(p) \/ Generate(p) \/ Load(p) \/ RestoreSidecar(p) \/ Reread(p) \/ Fails(p)
      PROVE  WalletInv' /\ UNCHANGED <<wallet, durable>>
  <2>1. WalletInv'  BY <1>4, OpenStep, Zenon
  <2>2. UNCHANGED <<wallet, durable>>
    BY <1>4, Zenon DEF Open, Generate, Load, RestoreSidecar, Reread, Fails, files
  <2> QED  BY <2>1, <2>2, Zenon
<1>5. ASSUME NEW p \in Procs,
             \/ CreateTemp(p) \/ WriteTemp(p) \/ SyncTemp(p) \/ NewSidecar(p)
             \/ PrintPhrase(p) \/ Compare(p) \/ Killed(p)
      PROVE  WalletInv' /\ UNCHANGED <<wallet, durable>>
  <2>1. WalletInv'  BY <1>5, SaveStep, Zenon
  <2>2. UNCHANGED <<wallet, durable>>
    BY <1>5, Zenon
    DEF CreateTemp, WriteTemp, SyncTemp, NewSidecar, PrintPhrase, Compare, Killed, files
  <2> QED  BY <2>1, <2>2, Zenon
<1>6. ASSUME NEW p \in Procs, Rename(p)
      PROVE  /\ WalletInv' /\ wallet'.data \in Blobs /\ durable' = durable
             /\ wallet # NoFile => wallet'.data.seed = wallet.data.seed
  BY <1>6, RenameStep, Zenon
<1>7. ASSUME (\E n \in Names : Ages(n)) \/ Flush \/ PowerLoss
      PROVE  /\ WalletInv'
             /\ \/ UNCHANGED <<wallet, durable>>
                \/ wallet' = wallet /\ durable' = wallet
                \/ wallet' = durable /\ durable' = durable
  BY <1>7, SystemStep, Zenon
<1> QED  BY <1>1, <1>2, <1>4, <1>5, <1>6, <1>7, ZenonT(60) DEF WalletNext

\* WalletInv holds whatever the processes, the operating system and its failures do.
LEMMA Wallets == ASSUME WalletOK PROVE WalletSpec => []WalletInv
<1>1. WalletInit => WalletInv  BY WalletStarts, Zenon
<1>2. WalletInv /\ [WalletNext]_walletVars => WalletInv'  BY WalletStep, Zenon
<1> QED  BY <1>1, <1>2, PTL DEF WalletSpec

\* save of wallet.go implements AtomicStore: a reader of wallet.dat finds a whole encrypted
\* seed or no file, whichever process is killed between whichever of its system calls,
\* whatever temporary another one sweeps and whenever power is lost.
THEOREM SaveIsAtomic == ASSUME WalletOK PROVE WalletSpec => AtomicReplace
<1>1. WalletInit => Store!Init  BY DEF WalletInit, Store!Init, NoFile
<1>2. WalletInv /\ [WalletNext]_walletVars => [Store!Next]_(Store!vars)
  <2> SUFFICES ASSUME WalletInv, [WalletNext]_walletVars PROVE [Store!Next]_(Store!vars)
    BY Zenon
  <2>1. CASE UNCHANGED <<wallet, durable>>  BY <2>1, Zenon DEF Store!vars
  <2>2. CASE wallet'.data \in Blobs /\ durable' = durable
    BY <2>2, Zenon DEF Store!Next, Store!Put
  <2>3. CASE wallet' = wallet /\ durable' = wallet
    BY <2>3, Zenon DEF Store!Next, Store!Flush
  <2>4. CASE wallet' = durable /\ durable' = durable
    BY <2>4, Zenon DEF Store!Next, Store!PowerLoss
  <2> QED  BY <2>1, <2>2, <2>3, <2>4, WalletStep, Zenon
<1> QED  BY <1>1, <1>2, Wallets, PTL DEF WalletSpec, AtomicReplace, Store!Spec

\* The seed that reached the disk is never replaced by another one: ChangePassphrase encrypts
\* the seed it read, and createNew only runs where no wallet.dat was found.
THEOREM SeedStays == ASSUME WalletOK PROVE WalletSpec => SeedKept
<1>1. WalletInv /\ [WalletNext]_walletVars =>
        [durable # NoFile => durable'.data.seed = durable.data.seed]_durable
  BY WalletStep, Zenon DEF WalletInv
<1> QED  BY <1>1, Wallets, PTL DEF WalletSpec, SeedKept

-----------------------------------------------------------------------------
\* The metrics and the accountants before the first session.
LEMMA StatsStarts == ASSUME StatsInit PROVE StatsInv
<1>1. Fresh \in [primed : BOOLEAN, lastTotal : Nat, lastTime : Nat, stallCount : Nat,
        warned : BOOLEAN, ticked : BOOLEAN, lastTick : Nat, accum : 0 .. 1, sats : Nat,
        lastDropped : Nat]
  BY DEF Fresh
<1> QED  BY <1>1 DEF StatsInit, StatsInv, NoPhantomUptime, Fresh

\* Splitting half seconds into whole seconds and a rest.
LEMMA HalfSeconds ==
  ASSUME NEW k \in Nat
  PROVE  /\ k \in Nat /\ k % 2 \in 0 .. 1 /\ k \div 2 \in Nat
         /\ 2 * (k \div 2) + (k % 2) = k
<1>1. k % 2 \in 0 .. 1  OBVIOUS
<1>2. k \div 2 \in Nat  OBVIOUS
<1>3. 2 * (k \div 2) + (k % 2) = k  OBVIOUS
<1> QED  BY <1>1, <1>2, <1>3, Zenon

\* A tick accounts e half seconds, of the d in which the workers hashed.
LEMMA StatsTicks == ASSUME StatsInv, StatsTick PROVE StatsInv'
<1> DEFINE Accs == [primed : BOOLEAN, lastTotal : Nat, lastTime : Nat, stallCount : Nat,
                    warned : BOOLEAN, ticked : BOOLEAN, lastTick : Nat, accum : 0 .. 1, sats : Nat,
                    lastDropped : Nat]
           productive == Rate(acc) /\ ~Stalled(acc)
           e == IF productive THEN Elapsed(acc) ELSE 0
           d == IF acc.primed /\ hashes > acc.lastTotal THEN now - acc.lastTime ELSE 0
           accum == acc.accum + e
           a1 == updateLiveness(acc)
           a2 == [a1 EXCEPT !.sats = acc.sats + e]
           a3 == [a2 EXCEPT !.ticked = TRUE, !.accum = accum % 2, !.lastTick = now]
           a4 == [a3 EXCEPT !.primed = TRUE, !.lastTotal = hashes, !.lastTime = now]
           a5 == [a4 EXCEPT !.lastDropped = drops]
<1>0. /\ now \in Nat /\ hashes \in Nat /\ drops \in Nat /\ acc \in Accs
      /\ metric \in [dropped : Nat, productive : Nat, up : BOOLEAN]
      /\ seen \in [drops : Nat, busy : Nat] /\ acc.ticked = acc.primed
      /\ acc.lastTick = acc.lastTime /\ acc.lastTime <= now
      /\ 2 * metric.productive + acc.accum <= seen.busy /\ acc.sats <= seen.busy
  BY Zenon DEF StatsInv, NoPhantomUptime
<1>1. e \in Nat /\ d \in Nat /\ e <= d
  <2>1. acc.lastTime \in Nat /\ now - acc.lastTime \in Nat  BY <1>0
  <2>2. productive => acc.primed /\ hashes > acc.lastTotal  BY Zenon DEF Rate
  <2>3. productive => e = now - acc.lastTime  BY <1>0, <2>2, Zenon DEF Elapsed
  <2>4. ~productive => e = 0  BY Zenon
  <2> HIDE DEF productive, e
  <2> QED  BY <2>1, <2>2, <2>3, <2>4
<1> DEFINE Same(a) == a.accum = acc.accum /\ a.ticked = acc.ticked /\ a.lastTick = acc.lastTick
<1>2. a1 \in Accs /\ Same(a1)
  <2>1. [acc EXCEPT !.stallCount = 0, !.warned = FALSE] \in Accs
        /\ Same([acc EXCEPT !.stallCount = 0, !.warned = FALSE])
    BY <1>0, Zenon
  <2>2. ASSUME NEW n \in Nat, NEW w \in BOOLEAN
        PROVE  /\ [acc EXCEPT !.stallCount = n, !.warned = w] \in Accs
               /\ Same([acc EXCEPT !.stallCount = n, !.warned = w])
    BY <1>0, <2>2, Zenon
  <2>3. (IF acc.stallCount < MaxStall THEN acc.stallCount + 1 ELSE acc.stallCount) \in Nat
        /\ (acc.warned \/ acc.stallCount + 1 >= MaxStall) \in BOOLEAN
    BY <1>0
  <2>4. Observe(acc) \in Accs /\ Same(Observe(acc))
    BY <2>1, <2>2, <2>3, ZenonT(60) DEF Observe
  <2> QED  BY <1>0, <2>4, Zenon DEF updateLiveness
<1>3. /\ acc' = a5 /\ seen' = [drops |-> drops, busy |-> seen.busy + d]
      /\ metric' = [metric EXCEPT !.dropped = @ + droppedDelta(acc),
                                  !.productive = @ + accum \div 2, !.up = ~Stalled(acc)]
      /\ UNCHANGED <<now, hashes, drops>>
  <2>1. Same(a2)
    <3> HIDE DEF a1, e
    <3> QED  BY <1>2, Zenon
  <2>2. Elapsed(a2) = Elapsed(acc)
    <3> HIDE DEF a2
    <3> QED  BY <2>1, Zenon DEF Elapsed
  <2>3. satsObserve(acc, productive) = acc.sats + e  BY Zenon DEF satsObserve
  <2>4. uptimeObserve(a2, productive) = [acc |-> a3, whole |-> accum \div 2]
    BY <2>1, <2>2, Zenon DEF uptimeObserve
  <2>5. observeHashes(a3) = a4  BY Zenon DEF observeHashes
  <2>6. LET new == uptimeObserve(
                     [a1 EXCEPT !.sats = satsObserve(acc, productive)], productive)
        IN /\ acc' = [observeHashes(new.acc) EXCEPT !.lastDropped = drops]
           /\ metric' = [metric EXCEPT !.dropped = @ + droppedDelta(acc),
                                       !.productive = @ + new.whole, !.up = ~Stalled(acc)]
           /\ seen' = [drops |-> drops, busy |-> seen.busy + d] /\ UNCHANGED <<now, hashes, drops>>
    BY Zenon DEF StatsTick
  <2>7. [acc |-> a3, whole |-> accum \div 2].acc = a3
        /\ [acc |-> a3, whole |-> accum \div 2].whole = accum \div 2
    BY Zenon
  <2> HIDE DEF productive, e, d, a1, accum
  <2>8. [a1 EXCEPT !.sats = satsObserve(acc, productive)] = a2  BY <2>3, Zenon
  <2> HIDE DEF a2, a3, a4
  <2> QED  BY <2>4, <2>5, <2>6, <2>7, <2>8, Zenon
<1>4. a5 \in Accs
  <2>1. accum % 2 \in 0 .. 1 /\ acc.sats + e \in Nat  BY <1>0, <1>1
  <2>2. a2 \in Accs
    <3> HIDE DEF a1, e
    <3> QED  BY <1>0, <1>2, <2>1, Zenon
  <2> HIDE DEF a2
  <2>3. a3 \in Accs
    <3> HIDE DEF accum
    <3> QED  BY <1>0, <2>1, <2>2, Zenon
  <2> HIDE DEF a3
  <2>4. a4 \in Accs  BY <1>0, <2>3, Zenon
  <2> HIDE DEF a4
  <2> QED  BY <1>0, <2>4, Zenon
<1>5. /\ a5.accum = accum % 2 /\ a5.sats = acc.sats + e /\ a5.ticked = TRUE /\ a5.primed = TRUE
      /\ a5.lastTick = now /\ a5.lastTime = now
  <2> DEFINE i == acc.sats + e
             m == accum % 2
  <2> HIDE DEF a1, e, accum, i, m
  <2>1. a5 = [[[[a1 EXCEPT !.sats = i] EXCEPT !.ticked = TRUE, !.accum = m, !.lastTick = now]
                EXCEPT !.primed = TRUE, !.lastTotal = hashes, !.lastTime = now]
               EXCEPT !.lastDropped = drops]
    BY Zenon DEF i, m
  <2>2. a5.accum = m /\ a5.sats = i /\ a5.ticked = TRUE /\ a5.primed = TRUE
        /\ a5.lastTick = now /\ a5.lastTime = now
    BY <1>2, <2>1, Zenon
  <2> QED  BY <2>2, Zenon DEF i, m
<1> HIDE DEF a5, e, d
<1>6. /\ accum \in Nat /\ accum % 2 \in 0 .. 1 /\ accum \div 2 \in Nat
      /\ 2 * (accum \div 2) + (accum % 2) = accum
  <2>1. acc.accum \in Nat  BY <1>0
  <2>2. accum \in Nat  BY <1>1, <2>1
  <2> HIDE DEF accum
  <2> QED  BY <2>2, HalfSeconds, Zenon
<1>7. /\ metric' \in [dropped : Nat, productive : Nat, up : BOOLEAN]
      /\ metric'.productive = metric.productive + accum \div 2
  <2>1. droppedDelta(acc) \in Nat  BY <1>0 DEF droppedDelta
  <2> DEFINE w == accum \div 2
             u == ~Stalled(acc)
             g == droppedDelta(acc)
  <2>2. u \in BOOLEAN /\ w \in Nat /\ g \in Nat  BY <1>6, <2>1, Zenon
  <2> HIDE DEF w, u, g
  <2>3. metric' = [metric EXCEPT !.dropped = @ + g, !.productive = @ + w, !.up = u]
    BY <1>3, Zenon DEF w, u, g
  <2>4. metric.dropped + g \in Nat /\ metric.productive + w \in Nat  BY <1>0, <2>2
  <2>5. metric' \in [dropped : Nat, productive : Nat, up : BOOLEAN]
    BY <1>0, <2>2, <2>3, <2>4, Zenon
  <2>6. metric'.productive = metric.productive + w  BY <1>0, <2>3, Zenon
  <2> QED  BY <2>5, <2>6, Zenon DEF w
<1>8. seen' \in [drops : Nat, busy : Nat] /\ seen'.busy = seen.busy + d  BY <1>0, <1>1, <1>3
<1>9. 2 * metric'.productive + acc'.accum <= seen'.busy /\ acc'.sats <= seen'.busy
  <2>1. acc'.accum = accum % 2 /\ acc'.sats = acc.sats + e  BY <1>3, <1>5, Zenon
  <2>2. metric.productive \in Nat /\ acc.accum \in Nat /\ acc.sats \in Nat /\ seen.busy \in Nat
    BY <1>0
  <2>3. accum = acc.accum + e  BY Zenon
  <2> HIDE DEF accum
  <2>4. accum \div 2 \in Nat /\ accum % 2 \in Nat  BY <1>6
  <2>5. ASSUME NEW u \in Nat, NEW v \in Nat, NEW b \in Nat, NEW c \in Nat, NEW w \in Nat,
               NEW m \in Nat, NEW x \in Nat, NEW y \in Nat,
               2 * u + c <= b, 2 * w + m = c + x, x <= y
        PROVE  2 * (u + w) + m <= b + y
    BY <2>5
  <2>6. 2 * (metric.productive + accum \div 2) + (accum % 2) <= seen.busy + d
    BY <1>0, <1>1, <1>6, <2>2, <2>3, <2>4, <2>5, Zenon
  <2>7. acc.sats + e <= seen.busy + d  BY <1>0, <1>1, <2>2
  <2> QED  BY <1>7, <1>8, <2>1, <2>6, <2>7, Zenon
<1> QED  BY <1>0, <1>3, <1>4, <1>5, <1>7, <1>8, <1>9 DEF StatsInv, NoPhantomUptime

\* The productive seconds and the estimated earnings of the statistics tick never exceed the
\* time between two ticks in which the workers hashed, over any number of sessions and ticks.
THEOREM UptimeIsReal == StatsSpec => []NoPhantomUptime
<1>1. StatsInit => StatsInv  BY StatsStarts, Zenon
<1>2. StatsInv /\ [StatsNext]_statsVars => StatsInv'
  <2> SUFFICES ASSUME StatsInv, [StatsNext]_statsVars PROVE StatsInv'
    BY Zenon
  <2>1. CASE StatsTick  BY <2>1, StatsTicks, Zenon
  <2>2. CASE SessionBegins \/ SessionEnds
    <3>1. acc' = Fresh /\ UNCHANGED <<now, hashes, drops, metric, seen>>
      BY <2>2, Zenon DEF SessionBegins, SessionEnds
    <3> QED  BY <3>1 DEF StatsInv, NoPhantomUptime, Fresh
  <2>3. CASE Grind \/ TimePasses \/ IdlesOrResumes \/ UNCHANGED statsVars
    <3>1. /\ UNCHANGED <<acc, metric, seen>> /\ now' \in {now, now + 1}
          /\ hashes' \in {hashes, hashes + 1} /\ drops' \in {drops, drops + 1}
      BY <2>3, Zenon DEF Grind, TimePasses, IdlesOrResumes, statsVars
    <3> QED  BY <3>1 DEF StatsInv, NoPhantomUptime
  <2> QED  BY <2>1, <2>2, <2>3, Zenon DEF StatsNext
<1>3. StatsInv => NoPhantomUptime  BY Zenon DEF StatsInv
<1> QED  BY <1>1, <1>2, <1>3, PTL DEF StatsSpec
-----------------------------------------------------------------------------
\* What a tail of a sequence holds.
TailHolds(t, s, i) ==
  /\ t \in Seq(Nat) /\ Len(t) = Len(s) - i
  /\ \A j \in 1 .. Len(s) - i : t[j] = s[i + j]

\* SubSeq from i + 1 on is that tail.
LEMMA TailIs ==
  ASSUME NEW s \in Seq(Nat), NEW i \in 0 .. Len(s)
  PROVE  TailHolds(SubSeq(s, i + 1, Len(s)), s, i)
<1> DEFINE n == Len(s)  a == i + 1  t == SubSeq(s, a, n)
<1>1. \A j \in 1 .. n : s[j] \in Nat  BY ElementOfSeq, Zenon
<1>2. n \in Nat  BY LenProperties, Zenon
<1>3. i \in 0 .. n  OBVIOUS
<1> HIDE DEF n
<1>4. /\ a \in Int /\ n \in Int /\ n - a + 1 = n - i /\ (IF a <= n THEN n - a + 1 ELSE 0) = n - i
      /\ \A j \in 1 .. n - i : a + j - 1 = i + j
  BY ONLY <1>2, <1>3, SMT
<1>5. \A j \in a .. n : s[j] \in Nat
  <2>1. \A j \in a .. n : j \in 1 .. n  BY ONLY SMTT(30), <1>2, <1>3
  <2> QED  BY <1>1, <2>1, Zenon
<1> HIDE DEF a, t
<1>6. /\ t \in Seq(Nat) /\ Len(t) = (IF a <= n THEN n - a + 1 ELSE 0)
      /\ \A j \in 1 .. n - a + 1 : t[j] = s[a + j - 1]
  BY ONLY <1>4, <1>5, SubSeqProperties, SMT DEF t
<1>7. \A j \in 1 .. n - i : t[j] = s[i + j]  BY <1>4, <1>6, Zenon
<1> QED  BY <1>4, <1>6, <1>7, Zenon DEF TailHolds, n, a, t

\* What a sequence holds after an append.
Grown(t, s, x) ==
  /\ t \in Seq(Nat) /\ Len(t) = Len(s) + 1 /\ t[Len(s) + 1] = x
  /\ \A j \in 1 .. Len(s) : t[j] = s[j]

\* Append grows a sequence so.
LEMMA AppendIs ==
  ASSUME NEW s \in Seq(Nat), NEW x \in Nat
  PROVE  Grown(Append(s, x), s, x)
BY AppendProperties, SMT DEF Grown

\* A sequence that grows keeps its tails, with the new element at their end.
LEMMA TailGrows ==
  ASSUME NEW s \in Seq(Nat), NEW q \in Seq(Nat), NEW x \in Nat, IsTail(q, s)
  PROVE  IsTail(Append(q, x), Append(s, x))
<1>1. PICK i \in 0 .. Len(s) : q = SubSeq(s, i + 1, Len(s))  BY Zenon DEF IsTail
<1> DEFINE n == Len(s)  k == n - i  S == Append(s, x)  Q == Append(q, x)  T == SubSeq(S, i + 1, Len(S))
<1>2. Len(q) = k /\ \A j \in 1 .. k : q[j] = s[i + j]
  BY <1>1, TailIs, Zenon DEF TailHolds
<1>3. n \in Nat /\ i \in 0 .. n /\ k \in Nat  BY LenProperties
<1>4. S \in Seq(Nat) /\ Len(S) = n + 1 /\ S[n + 1] = x /\ \A j \in 1 .. n : S[j] = s[j]
  BY AppendIs, Zenon DEF Grown
<1>5. Q \in Seq(Nat) /\ Len(Q) = k + 1 /\ Q[k + 1] = x /\ \A j \in 1 .. k : Q[j] = q[j]
  <2>1. Grown(Q, q, x)  BY AppendIs, Zenon
  <2> HIDE DEF Q, k
  <2>2. /\ Q \in Seq(Nat) /\ Len(Q) = Len(q) + 1 /\ Q[Len(q) + 1] = x
        /\ \A j \in 1 .. Len(q) : Q[j] = q[j]
    BY <2>1, Zenon DEF Grown
  <2>3. Len(q) = k  BY <1>2, Zenon
  <2> QED  BY ONLY <2>2, <2>3, Zenon
<1> HIDE DEF n, S, Q
<1>6. i \in 0 .. Len(S) /\ Len(S) - i = k + 1  BY ONLY <1>3, <1>4, SMT
<1>7. T \in Seq(Nat) /\ Len(T) = k + 1 /\ \A j \in 1 .. k + 1 : T[j] = S[i + j]
  BY <1>4, <1>6, TailIs, ZenonT(60) DEF TailHolds
<1>8. ASSUME NEW j \in 1 .. k + 1 PROVE Q[j] = T[j]
  <2>1. CASE j = k + 1
    <3>1. i + j = n + 1  BY ONLY <1>3, <2>1, SMT
    <3> QED  BY <1>4, <1>5, <1>7, <2>1, <3>1, Zenon
  <2>2. CASE j # k + 1
    <3>1. j \in 1 .. k /\ i + j \in 1 .. n  BY ONLY <1>3, <2>2, j \in 1 .. k + 1, SMT
    <3> QED  BY <1>2, <1>4, <1>5, <1>7, <3>1, Zenon
  <2> QED  BY <2>1, <2>2, Zenon
<1> HIDE DEF T
<1>9. Q = T  BY <1>5, <1>7, <1>8, SeqEqual, Zenon
<1> QED  BY <1>6, <1>9, Zenon DEF IsTail, S, Q, T

\* The end of a tail is a tail.
LEMMA TailOfTail ==
  ASSUME NEW s \in Seq(Nat), NEW p \in Seq(Nat), NEW q \in Seq(Nat), IsTail(p \o q, s)
  PROVE  IsTail(q, s)
<1>1. PICK i \in 0 .. Len(s) : p \o q = SubSeq(s, i + 1, Len(s))  BY Zenon DEF IsTail
<1> DEFINE n == Len(s)  a == Len(p)  b == Len(q)  c == p \o q  k == i + a  T == SubSeq(s, k + 1, n)
<1>2. c \in Seq(Nat) /\ Len(c) = n - i /\ \A j \in 1 .. n - i : c[j] = s[i + j]
  BY <1>1, TailIs, Zenon DEF TailHolds
<1>3. /\ Len(c) = a + b
      /\ \A j \in 1 .. a + b : c[j] = IF j <= a THEN p[j] ELSE q[j - a]
  BY ConcatProperties, Zenon
<1>4. n \in Nat /\ a \in Nat /\ b \in Nat /\ i \in 0 .. n  BY LenProperties
<1> HIDE DEF n, a, b, c
<1>5. k \in 0 .. n /\ n - k = b /\ n - i = a + b  BY ONLY <1>2, <1>3, <1>4, SMT
<1> HIDE DEF k
<1>6. T \in Seq(Nat) /\ Len(T) = b /\ \A j \in 1 .. b : T[j] = s[k + j]
  BY <1>5, TailIs, Zenon DEF TailHolds, n
<1>7. ASSUME NEW j \in 1 .. b PROVE q[j] = T[j]
  <2>1. a + j \in 1 .. a + b /\ ~(a + j <= a) /\ (a + j) - a = j /\ i + (a + j) = k + j
    BY ONLY <1>4, j \in 1 .. b, SMT DEF k
  <2>2. c[a + j] = q[j]  BY <1>3, <2>1, Zenon
  <2>3. c[a + j] = s[k + j]  BY <1>2, <1>5, <2>1, Zenon
  <2> QED  BY <1>6, <2>2, <2>3, Zenon
<1> HIDE DEF T
<1>8. q = T  BY <1>6, <1>7, SeqEqual, Zenon DEF b
<1> QED  BY <1>5, <1>8, Zenon DEF IsTail, T, n

\* A missing file is no contents.
LEMMA NoSuchFile == NoLog \notin Seq(Nat)
BY DEF NoLog

\* The lines of a file, and how many they are.
LEMMA LineFacts ==
  ASSUME NEW f, f \in Seq(Nat) \cup {NoLog}
  PROVE  /\ Contents(f) \in Seq(Nat) /\ Lines(f) \in Seq(Nat)
         /\ Len(Lines(f)) <= Len(Contents(f)) /\ Len(Lines(f)) >= Len(Contents(f)) - 1
BY DEF Lines, Contents

\* A write adds its line at the end.
LEMMA LinesGrow ==
  ASSUME NEW f \in Seq(Nat), NEW x \in Nat \ {0}
  PROVE  Lines(Append(f, x)) = Append(Lines(f), x)
<1>1. f # NoLog /\ Append(f, x) # NoLog  BY NoSuchFile, AppendProperties
<1>2. Contents(f) = f /\ Contents(Append(f, x)) = Append(f, x)  BY <1>1 DEF Contents
<1>3. CASE f = << >>  BY <1>2, <1>3 DEF Lines, Marker
<1>4. CASE f # << >>  
  <2>1. Head(Append(f, x)) = Head(f) /\ Tail(Append(f, x)) = Append(Tail(f), x) /\ Append(f, x) # << >>
    BY SMTT(30), <1>4
  <2> QED  BY <1>2, <1>4, <2>1, Zenon DEF Lines
<1> QED  BY <1>3, <1>4

\* The rotation marker is not a line, and an empty file has none.
LEMMA LinesOfMarker ==
  /\ Contents(NoLog) = << >> /\ Contents(<< >>) = << >>
  /\ Lines(NoLog) = << >> /\ Lines(<< >>) = << >> /\ Lines(<<Marker>>) = << >>
  /\ Contents(<<Marker>>) = <<Marker>>
BY DEF Lines, Contents, NoLog, Marker

\* LogInv holds of a log just opened.
LEMMA LogStarts == ASSUME CapOK, LogInit PROVE LogInv
<1>1. Kept = << >> /\ written = << >>
  BY LinesOfMarker DEF LogInit, Kept
<1>2. IsTail(Kept, written)  BY <1>1 DEF IsTail
<1>3. Len(Contents(active)) <= Cap /\ Len(Contents(old)) <= Cap
  <2>1. Contents(active) \in {<< >>, <<Marker>>} /\ Contents(old) = << >>
    BY LinesOfMarker, Zenon DEF LogInit
  <2>2. Len(<< >>) = 0 /\ Len(<<Marker>>) = 1  OBVIOUS
  <2>3. Len(Contents(active)) \in {0, 1} /\ Len(Contents(old)) = 0  BY <2>1, <2>2, Zenon
  <2>4. Cap \in Nat /\ Cap >= 2  BY SMTT(30) DEF CapOK
  <2>5. \A n \in {0, 1} : n <= Cap  BY SMTT(30), <2>4
  <2> QED  BY <2>3, <2>5, Zenon
<1>4. LogKeepsTail  BY <1>1, <1>2, <1>3, Zenon DEF LogKeepsTail
<1>5. active \in Seq(Nat) /\ active # NoLog /\ Contents(active) = active /\ NoLog \in {NoLog}
  <2>1. << >> \in Seq(Nat) /\ <<Marker>> \in Seq(Nat)  BY DEF Marker
  <2>2. active \in Seq(Nat)  BY <2>1, Zenon DEF LogInit
  <2> QED  BY <2>2, NoSuchFile, Zenon DEF Contents
<1>6. Len(active) \in Nat  BY <1>5
<1>7. size \in 0 .. Len(active) /\ faults \in Nat /\ (faults = 0 => size = Len(active))
  BY <1>6 DEF LogInit
<1> QED  BY <1>1, <1>4, <1>5, <1>7 DEF LogInv, LogInit

\* A step that leaves the files alone, or their contents, keeps what is said of them.
LEMMA SameFiles ==
  ASSUME LogInv, UNCHANGED <<old, written>>, Contents(active') = Contents(active),
         faults' \in Nat, faults' = 0 => faults = 0
  PROVE  LogKeepsTail'
<1>1. Lines(active') = Lines(active) /\ Lines(old') = Lines(old) /\ Contents(old') = Contents(old)
  BY Zenon DEF Lines
<1>2. Kept' = Kept  BY <1>1, Zenon DEF Kept
<1> QED  BY <1>1, <1>2, Zenon DEF LogInv, LogKeepsTail

\* Stat, done or failed, leaves a size no larger than the file it is asked of.
LEMMA StatBounds ==
  ASSUME NEW file \in Seq(Nat), Stats(file), size <= Len(file), LogInv
  PROVE  /\ size' \in 0 .. Len(file) /\ faults' \in Nat
         /\ faults' = 0 => size' = Len(file) /\ faults = 0
         /\ faults > 0 => faults' > 0
BY DEF Stats, CallWorks, CallFails, LogInv

\* Every call of Write and rotateLocked, done or failed, keeps LogInv.
LEMMA LogStep == ASSUME CapOK, LogInv, [LogNext]_logVars PROVE LogInv'
<1> DEFINE LogFiles == Seq(Nat) \cup {NoLog}
<1>0. /\ active \in LogFiles /\ old \in LogFiles /\ written \in Seq(Nat) /\ size \in Nat
      /\ Lines(active) \in Seq(Nat) /\ Lines(old) \in Seq(Nat) /\ Cap \in Nat /\ Cap >= 2
      /\ LogKeepsTail
  BY LineFacts DEF LogInv, CapOK
<1>1. CASE UNCHANGED logVars
  BY <1>1, SameFiles, Zenon DEF LogInv, logVars
<1>2. CASE Write
  <2>1. LogKeepsTail'  BY <1>2, SameFiles, Zenon DEF LogInv, Write
  <2>2. writing' = "append" => size < Cap
    BY <1>0, <1>2 DEF Write
  <2>3. writing' = "close" => size >= Cap /\ ~handle'
    BY <1>0, <1>2 DEF Write
  <2>4. calls' \in Nat /\ calls' > 0  BY <1>2 DEF LogInv, Write
  <2> HIDE DEF LogFiles
  <2> QED  BY <1>2, <2>1, <2>2, <2>3, <2>4, Zenon DEF LogInv, Write
<1>3. CASE RemoveOld
  <2>1. Len(Lines(active)) >= Cap - 1  BY SMTT(30), <1>0, <1>3, LineFacts DEF LogInv, RemoveOld
  <2>2. CASE old' = NoLog /\ CallWorks
    <3>1. Kept' = Lines(active)
      <4>1. Lines(old') = << >> /\ Lines(active') = Lines(active)
        BY <1>3, <2>2, LinesOfMarker, Zenon DEF RemoveOld
      <4> QED  BY <1>0, <4>1 DEF Kept
    <3>2. IsTail(Kept', written')
      <4>1. IsTail(Lines(active), written)  BY <1>0, TailOfTail, Zenon DEF LogKeepsTail, Kept
      <4> QED  BY <1>3, <3>1, <4>1, Zenon DEF RemoveOld
    <3>3. ~(Len(Kept') < Cap - 1)  BY SMTT(30), <1>0, <2>1, <3>1
    <3>4. Len(Contents(old')) <= Cap /\ active' = active /\ faults' = faults
      BY <1>0, <1>3, <2>2, LinesOfMarker DEF RemoveOld, CallWorks
    <3>5. LogKeepsTail'  BY <1>0, <3>2, <3>3, <3>4, Zenon DEF LogKeepsTail
    <3> QED  BY <1>0, <1>3, <2>2, <3>5 DEF LogInv, RemoveOld, CallWorks
  <2>3. CASE UNCHANGED old /\ CallFails
    <3>1. LogKeepsTail'  BY <1>3, <2>3, SameFiles DEF LogInv, RemoveOld, CallFails
    <3> QED  BY SMTT(30), <1>0, <1>3, <2>3, <3>1 DEF LogInv, RemoveOld, CallFails
  <2> QED  BY <1>3, <2>2, <2>3, Zenon DEF RemoveOld
<1>4. CASE RenameLog
  <2>1. CASE CallWorks /\ old' = active /\ active' = NoLog /\ size' = 0 /\ writing' = "open"
    <3>1. Len(Lines(active)) >= Cap - 1  BY <1>0, <1>4, LineFacts DEF LogInv, RenameLog
    <3>2. Kept' = Lines(active)
      <4>1. Lines(old') = Lines(active) /\ Lines(active') = << >>  BY <2>1, LinesOfMarker, Zenon
      <4> QED  BY <1>0, <4>1 DEF Kept
    <3>3. IsTail(Kept', written')
      <4>1. IsTail(Lines(active), written)  BY <1>0, TailOfTail, Zenon DEF LogKeepsTail, Kept
      <4> QED  BY <1>4, <3>2, <4>1, Zenon DEF RenameLog
    <3>4. ~(Len(Kept') < Cap - 1)  BY <1>0, <3>1, <3>2
    <3>5. Len(Contents(active')) <= Cap /\ faults' = faults
          /\ Contents(old') = Contents(active)
      BY <1>0, <2>1, LinesOfMarker DEF CallWorks
    <3>6. LogKeepsTail'  BY <1>0, <3>3, <3>4, <3>5, Zenon DEF LogKeepsTail
    <3> QED  BY SMTT(30), <1>0, <1>4, <2>1, <3>6, LinesOfMarker DEF LogInv, RenameLog, CallWorks
  <2>2. CASE CallFails /\ writing' = "reopen" /\ UNCHANGED <<old, active, size>>
    <3>1. LogKeepsTail'  BY <1>4, <2>2, SameFiles DEF LogInv, RenameLog, CallFails
    <3> QED  BY SMTT(30), <1>0, <1>4, <2>2, <3>1 DEF LogInv, RenameLog, CallFails
  <2> QED  BY <1>4, <2>1, <2>2, Zenon DEF RenameLog
<1>5. CASE openLocked
  <2>1. CASE /\ handle' = TRUE /\ active' = Contents(active) /\ Stats(Contents(active))
             /\ writing' = IF writing = "open" THEN "mark" ELSE "append"
    <3>1. active' \in Seq(Nat) /\ Contents(active') = Contents(active) /\ active' # NoLog
      BY ZenonT(60), <1>0, <2>1, LineFacts DEF Contents, NoLog
    <3>5. size <= Len(Contents(active))  BY <3>1, <2>1 DEF LogInv
    <3>6. /\ size' \in 0 .. Len(Contents(active)) /\ faults' \in Nat
          /\ faults' = 0 => size' = Len(Contents(active)) /\ faults = 0
          /\ faults > 0 => faults' > 0
      BY <2>1, <3>1, <3>5, StatBounds
    <3>2. LogKeepsTail'  BY <1>5, <3>1, <3>6, SameFiles, Zenon DEF openLocked
    <3>3. writing = "open" => active' = << >>  BY <2>1, LinesOfMarker, Zenon DEF LogInv
    <3>4. writing' = "append" => faults' > 0  BY <1>5, <2>1, <3>6 DEF LogInv, openLocked
    <3> QED  BY SMTT(30), <1>0, <1>5, <2>1, <3>1, <3>2, <3>3, <3>4, <3>6 DEF LogInv, openLocked
  <2>2. CASE CallFails /\ Returns /\ UNCHANGED <<handle, active, size>>
    <3>1. LogKeepsTail'  BY <1>5, <2>2, SameFiles DEF LogInv, openLocked, CallFails
    <3> QED  BY <1>0, <1>5, <2>2, <3>1 DEF LogInv, openLocked, CallFails, Returns
  <2> QED  BY <1>5, <2>1, <2>2, Zenon DEF openLocked
<1>6. CASE Mark
  <2>1. active = << >> /\ handle /\ size = 0  BY <1>6, LinesOfMarker DEF LogInv, Mark
  <2>2. CASE /\ active' = Append(active, Marker) /\ Stats(Append(active, Marker))
             /\ writing' = "append"
    <3>1. active' = <<Marker>>  BY <2>1, <2>2
    <3>5. /\ size' \in 0 .. 1 /\ faults' \in Nat /\ (faults' = 0 => size' = 1 /\ faults = 0)
      <4>1. <<Marker>> \in Seq(Nat) /\ Len(<<Marker>>) = 1  BY DEF Marker
      <4>2. Stats(<<Marker>>)  BY <2>1, <2>2
      <4>3. size <= Len(<<Marker>>)  BY <2>1, <4>1
      <4> HIDE DEF LogFiles
      <4>4. /\ size' \in 0 .. Len(<<Marker>>) /\ faults' \in Nat
            /\ faults' = 0 => size' = Len(<<Marker>>) /\ faults = 0
        BY <4>1, <4>2, <4>3, StatBounds, Zenon
      <4> QED  BY <4>1, <4>4
    <3>2. Kept' = Kept
      <4>1. Lines(active') = Lines(active) /\ old' = old  BY <1>6, <2>1, <3>1, LinesOfMarker, Zenon DEF Mark
      <4> QED  BY <4>1, Zenon DEF Kept
    <3>3. Len(Contents(active')) = 1  BY <3>1, LinesOfMarker
    <3>4. LogKeepsTail'
      BY SMTT(30), <1>0, <1>6, <3>2, <3>3, <3>5 DEF LogKeepsTail, Mark
    <3>6. active' \in Seq(Nat) /\ active' # NoLog /\ (faults' = 0 => size' < Cap)
      BY <1>0, <3>1, <3>5 DEF Marker, NoLog
    <3>7. size' \in 0 .. Len(Contents(active')) /\ (faults' = 0 => size' = Len(Contents(active')))
      BY <3>3, <3>5
    <3> QED
      BY ZenonT(60), <1>0, <1>6, <2>1, <2>2, <3>4, <3>5, <3>6, <3>7 DEF LogInv, Mark
  <2>3. CASE CallFails /\ Returns /\ UNCHANGED <<active, size>>
    <3>1. LogKeepsTail'  BY <1>6, <2>3, SameFiles DEF LogInv, Mark, CallFails
    <3> QED  BY SMTT(30), <1>0, <1>6, <2>3, <3>1 DEF LogInv, Mark, CallFails, Returns
  <2> QED  BY <1>6, <2>2, <2>3, Zenon DEF Mark
<1>7. CASE AppendWrite
  <2>1. CASE /\ handle /\ CallWorks /\ active' = Append(active, calls) /\ size' = size + 1
             /\ written' = Append(written, calls) /\ UNCHANGED unlogged
    <3>1. active \in Seq(Nat) /\ calls \in Nat \ {0}  BY <1>0, <1>7, <2>1 DEF LogInv, AppendWrite
    <3>2. active' \in Seq(Nat) /\ active' # NoLog /\ written' \in Seq(Nat)
      <4>1. active' \in Seq(Nat) /\ written' \in Seq(Nat)  BY <1>0, <2>1, <3>1
      <4> QED  BY <4>1, NoSuchFile, Zenon
    <3>3. Contents(active') = active' /\ Contents(active) = active
      BY <2>1, <3>2, Zenon DEF Contents, LogInv
    <3>4. Lines(active') = Append(Lines(active), calls) /\ old' = old
      BY <1>7, <2>1, <3>1, LinesGrow, Zenon DEF AppendWrite
    <3>5. Kept' = Append(Kept, calls) /\ Kept \in Seq(Nat)  BY SMTT(30), <1>0, <3>1, <3>4 DEF Kept
    <3>6. IsTail(Kept', written')
      <4>1. IsTail(Kept, written) /\ calls \in Nat  BY <1>0, <3>1, Zenon DEF LogKeepsTail
      <4> QED  BY <1>0, <2>1, <3>5, <4>1, TailGrows, Zenon
    <3>7. Len(Kept') < Cap - 1 => Kept' = written'
      <4>1. Len(Kept') = Len(Kept) + 1 /\ Len(Kept) \in Nat  BY <3>1, <3>5
      <4>2. Len(Kept) < Cap - 1 => Kept = written  BY <1>0, Zenon DEF LogKeepsTail
      <4> QED  BY SMTT(30), <1>0, <2>1, <3>5, <4>1, <4>2
    <3>8. faults' = 0 => Len(Contents(active')) <= Cap /\ Len(Contents(old')) <= Cap
      BY SMTT(30), <1>0, <1>7, <2>1, <3>1, <3>2, <3>3, <3>4 DEF LogInv, LogKeepsTail, AppendWrite, CallWorks
    <3>9. LogKeepsTail'  BY <3>6, <3>7, <3>8, Zenon DEF LogKeepsTail
    <3> QED  BY SMTT(30), <1>0, <1>7, <2>1, <3>1, <3>2, <3>3, <3>9 DEF LogInv, AppendWrite, CallWorks, Returns
  <2>2. CASE UNCHANGED <<active, size, written>> /\ (CallWorks \/ CallFails)
    <3>1. LogKeepsTail'  BY <1>7, <2>2, SameFiles DEF LogInv, AppendWrite, CallWorks, CallFails
    <3> QED  BY SMTT(30), <1>0, <1>7, <2>2, <3>1 DEF LogInv, AppendWrite, CallWorks, CallFails, Returns
  <2> QED  BY <1>7, <2>1, <2>2, Zenon DEF AppendWrite
<1> QED  BY <1>1, <1>2, <1>3, <1>4, <1>5, <1>6, <1>7, Zenon DEF LogNext

(* The log loses no line it should keep (LogKeepsTail): whichever calls    *)
(* of rotateLocked fail, the backup followed by the log is the tail of the *)
(* writes that succeeded, in order and at least a full file of it, and the *)
(* files stay within the cap unless a call failed.                         *)
THEOREM LogStaysWhole == ASSUME CapOK PROVE LogSpec => []LogKeepsTail
<1>1. LogInv => LogKeepsTail  BY Zenon DEF LogInv
<1> QED  BY <1>1, LogStarts, LogStep, PTL DEF LogSpec
=============================================================================
