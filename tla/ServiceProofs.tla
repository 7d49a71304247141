---------------------------- MODULE ServiceProofs ----------------------------
(***************************************************************************)
(* An installed engine runs with the configuration it was given, which is  *)
(* one it can run, for any flags, files and environments. ServiceInv says  *)
(* that every definition, on disk, loaded or running, is one an install    *)
(* wrote whole, and that what runs was validated. The rest is about the    *)
(* operators: what ResolveWithOrigins' layers come to for one field, which *)
(* pool URLs pass validatePoolURL, and what payoutAddresses returns.       *)
(***************************************************************************)
EXTENDS Service, FiniteSetTheorems, TLAPS

-----------------------------------------------------------------------------

(* What ResolveWithOrigins' layers come to for one field: the highest      *)
(* layer that sets it, its value, and the directory that fills an empty    *)
(* DataDir.                                                                *)
TopOrigin(f, file, env, flags) ==
  IF f \in FlagSets(flags) THEN "flag"
  ELSE IF f \in EnvSets(env) THEN "env"
  ELSE IF f \in FileSets(file) THEN "file" ELSE "default"

Top(f, file, env, flags) ==
  IF f \in FlagSets(flags) THEN flags[f]
  ELSE IF f \in EnvSets(env) THEN env[f]
  ELSE IF f \in FileSets(file) THEN file[f] ELSE Defaults[f]

Filled(f, v, sys, place) ==
  IF f = "DataDir" /\ v = "" THEN DefaultDataDir(sys, place) ELSE v

\* ResolveWithOrigins gives every field the value and the origin of the highest
\* layer that sets it.
LEMMA Layers ==
  ASSUME NEW sys, NEW place, NEW file, NEW env, NEW flags, NEW f \in Fields
  PROVE  LET c == ResolveWithOrigins(sys, place, file, env, flags)
         IN /\ c.o[f] = TopOrigin(f, file, env, flags)
            /\ c.cfg[f] = Filled(f, Top(f, file, env, flags), sys, place)
<1> DEFINE c == ResolveWithOrigins(sys, place, file, env, flags)
           start == [cfg |-> Defaults, o |-> [g \in Fields |-> "default"]]
           c1 == applyFileLayer(start, file)
           c2 == applyEnvLayer(c1, env)
           c3 == applyFlagLayer(c2, flags)
<1>1. ASSUME NEW b, NEW layer, NEW set, NEW origin
      PROVE  LET n == Overlay(b, layer, set, origin)
             IN /\ n.cfg[f] = IF f \in set THEN layer[f] ELSE b.cfg[f]
                /\ n.o[f] = IF f \in set THEN origin ELSE b.o[f]
                /\ n = [cfg |-> n.cfg, o |-> n.o]
                /\ DOMAIN n.cfg = Fields
  BY Zenon DEF Overlay
<1>2. /\ c1.cfg[f] = IF f \in FileSets(file) THEN file[f] ELSE Defaults[f]
      /\ c1.o[f] = IF f \in FileSets(file) THEN "file" ELSE "default"
  BY <1>1 DEF applyFileLayer
<1>3. /\ c2.cfg[f] = IF f \in EnvSets(env) THEN env[f] ELSE c1.cfg[f]
      /\ c2.o[f] = IF f \in EnvSets(env) THEN "env" ELSE c1.o[f]
  <2> HIDE DEF c1
  <2> QED  BY <1>1 DEF applyEnvLayer
<1>4. /\ c3.cfg[f] = IF f \in FlagSets(flags) THEN flags[f] ELSE c2.cfg[f]
      /\ c3.o[f] = IF f \in FlagSets(flags) THEN "flag" ELSE c2.o[f]
      /\ c3 = [cfg |-> c3.cfg, o |-> c3.o] /\ DOMAIN c3.cfg = Fields
  <2> HIDE DEF c2
  <2> QED  BY <1>1 DEF applyFlagLayer
<1>5. c = IF c3.cfg.DataDir = "" THEN [c3 EXCEPT !.cfg.DataDir = DefaultDataDir(sys, place)] ELSE c3
  BY Zenon DEF ResolveWithOrigins
<1> HIDE DEF c, c1, c2, c3
<1>6. /\ c.o[f] = c3.o[f]
      /\ c.cfg[f] = IF f = "DataDir" /\ c3.cfg[f] = "" THEN DefaultDataDir(sys, place)
                    ELSE c3.cfg[f]
  BY <1>4, <1>5, Zenon
<1>7. c.o[f] = TopOrigin(f, file, env, flags)
  BY <1>2, <1>3, <1>4, <1>6, Zenon DEF TopOrigin
<1>8. c3.cfg[f] = Top(f, file, env, flags)  BY <1>2, <1>3, <1>4, ZenonT(30) DEF Top
<1>9. c.cfg[f] = Filled(f, Top(f, file, env, flags), sys, place)
  BY <1>6, <1>8, Zenon DEF Filled
<1> QED  BY <1>7, <1>9, Zenon DEF c

\* Every rank up to the number of elements is the rank of one of them.
LEMMA Ranks ==
  ASSUME NEW L \in Nat, NEW K \in SUBSET (1 .. L)
  PROVE  /\ Cardinality(K) \in Nat /\ (K # {} => Cardinality(K) > 0)
         /\ \A n \in 1 .. Cardinality(K) : \E i \in K : Cardinality({j \in K : j <= i}) = n
<1> DEFINE Upto(i) == {j \in K : j <= i}
           m == Cardinality(K)
           f == [i \in K |-> Cardinality(Upto(i))]
<1>1. IsFiniteSet(1 .. L)  BY FS_Interval
<1>2. IsFiniteSet(K)  BY <1>1, FS_Subset, Zenon
<1>3. m \in Nat /\ (K # {} => m > 0)  BY <1>2, FS_CardinalityType, FS_EmptySet
<1>4. ASSUME NEW i \in K
      PROVE  IsFiniteSet(Upto(i)) /\ Cardinality(Upto(i)) \in 1 .. m
  <2>1. Upto(i) \in SUBSET K /\ i \in Upto(i)  OBVIOUS
  <2>2. IsFiniteSet(Upto(i)) /\ Cardinality(Upto(i)) <= m  BY <1>2, <2>1, FS_Subset, ZenonT(30)
  <2>3. Cardinality(Upto(i)) \in Nat /\ Cardinality(Upto(i)) # 0
    BY <2>1, <2>2, FS_CardinalityType, FS_EmptySet, ZenonT(30)
  <2> QED  BY <1>3, <2>2, <2>3
<1>5. ASSUME NEW i \in K, NEW k \in K, i < k PROVE Cardinality(Upto(i)) # Cardinality(Upto(k))
  <2>0. i \in Int /\ k \in Int /\ K \subseteq Int  OBVIOUS
  <2>1. (\A j \in K : j <= i => j <= k) /\ k <= k /\ ~(k <= i)  BY <1>5, <2>0
  <2>3. Upto(i) \in SUBSET Upto(k) /\ k \in Upto(k) /\ k \notin Upto(i)  BY <2>1, Zenon
  <2>2. IsFiniteSet(Upto(k))  BY <1>4, Zenon
  <2> HIDE DEF Upto
  <2> QED  BY <2>2, <2>3, FS_Subset, ZenonT(30)
<1>6. f \in Injection(K, 1 .. m)
  <2>1. f \in [K -> 1 .. m]  BY <1>4, Zenon
  <2>2. ASSUME NEW i \in K, NEW k \in K, f[i] = f[k] PROVE i = k
    <3>1. Cardinality(Upto(i)) = Cardinality(Upto(k))  BY <2>2, Zenon
    <3>2. ~(i < k) /\ ~(k < i)  BY <1>5, <3>1, ZenonT(30)
    <3>3. i \in Int /\ k \in Int  OBVIOUS
    <3> QED  BY <3>2, <3>3
  <2> HIDE DEF f
  <2> QED  BY <2>1, <2>2, ZenonT(30) DEF Injection, IsInjective
<1>7. IsFiniteSet(1 .. m) /\ Cardinality(1 .. m) = m  BY <1>3, FS_Interval
<1>8. f \in Surjection(K, 1 .. m)  BY <1>6, <1>7, FS_Injection, Zenon
<1>9. \A n \in 1 .. m : \E i \in K : f[i] = n  BY <1>8, Zenon DEF Surjection
<1> QED  BY <1>3, <1>9, ZenonT(30)

\* A function on 1 .. m is a sequence of length m.
LEMMA Listed ==
  ASSUME NEW G, NEW m \in Nat, NEW a \in [1 .. m -> G]
  PROVE  a \in Seq(G) /\ Len(a) = m
<1>1. a \in Seq(G)  OBVIOUS
<1>2. Len(a) = m  BY <1>1
<1> QED  BY <1>1, <1>2, ZenonT(30)

\* payoutAddresses of an accepted configuration.
LEMMA Payouts ==
  ASSUME NEW c, NEW prim \in Addresses, NEW list \in Seq(Addresses),
         prim = c.BitcoinAddress, list = c.BitcoinAddresses, AddressesOK(c)
  PROVE  LET addrs == payoutAddresses(c)
         IN /\ addrs \in Seq(GoodAddresses) /\ Len(addrs) > 0
            /\ \A i \in 1 .. Len(addrs) : \A j \in 1 .. (i - 1) : addrs[j] # addrs[i]
<1> DEFINE empty == ""
           all == <<c.BitcoinAddress>> \o c.BitcoinAddresses
           first(i) == all[i] # empty /\ \A j \in 1 .. (i - 1) : all[j] # all[i]
           K == {i \in 1 .. Len(all) : first(i)}
           addrs == payoutAddresses(c)
<1>1. addrs = [n \in 1 .. Cardinality(K) |->
                 all[CHOOSE i \in K : Cardinality({j \in K : j <= i}) = n]]
  BY Zenon DEF payoutAddresses
<1>2. /\ all \in Seq(Addresses) /\ Len(all) = Len(list) + 1 /\ all[1] = prim
      /\ \A i \in 1 .. Len(list) : all[i + 1] = list[i]
  <2>1. all = <<prim>> \o list  BY Zenon
  <2> HIDE DEF all
  <2> QED  BY <2>1
<1>3. /\ prim = empty => Len(list) > 0
      /\ prim # empty => validateBitcoinAddress(prim)
      /\ \A i \in 1 .. Len(list) : list[i] # empty /\ validateBitcoinAddress(list[i])
  BY Zenon DEF AddressesOK
<1>4. \A a \in Addresses : a # empty /\ validateBitcoinAddress(a) => a \in GoodAddresses
  BY Zenon DEF Addresses, GoodAddresses, validateBitcoinAddress
<1> HIDE DEF all, empty
<1>5. ASSUME NEW i \in 1 .. Len(all), all[i] # empty PROVE all[i] \in GoodAddresses
  <2>1. CASE i = 1  BY <1>2, <1>3, <1>4, <1>5, <2>1, ZenonT(30)
  <2>2. CASE i # 1
    <3>1. i - 1 \in 1 .. Len(list) /\ (i - 1) + 1 = i  BY <1>2, <2>2
    <3>2. all[i] = list[i - 1]  BY <1>2, <3>1, Zenon
    <3>3. list[i - 1] \in Addresses  BY <3>1
    <3> QED  BY <1>3, <1>4, <3>1, <3>2, <3>3, ZenonT(30)
  <2> QED  BY <2>1, <2>2, ZenonT(30)
<1>6. \E i \in 1 .. Len(all) : first(i)
  <2>1. CASE prim # empty
    <3>1. 1 \in 1 .. Len(all) /\ first(1)  BY <1>2, <2>1
    <3> QED  BY <3>1, ZenonT(30)
  <2>2. CASE prim = empty
    <3>1. 1 \in 1 .. Len(list) /\ list[1] # empty  BY <1>3, <2>2
    <3>2. 2 \in 1 .. Len(all) /\ all[2] = list[1]  BY <1>2, <3>1
    <3>3. first(2)  BY <1>2, <2>2, <3>1, <3>2
    <3> QED  BY <3>2, <3>3, Zenon
  <2> QED  BY <2>1, <2>2, Zenon
<1>7. Len(all) \in Nat /\ K # {} /\ K \in SUBSET (1 .. Len(all))
      /\ \A i \in K : all[i] \in GoodAddresses
  BY SMTT(60), <1>2, <1>5, <1>6
<1> DEFINE m == Cardinality(K)
           pick(n) == CHOOSE i \in K : Cardinality({j \in K : j <= i}) = n
<1>8. m \in Nat /\ m > 0  BY <1>7, Ranks, Zenon
<1>9. ASSUME NEW n \in 1 .. m PROVE pick(n) \in K /\ Cardinality({j \in K : j <= pick(n)}) = n
  <2>1. \E i \in K : Cardinality({j \in K : j <= i}) = n  BY <1>7, Ranks, ZenonT(60)
  <2> HIDE DEF K
  <2> QED  BY <2>1, Zenon
<1>10. ASSUME NEW i \in K, NEW k \in K, i < k PROVE all[i] # all[k]
  <2>1. i \in 1 .. (k - 1)  BY <1>7, <1>10
  <2> QED  BY <2>1, Zenon
<1>11. ASSUME NEW i \in K, NEW k \in K, i # k PROVE all[i] # all[k]
  <2>1. i < k \/ k < i  BY <1>7, <1>11
  <2> QED  BY <1>10, <2>1, Zenon
<1>12. addrs = [n \in 1 .. m |-> all[pick(n)]]  BY <1>1, Zenon
<1> HIDE DEF pick, m, addrs, K
<1>13. \A n \in 1 .. m : all[pick(n)] \in GoodAddresses  BY <1>7, <1>9, Zenon
<1>14. addrs \in [1 .. m -> GoodAddresses]  BY <1>12, <1>13, ZenonT(30)
<1>15. addrs \in Seq(GoodAddresses) /\ Len(addrs) = m  BY <1>8, <1>14, Listed, Zenon
<1>16. ASSUME NEW i \in 1 .. m, NEW j \in 1 .. (i - 1) PROVE addrs[j] # addrs[i]
  <2>1. j \in 1 .. m /\ j # i  BY <1>8
  <2>2. pick(i) \in K /\ pick(j) \in K /\ pick(i) # pick(j)  BY <1>9, <2>1, ZenonT(30)
  <2>3. addrs[i] = all[pick(i)] /\ addrs[j] = all[pick(j)]  BY <1>12, <2>1, ZenonT(30)
  <2> QED  BY <1>11, <2>2, <2>3, ZenonT(30)
<1>17. /\ addrs \in Seq(GoodAddresses) /\ Len(addrs) > 0
       /\ \A i \in 1 .. Len(addrs) : \A j \in 1 .. (i - 1) : addrs[j] # addrs[i]
  BY <1>8, <1>15, <1>16, ZenonT(30)
<1> QED  BY <1>17, Zenon DEF addrs

\* The values no install wrote are good definitions too.
LEMMA ServiceFacts ==
  /\ FlagsOK(NoFlags) /\ UnitOK(NoUnit) /\ UnitOK(EmptyUnit)
  /\ FileOK(ZeroConfig) /\ NoProc.runs = FALSE /\ NoProc.unit = NoUnit
  /\ DOMAIN Idle = {"step", "flags"} /\ Idle.flags = NoFlags
<1>1. FlagsOK(NoFlags) /\ NoFlags.DataDir = ""
  BY Zenon DEF NoFlags, FlagsOK, Addresses
<1>2. NoUnit.argv = NoFlags /\ EmptyUnit.argv = NoFlags
  BY Zenon DEF NoUnit, EmptyUnit
<1>3. UnitOK(NoUnit) /\ UnitOK(EmptyUnit)  BY <1>1, <1>2, Zenon DEF UnitOK
<1>4. FileOK(ZeroConfig)
  BY DEF FileOK, ZeroConfig, Fields, TextFields, ListFields, NumFields,
         Addresses
<1>5. NoProc.runs = FALSE /\ NoProc.unit = NoUnit  BY Zenon DEF NoProc
<1>6. DOMAIN Idle = {"step", "flags"} /\ Idle.flags = NoFlags  BY Zenon DEF Idle
<1> QED  BY <1>1, <1>3, <1>4, <1>5, <1>6, ZenonT(30)

\* Nothing installed, nothing running.
LEMMA ServiceInit == ASSUME ConstantsOK, Init PROVE ServiceInv
  BY ServiceFacts, Zenon DEF Init, ServiceInv

\* A step that puts in place good definitions, a good command and no new engine.
LEMMA ServiceKeeps ==
  ASSUME ServiceInv, UNCHANGED <<os, shell, manager>>,
         disk' \in [Places -> FileContents],
         DOMAIN units' = Places, \A place \in Places : UnitOK(units'[place]),
         UnitOK(loaded'), DOMAIN cli' = {"step", "flags"}, FlagsOK(cli'.flags),
         proc' \in {proc, NoProc}
  PROVE  ServiceInv'
<1>1. ASSUME NEW u, UnitOK(u) PROVE FlagsOK(u.argv) /\
        (os' = "linux" /\ u.argv.DataDir # "" => u.writable = u.argv.DataDir)
  BY <1>1, Zenon DEF UnitOK
<1>2. UnitOK(proc'.unit)  BY ServiceFacts, Zenon DEF ServiceInv
<1>3. (proc.runs => FileOK(proc.file) /\ Validate(Effective(proc).cfg))'
  <2>1. CASE proc' = NoProc  BY <2>1, ServiceFacts, ZenonT(30)
  <2>2. CASE proc' = proc
    BY <2>2, Zenon DEF ServiceInv, Effective
  <2> QED  BY <2>1, <2>2, ZenonT(30)
<1> QED  BY <1>1, <1>2, <1>3, ZenonT(30) DEF ServiceInv, UnitOK

\* Where install writes and where the manager looks.
LEMMA UnitPaths ==
  ASSUME ConstantsOK, ServiceInv
  PROVE  unitPath \in Places /\ searchPath \in Places
  BY Zenon
  DEF ConstantsOK, ServiceInv, unitPath, searchPath, systemdUnitPath, Places

\* What install writes carries the flags it was given.
LEMMA Definitions == ASSUME NEW flags, FlagsOK(flags) PROVE UnitOK(definition(flags))
<1>1. definition(flags).argv = flags /\
      (os = "linux" /\ flags.DataDir # "" => definition(flags).writable = flags.DataDir)
  BY Zenon DEF definition, systemdUnit, launchdPlist, serviceArgv
<1> QED  BY <1>1, Zenon DEF UnitOK

\* Each command, each answer of the manager and each start keeps ServiceInv.
LEMMA ServiceStep ==
  ASSUME ConstantsOK, ServiceInv, [Next]_vars
  PROVE  ServiceInv'
<1>0. /\ disk \in [Places -> FileContents] /\ DOMAIN units = Places
      /\ \A place \in Places : UnitOK(units[place])
      /\ UnitOK(loaded) /\ DOMAIN cli = {"step", "flags"} /\ FlagsOK(cli.flags)
      /\ unitPath \in Places /\ searchPath \in Places
  BY UnitPaths, Zenon DEF ServiceInv
<1>1. CASE resolveRunConfig
  <2> DEFINE p == [runs |-> TRUE, unit |-> loaded,
                   file |-> loadConfigFile(disk, ConfigPath(loaded))]
  <2>1. /\ proc' = p /\ Validate(Effective(p).cfg)
        /\ UNCHANGED <<os, shell, manager, disk, units, loaded, cli>>
    BY <1>1, Zenon DEF resolveRunConfig
  <2>2. p.unit = loaded /\ p.file = loadConfigFile(disk, ConfigPath(loaded))  BY Zenon
  <2>3. FileOK(loadConfigFile(disk, ConfigPath(loaded)))
    <3> DEFINE path == ConfigPath(loaded)
    <3> HIDE DEF path
    <3>1. path \in DOMAIN disk => disk[path] \in FileContents  BY <1>0, Zenon
    <3>2. FileOK(loadConfigFile(disk, path))
      BY <3>1, ServiceFacts, Zenon DEF loadConfigFile, ConstantsOK
    <3> QED  BY <3>2, Zenon DEF path
  <2> HIDE DEF p
  <2>4. FileOK(proc'.file) /\ proc'.unit = loaded  BY <2>1, <2>2, <2>3, ZenonT(30)
  <2>5. Validate(Effective(proc).cfg)'  BY <2>1, Zenon DEF Effective
  <2>6. UNCHANGED <<os, shell, manager, disk, units, loaded, cli>>  BY <2>1, Zenon
  <2> QED  BY <1>0, <2>4, <2>5, <2>6, ZenonT(30) DEF ServiceInv, UnitOK
<1>2. CASE EditConfig
  <2>1. /\ UNCHANGED <<os, shell, manager, units, loaded, proc, cli>>
        /\ disk' \in [Places -> FileContents]
    BY <1>0, <1>2, ZenonT(30) DEF EditConfig
  <2> QED  BY <1>0, <2>1, ServiceKeeps, ZenonT(30)
<1>3. CASE cmdServiceInstall \/ cmdServiceUninstall
  <2>1. PICK step, flags : Begin(step, flags) /\ (flags \in InstallFlags \/ flags = NoFlags)
    BY <1>3, Zenon DEF cmdServiceInstall, cmdServiceUninstall
  <2>2. FlagsOK(flags)  BY <2>1, ServiceFacts, Zenon DEF ConstantsOK
  <2>3. /\ cli' = [step |-> step, flags |-> flags]
        /\ UNCHANGED <<os, shell, manager, disk, units, loaded, proc>>
    BY <2>1, Zenon DEF Begin
  <2>4. DOMAIN cli' = {"step", "flags"} /\ FlagsOK(cli'.flags)  BY <2>2, <2>3, ZenonT(30)
  <2> QED  BY <1>0, <2>3, <2>4, ServiceKeeps, ZenonT(30)
<1>4. CASE InstallWrites
  <2>1. UnitOK(definition(cli.flags))  BY <1>0, Definitions, ZenonT(30)
  <2>2. /\ UNCHANGED <<os, shell, manager, disk, loaded, proc>>
        /\ units' \in {[units EXCEPT ![unitPath] = definition(cli.flags)],
                      [units EXCEPT ![unitPath] = EmptyUnit], units}
        /\ cli' \in {[cli EXCEPT !.step = "written"], Idle}
    BY <1>4, Zenon DEF InstallWrites, Ends
  <2>3. DOMAIN units' = Places /\ \A place \in Places : UnitOK(units'[place])
    BY <1>0, <2>1, <2>2, ServiceFacts, ZenonT(30)
  <2>4. DOMAIN cli' = {"step", "flags"} /\ FlagsOK(cli'.flags)
    BY <1>0, <2>2, ServiceFacts, ZenonT(30)
  <2> QED  BY <1>0, <2>2, <2>3, <2>4, ServiceKeeps, ZenonT(30)
<1>5. CASE InstallReloads \/ InstallEnables \/ InstallLoads
  <2>1. /\ UNCHANGED <<os, shell, manager, disk, units, proc>>
        /\ loaded' \in {loaded, units[searchPath]}
        /\ cli' \in {[cli EXCEPT !.step = "reloaded"], Idle}
    BY <1>5, ZenonT(30) DEF InstallReloads, InstallEnables, InstallLoads, Ends
  <2>2. UnitOK(loaded')  BY <1>0, <2>1, ZenonT(30)
  <2>4. DOMAIN cli' = {"step", "flags"} /\ FlagsOK(cli'.flags)
    BY <1>0, <2>1, ServiceFacts, ZenonT(30)
  <2> QED  BY <1>0, <2>1, <2>2, <2>4, ServiceKeeps, ZenonT(30)
<1>6. CASE installWindowsService
  <2>1. /\ UNCHANGED <<os, shell, manager, disk, units, proc>> /\ cli' = Idle
        /\ loaded' \in {loaded, definition(cli.flags)}
    BY <1>6, Zenon DEF installWindowsService, Ends
  <2>2. UnitOK(loaded')  BY <1>0, <2>1, Definitions, ZenonT(30)
  <2>3. DOMAIN cli' = {"step", "flags"} /\ FlagsOK(cli'.flags)
    BY <2>1, ServiceFacts, ZenonT(30)
  <2> QED  BY <1>0, <2>1, <2>2, <2>3, ServiceKeeps, ZenonT(30)
<1>7. CASE UninstallStops
  <2>1. /\ UNCHANGED <<os, shell, manager, disk, units>> /\ proc' \in {proc, NoProc}
        /\ loaded' \in {loaded, NoUnit} /\ cli' = [cli EXCEPT !.step = "stopped"]
    BY <1>7, Zenon DEF UninstallStops
  <2>2. UnitOK(loaded')  BY <1>0, <2>1, ServiceFacts, ZenonT(30)
  <2>3. DOMAIN cli' = {"step", "flags"} /\ FlagsOK(cli'.flags)  BY <1>0, <2>1, ZenonT(30)
  <2> QED  BY <1>0, <2>1, <2>2, <2>3, ServiceKeeps, ZenonT(30)
<1>8. CASE UninstallRemoves
  <2>1. /\ UNCHANGED <<os, shell, manager, disk, proc>> /\ loaded' \in {loaded, NoUnit}
        /\ units' \in {units, [units EXCEPT ![unitPath] = NoUnit]} /\ cli' = Idle
    BY <1>8, Zenon DEF UninstallRemoves, Ends
  <2>2. DOMAIN units' = Places /\ \A place \in Places : UnitOK(units'[place])
    BY <1>0, <2>1, ServiceFacts, ZenonT(30)
  <2>3. UnitOK(loaded')  BY <1>0, <2>1, ServiceFacts, ZenonT(30)
  <2>4. DOMAIN cli' = {"step", "flags"} /\ FlagsOK(cli'.flags)
    BY <2>1, ServiceFacts, ZenonT(30)
  <2> QED  BY <1>0, <2>1, <2>2, <2>3, <2>4, ServiceKeeps, ZenonT(30)
<1>9. CASE Login
  <2>1. /\ UNCHANGED <<os, shell, manager, disk, units>> /\ proc' = NoProc /\ cli' = Idle
        /\ loaded' \in {loaded, NoUnit, units[searchPath]}
    BY <1>9, Zenon DEF Login
  <2>2. UnitOK(loaded')  BY <1>0, <2>1, ServiceFacts, ZenonT(30)
  <2>3. DOMAIN cli' = {"step", "flags"} /\ FlagsOK(cli'.flags)
    BY <2>1, ServiceFacts, ZenonT(30)
  <2> QED  BY <1>0, <2>1, <2>2, <2>3, ServiceKeeps, ZenonT(30)
<1>10. CASE cmdServiceStatus \/ EngineStops \/ ManagerComesOrGoes \/ UNCHANGED vars
  <2>1. UNCHANGED <<os, shell, manager, disk, units, loaded, cli>> /\ proc' \in {proc, NoProc}
    BY <1>10, Zenon DEF cmdServiceStatus, EngineStops, ManagerComesOrGoes, vars
  <2> QED  BY <1>0, <2>1, ServiceKeeps, ZenonT(30)
<1> QED
  BY <1>1, <1>2, <1>3, <1>4, <1>5, <1>6, <1>7, <1>8, <1>9, <1>10, ZenonT(60) DEF Next

\* ServiceInv is an invariant.
LEMMA Services == ASSUME ConstantsOK PROVE Spec => []ServiceInv
<1>1. Init => ServiceInv  BY ServiceInit, Zenon
<1>2. ServiceInv /\ [Next]_vars => ServiceInv'  BY ServiceStep, Zenon
<1> QED  BY <1>1, <1>2, PTL DEF Spec

\* What the layers make of the fields the properties are about.
LEMMA Effects ==
  ASSUME ServiceInv, ConstantsOK, proc.runs
  PROVE  LET e == Effective(proc) IN
         /\ \A f \in TextFields : proc.unit.argv[f] # "" =>
              e.cfg[f] = proc.unit.argv[f] /\ e.o[f] = "flag"
         /\ \A f \in NumFields \ EnvWarnings(manager.vars) :
              manager.vars[f] # NoNumber => e.o[f] = "env" /\ e.cfg[f] = manager.vars[f]
         /\ e.cfg["BitcoinAddress"] \in Addresses
         /\ e.cfg["BitcoinAddresses"] \in Seq(Addresses)
         /\ e.cfg["Pools"] \in Seq([url : [scheme : STRING, rest : Rests], payout : STRING])
<1> DEFINE e == Effective(proc)
           env == manager.vars
           flags == Flags(proc.unit)
           file == proc.file
<1>1. ASSUME NEW f \in Fields
      PROVE  /\ e.o[f] = TopOrigin(f, file, env, flags)
             /\ e.cfg[f] = Filled(f, Top(f, file, env, flags), os, manager)
  <2> DEFINE c == ResolveWithOrigins(os, manager, file, env, flags)
  <2>1. e = c  BY Zenon DEF Effective
  <2> HIDE DEF e, file, env, flags
  <2>2. c.o[f] = TopOrigin(f, file, env, flags)  BY Layers
  <2>3. c.cfg[f] = Filled(f, Top(f, file, env, flags), os, manager)  BY Layers, Zenon
  <2> QED  BY <2>1, <2>2, <2>3, Zenon
<1>2. ASSUME NEW f \in TextFields, proc.unit.argv[f] # ""
      PROVE  e.cfg[f] = proc.unit.argv[f] /\ e.o[f] = "flag"
  <2>1. flags[f] = proc.unit.argv[f] /\ f \in FlagSets(flags) /\ f \in Fields
    BY <1>2, ZenonT(30) DEF Flags, FlagSets, Fields
  <2> HIDE DEF e, env, flags, file
  <2> QED  BY <1>1, <1>2, <2>1, Zenon DEF Top, TopOrigin, Filled
<1>3. ASSUME NEW f \in NumFields \ EnvWarnings(env), env[f] # NoNumber
      PROVE  e.o[f] = "env" /\ e.cfg[f] = env[f]
  <2>1. f \in Fields /\ f \in EnvSets(env)
    BY <1>3, Zenon DEF Fields, EnvSets, EnvWarnings
  <2>2. f \notin TextFields /\ f # "DataDir"  BY Zenon DEF TextFields, NumFields
  <2>3. f \notin FlagSets(flags)  BY <2>2, ZenonT(30) DEF FlagSets
  <2> HIDE DEF e, env, flags, file
  <2> QED  BY <1>1, <2>1, <2>2, <2>3, Zenon DEF Top, TopOrigin, Filled
<1>4. ASSUME NEW f \in {"BitcoinAddress", "BitcoinAddresses", "Pools"}
      PROVE  e.cfg[f] \in {flags[f], env[f], file[f], Defaults[f]}
             /\ (f # "BitcoinAddress" => e.cfg[f] \in {file[f], Defaults[f]})
  <2>1. f \in Fields /\ f # "DataDir"
    BY ZenonT(30) DEF Fields, TextFields, ListFields
  <2>2. f # "BitcoinAddress" => f \notin TextFields /\ f \notin NumFields
    BY Zenon DEF TextFields, NumFields
  <2>3. f # "BitcoinAddress" => f \notin FlagSets(flags) /\ f \notin EnvSets(env)
    BY <2>2, Zenon DEF FlagSets, EnvSets
  <2> HIDE DEF e, env, flags, file
  <2> QED  BY <1>1, <2>1, <2>3, Zenon DEF Top, Filled
<1>5. /\ flags["BitcoinAddress"] \in Addresses /\ env["BitcoinAddress"] \in Addresses
      /\ file["BitcoinAddress"] \in Addresses /\ file["BitcoinAddresses"] \in Seq(Addresses)
      /\ file["Pools"] \in Seq([url : [scheme : STRING, rest : Rests], payout : STRING])
  <2>1. proc.unit.argv["BitcoinAddress"] \in Addresses /\ manager \in Environments
        /\ FileOK(proc.file)
    BY Zenon DEF ServiceInv, UnitOK, FlagsOK
  <2>2. flags["BitcoinAddress"] = proc.unit.argv["BitcoinAddress"]
    BY Zenon DEF Flags, TextFields
  <2> QED  BY <2>1, <2>2, Zenon DEF ConstantsOK, FileOK
<1>6. Defaults["BitcoinAddress"] \in Addresses /\ Defaults["BitcoinAddresses"] = <<>>
      /\ Defaults["Pools"] = <<>>
  BY Zenon DEF Defaults, ZeroConfig, Addresses
<1>7. \A S : <<>> \in Seq(S)  OBVIOUS
<1> HIDE DEF e, env, flags, file
<1>8. /\ e.cfg["BitcoinAddress"] \in Addresses
      /\ e.cfg["BitcoinAddresses"] \in Seq(Addresses)
      /\ e.cfg["Pools"] \in Seq([url : [scheme : STRING, rest : Rests], payout : STRING])
  <2>1. e.cfg["BitcoinAddress"] \in Addresses  BY <1>4, <1>5, <1>6, ZenonT(30)
  <2>2. e.cfg["BitcoinAddresses"] \in Seq(Addresses)  BY <1>4, <1>5, <1>6, <1>7, ZenonT(30)
  <2>3. e.cfg["Pools"] \in Seq([url : [scheme : STRING, rest : Rests], payout : STRING])
    BY <1>4, <1>5, <1>6, <1>7, ZenonT(30)
  <2> QED  BY <2>1, <2>2, <2>3, ZenonT(30)
<1> QED  BY <1>2, <1>3, <1>8, Zenon DEF e, env

(* An engine runs with what `service install` was given: the flags of the  *)
(* definition reach resolveRunConfig and win over every other layer, on    *)
(* Linux the data directory is the one the unit may write, and a numeric   *)
(* variable is in effect or warned about (LayersHonest), whatever the      *)
(* files, environments and flags and however often the definition is       *)
(* replaced, removed or loaded from the wrong place.                       *)
THEOREM LayersStayHonest == ASSUME ConstantsOK PROVE Spec => []LayersHonest
<1>1. ServiceInv => LayersHonest
  <2> SUFFICES ASSUME ServiceInv, proc.runs PROVE LayersHonest
    BY Zenon DEF LayersHonest
  <2> DEFINE e == Effective(proc)
  <2>1. /\ \A f \in TextFields : proc.unit.argv[f] # "" =>
             e.cfg[f] = proc.unit.argv[f] /\ e.o[f] = "flag"
        /\ \A f \in NumFields \ EnvWarnings(manager.vars) :
             manager.vars[f] # NoNumber => e.o[f] = "env" /\ e.cfg[f] = manager.vars[f]
    BY Effects, Zenon
  <2>2. os = "linux" /\ proc.unit.argv.DataDir # "" => e.cfg.DataDir = proc.unit.writable
    <3>1. os = "linux" /\ proc.unit.argv.DataDir # "" =>
            proc.unit.writable = proc.unit.argv.DataDir
      BY Zenon DEF ServiceInv, UnitOK
    <3>2. "DataDir" \in TextFields  BY Zenon DEF TextFields
    <3> HIDE DEF e
    <3> QED  BY <2>1, <3>1, <3>2, ZenonT(30)
  <2> QED  BY <2>1, <2>2, Zenon DEF LayersHonest
<1> QED  BY <1>1, Services, PTL

\* validatePoolURL lets through only what DialURL can open.
LEMMA PoolsDial ==
  ASSUME NEW url \in [scheme : STRING, rest : Rests], validatePoolURL(url)
  PROVE  Dials(url)
<1>1. url.rest \in Rests /\ validatePoolTarget(url.rest)
      /\ url.scheme \in {"stratum+tcp", "stratum+tls", "stratum+v2", "stratum+v2tls"}
  BY Zenon DEF validatePoolURL
<1>2. url.rest = "host:port"  BY <1>1, ZenonT(30) DEF Rests, validatePoolTarget
<1>3. url.scheme \in DOMAIN knownSchemes
      /\ knownSchemes[url.scheme] \in {"v1", "v1tls", "sv2", "sv2tls"}
  BY <1>1, Zenon DEF knownSchemes
<1> QED
  BY <1>2, <1>3, ZenonT(30)
  DEF Dials, FromURL, StripScheme, Lookup, Registered

\* Every pool of an accepted configuration can be dialled, the default included.
LEMMA PoolList ==
  ASSUME NEW c, NEW pools \in Seq([url : [scheme : STRING, rest : Rests], payout : STRING]),
         pools = c.Pools, PoolsOK(c)
  PROVE  \A i \in 1 .. Len(poolURLs(c)) : Dials(poolURLs(c)[i])
<1>1. CASE pools = <<>>
  <2>1. poolURLs(c) = <<DefaultPoolURL>>  BY <1>1, Zenon DEF poolURLs
  <2>2. Dials(DefaultPoolURL)
    <3>1. "stratum+v2" \in DOMAIN knownSchemes /\ knownSchemes["stratum+v2"] = "sv2"
      BY Zenon DEF knownSchemes
    <3> QED
      BY ZenonT(30), <3>1
      DEF DefaultPoolURL, Dials, FromURL, StripScheme, Lookup,
                  Registered
  <2> QED  BY <2>1, <2>2
<1>2. CASE pools # <<>>
  <2> DEFINE urls == [i \in 1 .. Len(pools) |-> pools[i].url]
             URLs == [scheme : STRING, rest : Rests]
  <2>1. poolURLs(c) = urls  BY <1>2, Zenon DEF poolURLs
  <2>2. Len(pools) \in Nat /\ \A i \in 1 .. Len(pools) : pools[i].url \in URLs
    <3>1. Len(pools) \in Nat  OBVIOUS
    <3>2. ASSUME NEW i \in 1 .. Len(pools) PROVE pools[i].url \in URLs
      <4> DEFINE Pools == [url : URLs, payout : STRING]
      <4>0. pools \in Seq(Pools)  BY Zenon
      <4> HIDE DEF URLs, Pools
      <4>1. pools[i] \in Pools  BY <3>1, <4>0
      <4> QED  BY <4>1 DEF Pools
    <3> QED  BY <3>1, <3>2, ZenonT(30)
  <2>3. urls \in [1 .. Len(pools) -> URLs]
    <3> HIDE DEF URLs
    <3> QED  BY <2>2, ZenonT(30)
  <2>4. Len(urls) = Len(pools)
    <3> HIDE DEF urls, URLs
    <3> QED  BY <2>2, <2>3, Listed, Zenon
  <2>5. ASSUME NEW i \in 1 .. Len(pools) PROVE Dials(urls[i])
    <3>1. validatePoolURL(pools[i].url)  BY Zenon DEF PoolsOK
    <3>2. Dials(pools[i].url)  BY <2>2, <3>1, PoolsDial, ZenonT(60)
    <3> QED  BY <3>2, Zenon
  <2> HIDE DEF urls
  <2> QED  BY <2>1, <2>4, <2>5, Zenon
<1> QED  BY <1>1, <1>2, ZenonT(30)

(* What Validate lets through, the engine can run (StartsRunnable): every  *)
(* pool of poolURLs leads to a registered dialer and a host and port, and  *)
(* payoutAddresses yields good addresses, at least one, none twice, so     *)
(* that sessionUser names whom the pool pays.                              *)
THEOREM StartsAreRunnable == ASSUME ConstantsOK PROVE Spec => []StartsRunnable
<1>1. ServiceInv => StartsRunnable
  <2> SUFFICES ASSUME ServiceInv, proc.runs PROVE StartsRunnable
    BY Zenon DEF StartsRunnable
  <2> DEFINE c == Effective(proc).cfg
             addrs == payoutAddresses(c)
  <2>1. /\ c["BitcoinAddress"] \in Addresses
        /\ c["BitcoinAddresses"] \in Seq(Addresses)
        /\ c["Pools"] \in Seq([url : [scheme : STRING, rest : Rests], payout : STRING])
    BY Effects, Zenon
  <2>2. AddressesOK(c) /\ PoolsOK(c)
    BY Zenon DEF ServiceInv, Validate
  <2> HIDE DEF c
  <2>3. \A i \in 1 .. Len(poolURLs(c)) : Dials(poolURLs(c)[i])
    BY <2>1, <2>2, PoolList, Zenon
  <2>4. /\ addrs \in Seq(GoodAddresses) /\ Len(addrs) > 0
        /\ \A i \in 1 .. Len(addrs) : \A j \in 1 .. (i - 1) : addrs[j] # addrs[i]
    BY <2>1, <2>2, Payouts, Zenon
  <2> HIDE DEF addrs
  <2>5. addrs # <<>>  BY <2>4
  <2>6. ASSUME NEW i \in 1 .. Len(addrs)
        PROVE  /\ addrs[i] \in GoodAddresses
               /\ sessionUser("", addrs[i], "rig") # <<"", "rig">>
    <3>1. addrs[i] \in GoodAddresses  BY <2>4
    <3>2. addrs[i] # ""  BY <3>1, Zenon DEF GoodAddresses
    <3>3. sessionUser("", addrs[i], "rig") = <<addrs[i], "rig">>
      BY Zenon DEF sessionUser
    <3>4. \A a, b : <<a, b>> = <<"", b>> => a = ""  BY Zenon
    <3> QED  BY <3>1, <3>2, <3>3, <3>4, ZenonT(60)
  <2> QED  BY <2>3, <2>4, <2>5, <2>6, Zenon DEF StartsRunnable, c, addrs
<1> QED  BY <1>1, Services, PTL
=============================================================================
