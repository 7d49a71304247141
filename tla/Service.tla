------------------------------ MODULE Service ------------------------------
(***************************************************************************)
(* `otedama service install | uninstall | status` and the service they put *)
(* in place: the definition on disk, the commands given to systemd,        *)
(* launchd or the Windows service manager one after the other, each of     *)
(* which may fail, and the engine those managers then start, restart and   *)
(* start again at login, with the configuration resolved at that moment.   *)
(*                                                                         *)
(* The managers are external and modelled from the commands the code gives *)
(* them.  The shell and the manager have environments of their own.        *)
(***************************************************************************)
EXTENDS Config

CONSTANTS
  InstallFlags,     \* the flags `service install` may be given
  Environments,     \* the environments the shell and the manager may have
  FileContents,     \* what the config file may hold
  MaxCommands       \* bound on the service commands of a behaviour

Places == {"home", "xdg"}      \* ~/.config and $XDG_CONFIG_HOME

VARIABLES
  os,        \* goos
  shell,     \* the environment of the command line
  manager,   \* the environment of the service manager
  up,        \* the manager can be reached
  disk,      \* config files, by place
  units,     \* service definitions on disk, by place
  loaded,    \* the definition the manager holds
  enabled,   \* it starts the service at login
  wanted,    \* it means the service to be running
  proc,      \* the running engine
  cli,       \* the command under way
  told,      \* what the last command said
  commands   \* commands given so far

vars == <<os, shell, manager, up, disk, units, loaded, enabled, wanted, proc,
          cli, told, commands>>

NoFlags == [config |-> "", DataDir |-> "", BitcoinAddress |-> "", LogLevel |-> ""]
NoUnit == [kind |-> "none", argv |-> NoFlags, writable |-> ""]
(* What an os.WriteFile that fails after the open leaves: a truncated file. *)
EmptyUnit == [NoUnit EXCEPT !.kind = "empty"]
NoProc == [runs |-> FALSE, unit |-> NoUnit, file |-> ZeroConfig]
Idle == [step |-> "idle", flags |-> NoFlags]

-----------------------------------------------------------------------------
(* The definition.  An empty flag is left out of the command line, and the *)
(* engine then falls back to its other layers.                             *)

serviceArgv(flags) == flags

(* ReadWritePaths: the directory under the read-only home the unit may     *)
(* write, chosen at install time.                                          *)
systemdUnit(flags) ==
  [kind |-> "ok", argv |-> serviceArgv(flags),
   writable |-> IF flags.DataDir # "" THEN flags.DataDir
                ELSE DefaultDataDir(os, shell)]

(* launchd and Windows confine nothing.                                    *)
launchdPlist(flags) == [kind |-> "ok", argv |-> serviceArgv(flags), writable |-> ""]

definition(flags) ==
  IF os = "linux" THEN systemdUnit(flags) ELSE launchdPlist(flags)

ConfigHome(place) == IF place.configHome # "" THEN place.configHome ELSE place.home

(* The manager is asked where it looks; when it cannot be, the shell says. *)
systemdUnitPath == ConfigHome(IF up THEN manager ELSE shell)

unitPath == IF os = "linux" THEN systemdUnitPath ELSE "home"

(* Where the manager itself looks.                                         *)
searchPath == IF os = "linux" THEN ConfigHome(manager) ELSE "home"

-----------------------------------------------------------------------------
(* The command line.  A command is a sequence of steps of its own process; *)
(* the manager may come and go between them.                               *)

Ends(answer) == cli' = Idle /\ told' = answer

Begin(step, flags) ==
  /\ cli = Idle /\ commands < MaxCommands
  /\ commands' = commands + 1
  /\ cli' = [step |-> step, flags |-> flags]
  /\ UNCHANGED <<os, shell, manager, up, disk, units, loaded, enabled, wanted, proc, told>>

cmdServiceInstall == \E f \in InstallFlags : Begin("install", f)
cmdServiceUninstall == Begin("uninstall", NoFlags)

(* os.WriteFile of the unit or the plist; it fails to open the file, which *)
(* leaves the old one, or to write it.                                     *)
InstallWrites ==
  /\ cli.step = "install" /\ os # "windows"
  /\ \/ /\ units' = [units EXCEPT ![unitPath] = definition(cli.flags)]
        /\ cli' = [cli EXCEPT !.step = "written"] /\ UNCHANGED told
     \/ /\ units' \in {units, [units EXCEPT ![unitPath] = EmptyUnit]}
        /\ Ends("failed")
  /\ UNCHANGED <<os, shell, manager, up, disk, loaded, enabled, wanted, proc, commands>>

(* systemctl daemon-reload: the manager reads the definitions again.       *)
InstallReloads ==
  /\ cli.step = "written" /\ os = "linux"
  /\ IF up
     THEN /\ loaded' = units[searchPath]
          /\ cli' = [cli EXCEPT !.step = "reloaded"] /\ UNCHANGED told
     ELSE Ends("failed") /\ UNCHANGED loaded
  /\ UNCHANGED <<os, shell, manager, up, disk, units, enabled, wanted, proc, commands>>

(* systemctl enable --now.  A running service is left as it is.            *)
InstallEnables ==
  /\ cli.step = "reloaded"
  /\ IF up /\ units[searchPath].kind = "ok"
     THEN enabled' = TRUE /\ wanted' = TRUE /\ Ends("installed")
     ELSE UNCHANGED <<enabled, wanted>> /\ Ends("failed")
  /\ UNCHANGED <<os, shell, manager, up, disk, units, loaded, proc, commands>>

(* launchctl load -w, which refuses a label that is loaded already.        *)
InstallLoads ==
  /\ cli.step = "written" /\ os = "darwin"
  /\ IF up /\ loaded = NoUnit
     THEN loaded' = units[searchPath] /\ enabled' = TRUE /\ wanted' = TRUE /\ Ends("installed")
     ELSE UNCHANGED <<loaded, enabled, wanted>> /\ Ends("failed")
  /\ UNCHANGED <<os, shell, manager, up, disk, units, proc, commands>>

(* sc.exe create: registered to start with the system, not started now.    *)
installWindowsService ==
  /\ cli.step = "install" /\ os = "windows"
  /\ IF up /\ loaded = NoUnit
     THEN loaded' = definition(cli.flags) /\ enabled' = TRUE /\ Ends("installed")
     ELSE UNCHANGED <<loaded, enabled>> /\ Ends("failed")
  /\ UNCHANGED <<os, shell, manager, up, disk, units, wanted, proc, commands>>

(* disable --now, unload -w or stop; its failure is ignored.               *)
UninstallStops ==
  /\ cli.step = "uninstall"
  /\ cli' = [cli EXCEPT !.step = "stopped"]
  /\ IF up /\ (os = "linux" => units[searchPath] # NoUnit)
     THEN /\ wanted' = FALSE /\ proc' = NoProc
          /\ enabled' = (enabled /\ os = "windows")
          /\ loaded' = IF os = "darwin" THEN NoUnit ELSE loaded
     ELSE UNCHANGED <<wanted, proc, enabled, loaded>>
  /\ UNCHANGED <<os, shell, manager, up, disk, units, told, commands>>

(* os.Remove, or sc.exe delete: the answer of the command.                 *)
UninstallRemoves ==
  /\ cli.step = "stopped"
  /\ IF os = "windows"
     THEN /\ IF up /\ loaded # NoUnit
             THEN loaded' = NoUnit /\ enabled' = FALSE /\ Ends("uninstalled")
             ELSE UNCHANGED <<loaded, enabled>> /\ Ends("failed")
          /\ UNCHANGED units
     ELSE /\ units' = [units EXCEPT ![unitPath] = NoUnit]
          /\ Ends(IF units[unitPath] = NoUnit THEN "failed" ELSE "uninstalled")
          /\ UNCHANGED <<loaded, enabled>>
  /\ UNCHANGED <<os, shell, manager, up, disk, wanted, proc, commands>>

(* `service status`: a definition where one would be written now, and the  *)
(* manager's word for whether it runs: launchctl list knows every label    *)
(* that is loaded, whether its process runs or not.                        *)
Status ==
  [installed |-> IF os = "windows" THEN up /\ loaded # NoUnit ELSE units[unitPath] # NoUnit,
   running   |-> up /\ CASE os = "darwin"  -> loaded # NoUnit
                         [] os = "windows" -> loaded # NoUnit /\ proc.runs
                         [] OTHER          -> proc.runs]

cmdServiceStatus ==
  /\ cli = Idle /\ commands < MaxCommands
  /\ commands' = commands + 1
  /\ told' = CASE ~Status.installed -> "not installed"
              [] Status.running -> "running"
              [] OTHER -> "stopped"
  /\ UNCHANGED <<os, shell, manager, up, disk, units, loaded, enabled, wanted, proc, cli>>

-----------------------------------------------------------------------------
(* The engine the service starts: resolveRunConfig with the flags of the   *)
(* loaded definition and the manager's environment.                        *)

ConfigPath(unit) ==
  IF unit.argv.config # "" THEN unit.argv.config ELSE defaultConfigPath(manager)

Flags(unit) == [f \in TextFields |-> unit.argv[f]]

Effective(p) == ResolveWithOrigins(os, manager, p.file, manager.vars, Flags(p.unit))

(* The manager starts what it means to run; an engine whose configuration  *)
(* does not validate exits at once, and is tried again.                    *)
resolveRunConfig ==
  /\ wanted /\ ~proc.runs /\ loaded.kind = "ok"
  /\ LET p == [runs |-> TRUE, unit |-> loaded,
               file |-> loadConfigFile(disk, ConfigPath(loaded))]
     IN Validate(Effective(p).cfg) /\ proc' = p
  /\ UNCHANGED <<os, shell, manager, up, disk, units, loaded, enabled, wanted, cli, told, commands>>

EngineStops ==
  /\ proc.runs /\ proc' = NoProc
  /\ UNCHANGED <<os, shell, manager, up, disk, units, loaded, enabled, wanted, cli, told, commands>>

(* The user edits the config file, or makes it unreadable.                 *)
EditConfig ==
  /\ \E place \in Places, c \in FileContents : disk' = [disk EXCEPT ![place] = c]
  /\ UNCHANGED <<os, shell, manager, up, units, loaded, enabled, wanted, proc, cli, told, commands>>

(* The manager goes away, or cannot be reached from this session.          *)
ManagerComesOrGoes ==
  /\ up' = ~up
  /\ UNCHANGED <<os, shell, manager, disk, units, loaded, enabled, wanted, proc, cli, told, commands>>

(* Login after a logout: definitions are read from disk, enabled services  *)
(* are started.  A command under way died with its session.                *)
Login ==
  /\ loaded' = IF os = "windows" THEN loaded
               ELSE IF os = "darwin" /\ ~enabled THEN NoUnit ELSE units[searchPath]
  /\ wanted' = (enabled /\ loaded' # NoUnit) /\ proc' = NoProc
  /\ up' = TRUE /\ cli' = Idle
  /\ UNCHANGED <<os, shell, manager, disk, units, enabled, told, commands>>

-----------------------------------------------------------------------------
Init ==
  /\ os \in {"linux", "darwin", "windows"}
  /\ shell \in Environments /\ manager \in Environments
  /\ up \in BOOLEAN
  /\ disk \in [Places -> FileContents]
  /\ units = [place \in Places |-> NoUnit] /\ loaded = NoUnit
  /\ enabled = FALSE /\ wanted = FALSE
  /\ proc = NoProc /\ cli = Idle /\ told = "" /\ commands = 0

Next ==
  \/ cmdServiceInstall \/ InstallWrites \/ InstallReloads \/ InstallEnables
  \/ InstallLoads \/ installWindowsService
  \/ cmdServiceUninstall \/ UninstallStops \/ UninstallRemoves
  \/ cmdServiceStatus
  \/ resolveRunConfig \/ EngineStops
  \/ EditConfig \/ ManagerComesOrGoes \/ Login

Spec == Init /\ [][Next]_vars

-----------------------------------------------------------------------------
(* Every start of the service, whatever the file and the manager's         *)
(* environment have become since, runs with the flags that were embedded   *)
(* at install time (ServiceFlags: the same precedence as a direct          *)
(* `otedama run`); on Linux a data directory among them is the one the     *)
(* unit may write; and a numeric variable that was given is in effect or   *)
(* is warned about, never silently lost.                                   *)
LayersHonest ==
  proc.runs =>
    LET e == Effective(proc) IN
    /\ \A f \in TextFields : proc.unit.argv[f] # "" =>
         e.cfg[f] = proc.unit.argv[f] /\ e.o[f] = "flag"
    /\ (os = "linux" /\ proc.unit.argv.DataDir # "") => e.cfg.DataDir = proc.unit.writable
    /\ \A f \in NumFields \ EnvWarnings(manager.vars) :
         manager.vars[f] # NoNumber => e.o[f] = "env" /\ e.cfg[f] = manager.vars[f]

(* An engine that got past Validate has work it can attempt: every pool of *)
(* its list leads through FromURL and Lookup to a registered dialer and a  *)
(* host and port, there is an address to be paid to, every one of them is  *)
(* good and none comes twice, and the pool is told whom it works for.      *)
StartsRunnable ==
  proc.runs =>
    LET c == Effective(proc).cfg
        urls == poolURLs(c)
        addrs == payoutAddresses(c)
    IN /\ \A i \in 1..Len(urls) : Dials(urls[i])
       /\ addrs # <<>>
       /\ \A i \in 1..Len(addrs) :
            /\ addrs[i] \in GoodAddresses
            /\ \A j \in 1..(i - 1) : addrs[j] # addrs[i]
            /\ sessionUser("", addrs[i], "rig") # <<"", "rig">>

(* The comment on systemdUnit: the unit's carve-out "matches the path      *)
(* actually used".                                                         *)
CarveOutMatches ==
  (proc.runs /\ os = "linux") => proc.unit.writable = Effective(proc).cfg.DataDir

(* `otedama service uninstall`: "Remove and stop the service."             *)
UninstallMeansStopped == told = "uninstalled" => ~proc.runs
-----------------------------------------------------------------------------
(* Why every start is honest and runnable.                                 *)

(* The addresses and what can follow a scheme, as Config names them.       *)
Addresses == GoodAddresses \cup {"", "short", "long", "testnet", "typo"}
Rests ==
  {"", "host:port", "user@host:port", "host:port/path", "host", "host:port:port", ":port",
   "host:0", "host:65536", "host:name"}

FlagsOK(flags) == flags.BitcoinAddress \in Addresses

FileOK(c) ==
  /\ DOMAIN c = Fields /\ c["BitcoinAddress"] \in Addresses
  /\ c["BitcoinAddresses"] \in Seq(Addresses)
  /\ c["Pools"] \in Seq([url : [scheme : STRING, rest : Rests], payout : STRING])

(* What the proofs need of the constants: the flags, the addresses and the *)
(* URLs have the shapes Config tells apart, and the managers look for the  *)
(* definition in one of the two places.                                    *)
ConstantsOK ==
  /\ \A f \in InstallFlags : FlagsOK(f)
  /\ \A e \in Environments : ConfigHome(e) \in Places /\ e.vars["BitcoinAddress"] \in Addresses
  /\ \A c \in FileContents : FileOK(c.cfg)

(* On Linux a definition that names a data directory makes it writable.    *)
UnitOK(u) ==
  /\ FlagsOK(u.argv)
  /\ os = "linux" /\ u.argv.DataDir # "" => u.writable = u.argv.DataDir

(* The inductive invariant: each definition, on disk, loaded or running,   *)
(* is one an install wrote whole, and what runs has been validated.        *)
ServiceInv ==
  /\ shell \in Environments /\ manager \in Environments
  /\ disk \in [Places -> FileContents] /\ DOMAIN units = Places
  /\ \A place \in Places : UnitOK(units[place])
  /\ UnitOK(loaded) /\ UnitOK(proc.unit)
  /\ DOMAIN cli = {"step", "flags"} /\ FlagsOK(cli.flags)
  /\ proc.runs => FileOK(proc.file) /\ Validate(Effective(proc).cfg)
=============================================================================
