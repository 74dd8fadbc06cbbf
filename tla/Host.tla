-------------------------------- MODULE Host --------------------------------
(***************************************************************************)
(* The services of the stacks under systemd and launchd, with the commands *)
(* that install their files, start and stop them, and take them away:      *)
(* setup, service install and uninstall, start, restart, stop, enable and  *)
(* disable with and without service, config with its restart, add, remove, *)
(* import and uninstall.  Processes die and the host reboots in between.   *)
(*                                                                         *)
(* Of a stack only its switches matter here; that a set of stacks loads,   *)
(* and the order of services, is the business of StackPipeline.  What the  *)
(* two service managers do is modelled from how the code calls them.       *)
(***************************************************************************)
EXTENDS Install

CONSTANTS
    StackNames,
    Shapes,       \* switches a stack may have: [enabled, xray, clash]
    Starts,       \* what the host may hold at first
    MaxCommands   \* bound on commands

ASSUME HostBoundsAssumption == MaxCommands \in Nat /\ MaxFaults \in Nat
\* A target is told by its nodes: with one stack, all would be that stack.
ASSUME StackNamesAssumption == IsFiniteSet(StackNames) /\ Cardinality(StackNames) # 1
\* At first nothing runs but what is on and installed, and before setup there is nothing.
ASSUME StartsAssumption ==
    \A start \in Starts :
        /\ start.files \subseteq UNION {targetPaths(t) : t \in {"mihomo", "xray", "geo"}}
        /\ DOMAIN start.stacks \subseteq StackNames
        /\ \A n \in start.running :
              /\ n \in StackNames \X {"xray", "clash"} /\ n[1] \in DOMAIN start.stacks
              /\ start.stacks[n[1]].enabled /\ start.stacks[n[1]][n[2]]
        /\ ~start.setup => DOMAIN start.stacks = {}

VARIABLES
    config,    \* config.yaml is there
    stacks,    \* function from the stacks there are to their switches
    units,     \* systemd: the components whose template is installed; launchd: the nodes with a plist
    loaded,    \* launchd: the jobs that are bootstrapped
    running,   \* the nodes whose process runs
    enabled,   \* the nodes enabled at boot
    removed,   \* history: stacks that remove or uninstall --purge took away, or was told to
    commands

hostVars == <<config, stacks, units, loaded, running, enabled, removed, commands>>
vars == <<installVars, hostVars>>

Nodes == StackNames \X {"xray", "clash"}
Linux == os = "linux"
Binary(n) == IF n[2] = "xray" THEN "xray" ELSE "mihomo"

(***************************************************************************)
(* Targets.                                                                *)
(***************************************************************************)

\* A target is the nodes it names: all, a stack, a component of a stack.
Targets == {Nodes} \cup {{s} \X {"xray", "clash"} : s \in StackNames} \cup {{n} : n \in Nodes}

\* The nodes of the reference graph.
OnNodes == {n \in Nodes : /\ n[1] \in DOMAIN stacks
                          /\ stacks[n[1]].enabled /\ stacks[n[1]][n[2]]}
\* ResolveTargetScope, for a target whose stack is there.
Known(T) == T = Nodes \/ \A n \in T : n[1] \in DOMAIN stacks
Scope(T) == T \cap OnNodes

\* shouldUseHistoricalServices
Historical == {"stop", "disable"}

\* explicitLifecycleServiceNodes: a component by name, or what the switches of the stack say.
explicitLifecycleServiceNodes(T) ==
    IF Cardinality(T) = 1 THEN T ELSE {n \in T : T # Nodes /\ stacks[n[1]][n[2]]}

\* resolveServiceTargets
ServiceNodes(action, T) ==
    IF Scope(T) = {} /\ action \in Historical THEN explicitLifecycleServiceNodes(T) ELSE Scope(T)

(***************************************************************************)
(* The service managers.                                                   *)
(***************************************************************************)

\* The process of the node can run: systemd executes the binary as the service account.
Runnable(n) == Binary(n) \in DOMAIN files /\ (Linux => files[Binary(n)].owner = "proxystack")
\* What is known to the manager can be started; launchctl bootstraps no job that is disabled.
Startable(n) == IF Linux THEN n[2] \in units ELSE n \in loaded \cup (units \cap enabled)

\* systemctl enables only what has a unit; launchctl takes any label.
Enableable(n) == Linux => n[2] \in units

\* A call for several services fails when it has done some of them.
Fully(S, done) == done = S /\ UNCHANGED faults
Partly(S, done) == done # S /\ Fault
Outcome(full, S, done) == IF full THEN Fully(S, done) ELSE Partly(S, done)

\* IsActive
Active == running

\* Manager.Start: what is active is left alone.
ManagerStart(done) ==
    /\ done \ Active \subseteq {n \in Nodes : Startable(n)}
    /\ running' = running \cup {n \in done : Runnable(n)'}
    /\ loaded' = IF Linux THEN loaded ELSE loaded \cup done
    /\ UNCHANGED enabled

\* Manager.Stop: launchctl boots the job out.
ManagerStop(done) == running' = running \ done /\ loaded' = loaded \ done /\ UNCHANGED enabled

\* Manager.Restart
ManagerRestart(done) ==
    /\ done \subseteq {n \in Nodes : Startable(n)}
    /\ running' = (running \ done) \cup {n \in done : Runnable(n)'}
    /\ loaded' = IF Linux THEN loaded ELSE loaded \cup done
    /\ UNCHANGED enabled

\* Manager.Enable
ManagerEnable(done) ==
    /\ \A n \in done : Enableable(n)
    /\ enabled' = enabled \cup done /\ UNCHANGED <<loaded, running>>

\* Manager.Disable
ManagerDisable(done) ==
    /\ \A n \in done : Enableable(n)
    /\ enabled' = enabled \ done /\ UNCHANGED <<loaded, running>>

\* runServiceAction
Act(action, done) ==
    CASE action = "start" -> ManagerStart(done)
      [] action = "restart" -> ManagerRestart(done)
      [] action = "stop" -> ManagerStop(done)
      [] action = "enable" -> ManagerEnable(done)
      [] action = "disable" -> ManagerDisable(done)

(***************************************************************************)
(* Service files.                                                          *)
(***************************************************************************)

\* selectUnitFiles: systemd's templates serve all stacks.
selectUnitFiles(T) == {n[2] : n \in IF T = Nodes THEN Nodes ELSE Scope(T)}

\* Mutated selectUnitFilesForUninstall: the other stacks are not looked at.
selectUnitFilesOfTarget(T) == selectUnitFiles(T)

\* selectUnitFilesForUninstall: a template that a stack outside of the target uses stays.
selectUnitFilesForUninstall(T) ==
    IF T = Nodes THEN selectUnitFiles(T)
    ELSE {n[2] : n \in Scope(T)} \ {n[2] : n \in OnNodes \ Scope(T)}

\* RenderLaunchdPlists: a plist for each node.
RenderLaunchdPlists(T) == Scope(T)

\* managedLaunchdPatterns: without a target, whatever is in the directory.
managedLaunchdPatterns(T) == IF T = Nodes THEN units ELSE Scope(T)

\* bootoutIfLoaded
bootoutIfLoaded(S) == loaded' = loaded \ S /\ running' = running \ S

\* A loop over plists that is cut short: of S it has handled some, and of one only the first half.
CutShort(S, first, second) ==
    second \subseteq first /\ first \subseteq S /\ Cardinality(first \ second) <= 1

\* Mutated RemovePlists: the plist goes first, then the job.
RemovePlistsFirst(S, written, ok) ==
    \E gone \in SUBSET S : \E out \in SUBSET gone :
        /\ CutShort(S, gone, out) /\ (ok => out = S)
        /\ units' = (units \cup written) \ gone
        /\ bootoutIfLoaded(out)

\* The loops of UninstallUnits and removeStaleLaunchdPlists: for each plist bootoutIfLoaded, then
\* os.Remove.  An error or a kill leaves the rest, and one plist whose job is booted out already.
RemovePlists(S, written, ok) ==
    \E out \in SUBSET S : \E gone \in SUBSET out :
        /\ CutShort(S, out, gone) /\ (ok => gone = S)
        /\ units' = (units \cup written) \ gone
        /\ bootoutIfLoaded(out)

\* removeStaleLaunchdPlists: what is no longer expected.
StalePlists(T) == managedLaunchdPatterns(T) \ RenderLaunchdPlists(T)

\* Files are written one by one, and at the end comes daemon-reload; what fails leaves the rest.
SystemdInstallUnits(T, ok) ==
    /\ \E written \in SUBSET selectUnitFiles(T) :
         units' = units \cup written /\ (ok => written = selectUnitFiles(T))
    /\ UNCHANGED <<loaded, running>>
\* The stale plists go when all others are written.
LaunchdInstallUnits(T, ok) ==
    \/ RemovePlists(StalePlists(T), RenderLaunchdPlists(T), ok)
    \/ /\ ~ok /\ UNCHANGED <<loaded, running>>
       /\ \E written \in SUBSET RenderLaunchdPlists(T) : units' = units \cup written

\* Manager.InstallUnits; ok tells whether it ends well.
InstallUnits(T, ok) == IF Linux THEN SystemdInstallUnits(T, ok) ELSE LaunchdInstallUnits(T, ok)

\* systemd is not told.
SystemdUninstallUnits(T, ok) ==
    /\ \E gone \in SUBSET selectUnitFilesForUninstall(T) :
         units' = units \ gone /\ (ok => gone = selectUnitFilesForUninstall(T))
    /\ UNCHANGED <<loaded, running>>
LaunchdUninstallUnits(T, ok) == RemovePlists(managedLaunchdPatterns(T), {}, ok)

\* Manager.UninstallUnits
UninstallUnits(T, ok) == IF Linux THEN SystemdUninstallUnits(T, ok) ELSE LaunchdUninstallUnits(T, ok)

(***************************************************************************)
(* Commands.                                                               *)
(***************************************************************************)

Command == job.kind = "none" /\ commands < MaxCommands /\ commands' = commands + 1
KeepFiles == UNCHANGED <<os, account, files, job, stained>>
KeepStacks == UNCHANGED <<config, stacks, removed>>
\* A step ends well, or something goes wrong and the command ends there.
Ends(ok) == IF ok THEN UNCHANGED faults ELSE Fault

\* install, update, setup deps
InstallCommand(target, force, request) ==
    /\ Command /\ config
    /\ BeginInstall(target, force, request)
    /\ UNCHANGED <<os, account, files, stained, faults, units, loaded, running, enabled>>
    /\ KeepStacks

\* ensureServiceAccountForInit, by root
ensureLinuxServiceAccount == account \/ Linux

\* runSetupLocal, and runSetupAll if deps follow: the account, the config, the owners, the units.
\* It stops at what fails: before the owners are repaired, or in the units.  Root runs it.
SetupLocal(deps) ==
    /\ Command
    /\ \/ /\ Fault
          /\ \/ account' \in {account, ensureLinuxServiceAccount} /\ config' = config
             \/ account' = ensureLinuxServiceAccount /\ config' = TRUE
          /\ UNCHANGED <<files, job, stained, units, loaded, running>>
       \/ \E ok \in BOOLEAN :
          /\ account' = ensureLinuxServiceAccount /\ config' = TRUE
          /\ repairServiceMetadata(TRUE)
          /\ InstallUnits(Nodes, ok) /\ Ends(ok)
          /\ IF ok /\ deps THEN BeginInstall("all", FALSE, NoRequest) ELSE UNCHANGED job
    /\ UNCHANGED <<os, stacks, enabled, removed>>

ServiceInstall(T) ==
    /\ Command /\ config /\ Known(T)
    /\ \E ok \in BOOLEAN : InstallUnits(T, ok) /\ Ends(ok)
    /\ UNCHANGED enabled /\ KeepFiles /\ KeepStacks

\* Without a target it does without a config.
ServiceUninstall(T) ==
    /\ Command /\ (T # Nodes => config /\ Known(T))
    /\ \E ok \in BOOLEAN : UninstallUnits(T, ok) /\ Ends(ok)
    /\ UNCHANGED enabled /\ KeepFiles /\ KeepStacks

\* Mutated checkRequiredBinaries: not looked at.
checkNoBinaries(S) == TRUE

\* checkRequiredBinaries: that the service account may execute them is not asked.
checkRequiredBinaries(S) == \A n \in S : Binary(n) \in DOMAIN files

\* runLifecycle, start and restart: they look for the binaries, write runtime files
\* (AgentRuntime) and repair the owners, if root runs them.
Lifecycle(action, T, root, full) ==
    /\ Command /\ config /\ Known(T)
    /\ UNCHANGED <<os, account, job, units>> /\ KeepStacks
    /\ checkRequiredBinaries(Scope(T))
    /\ CanRepair(root) /\ repairServiceMetadata(root)
    /\ \E done \in SUBSET Scope(T) : Outcome(full, Scope(T), done) /\ Act(action, done)

\* runLifecycle, other actions, and newServiceActionCommand, all actions: the services only.
ServiceAction(action, T) ==
    /\ Command /\ config /\ Known(T)
    /\ UNCHANGED units /\ KeepFiles /\ KeepStacks
    /\ LET S == ServiceNodes(action, T)
       IN  \E done \in SUBSET S : (Fully(S, done) \/ Partly(S, done)) /\ Act(action, done)

\* add: a new stack; none of its services is started.
AddStack(s, shape) ==
    /\ Command /\ config /\ s \notin DOMAIN stacks
    /\ stacks' = [t \in DOMAIN stacks \cup {s} |-> IF t = s THEN shape ELSE stacks[t]]
    /\ UNCHANGED <<faults, config, units, loaded, running, enabled, removed>> /\ KeepFiles

\* config NAME: the stack is committed, then restartActiveStack restarts what runs of it and is
\* still on; what was switched off runs on.
EditStack(s, shape, root) ==
    /\ Command /\ config /\ s \in DOMAIN stacks
    /\ stacks' = [stacks EXCEPT ![s] = shape]
    /\ UNCHANGED <<os, account, job, config, units, removed>>
    /\ LET active == {n \in Active : n[1] = s} \cap (OnNodes)'
       IN  IF active = {} \/ ~checkRequiredBinaries(active) \/ ~CanRepair(root)
           THEN UNCHANGED <<files, stained, loaded, running, enabled, faults>>
           ELSE /\ repairServiceMetadata(root)
                /\ \E done \in SUBSET active :
                     (Fully(active, done) \/ Partly(active, done)) /\ ManagerRestart(done)

\* remove: services and unit files are left.
RemoveStack(s) ==
    /\ Command /\ config /\ s \in DOMAIN stacks
    /\ stacks' = [t \in DOMAIN stacks \ {s} |-> stacks[t]]
    /\ removed' = removed \cup {s}
    /\ UNCHANGED <<faults, config, units, loaded, running, enabled>> /\ KeepFiles

\* Mutated importServiceCandidates: the nodes that are on.
importOnNodes == OnNodes

\* importServiceCandidates: both components of each stack, on or off.
importServiceCandidates == {n \in Nodes : config /\ n[1] \in DOMAIN stacks}

\* restoreBackupFiles, killed between its renames or failing with its rollback: config.yaml and
\* the stacks are each the old ones, those of the backup, or gone (ConfigStore has the steps).
RestoreInterrupted(backup) ==
    \/ config' \in BOOLEAN /\ stacks' \in {stacks, <<>>}
    \/ config' = TRUE /\ stacks' = backup

\* newImportCommand --force: what runs of the old stacks is stopped, then config and stacks are
\* those of a backup and the owners are repaired; or a stop fails, or the backup is refused, or
\* the restore is interrupted.
Import(backup) ==
    /\ Command
    /\ LET active == importServiceCandidates \cap Active
       IN  \/ /\ ManagerStop(active)
              /\ config' = TRUE /\ stacks' = backup
              /\ IF CanRepair(TRUE) THEN repairServiceMetadata(TRUE)
                                    ELSE UNCHANGED <<files, stained>>
              /\ UNCHANGED faults
           \/ /\ \E done \in SUBSET active : ManagerStop(done)
              /\ Fault /\ UNCHANGED <<config, stacks, files, stained>>
           \/ /\ ManagerStop(active)
              /\ RestoreInterrupted(backup)
              /\ Fault /\ UNCHANGED <<files, stained>>
    /\ UNCHANGED <<os, account, job, units, removed>>

(***************************************************************************)
(* uninstall: three phases.                                                *)
(***************************************************************************)

Phase(kind) == job' = [NoJob EXCEPT !.kind = kind]
KeepDisk == UNCHANGED <<os, account, files, stained, config, stacks, removed>>

\* Mutated uninstallServiceNames: of the stacks that are fully on.
uninstallWholeStacks == {n \in OnNodes : {n[1]} \X {"xray", "clash"} \subseteq OnNodes}

\* uninstallServiceNames
uninstallServiceNames == IF config THEN OnNodes ELSE {}

\* hasProxystackInstallMarker: a config or a binary in the base directory.
hasProxystackInstallMarker == config \/ {"xray", "mihomo"} \cap DOMAIN files # {}

\* runUninstall begins: guardUninstallBaseDir, and nothing is removed when a service cannot be
\* stopped.
UninstallStop ==
    /\ Command /\ hasProxystackInstallMarker
    /\ \E done \in SUBSET uninstallServiceNames :
         /\ \/ Fully(uninstallServiceNames, done) /\ Phase("units")
            \/ Partly(uninstallServiceNames, done) /\ UNCHANGED job
         /\ ManagerStop(done)
    /\ UNCHANGED units /\ KeepDisk

\* Then all service files of stacks.
UninstallFiles ==
    /\ job.kind = "units"
    /\ \E ok \in BOOLEAN :
         /\ UninstallUnits(Nodes, ok) /\ Ends(ok)
         /\ IF ok THEN Phase("entries") ELSE job' = NoJob
    /\ UNCHANGED <<enabled, commands>> /\ KeepDisk

\* Some of the files of a directory.
Restrictions(fn) == {[x \in kept |-> fn[x]] : kept \in SUBSET DOMAIN fn}

\* removeBaseDirInstallEntries, or all of the base directory; os.RemoveAll may fail half-way.
UninstallEntries(purge) ==
    /\ job.kind = "entries" /\ job' = NoJob
    /\ \E ok \in BOOLEAN :
         /\ Ends(ok)
         /\ files' \in IF ok THEN {<<>>} ELSE Restrictions(files)
         /\ IF purge
            THEN /\ config' \in IF ok THEN {FALSE} ELSE {config, FALSE}
                 /\ stacks' \in IF ok THEN {<<>>} ELSE Restrictions(stacks)
                 /\ removed' = removed \cup DOMAIN stacks
            ELSE KeepStacks
    /\ UNCHANGED <<os, account, stained, units, loaded, running, enabled, commands>>

KillUninstall ==
    /\ job.kind \in {"units", "entries"} /\ Fault /\ job' = NoJob
    /\ UNCHANGED <<units, loaded, running, enabled, commands>> /\ KeepDisk

(***************************************************************************)
(* The host.                                                               *)
(***************************************************************************)

\* A process dies and is not started again: launchd never does, systemd if it failed only
\* (Restart=on-failure).  The one that service start ran before any apply wrote its file dies so.
Exit(n) ==
    /\ n \in running /\ Fault
    /\ running' = running \ {n}
    /\ UNCHANGED <<units, loaded, enabled, commands>> /\ KeepFiles /\ KeepStacks

\* The host starts again: systemd starts what is enabled; launchd loads its plists but starts
\* none of them (RunAtLoad is false).
Reboot ==
    /\ job.kind = "none" /\ Fault
    /\ running' = IF Linux THEN {n \in enabled : Startable(n) /\ Runnable(n)} ELSE {}
    /\ loaded' = IF Linux THEN loaded ELSE units \cap enabled
    /\ UNCHANGED <<units, enabled, commands>> /\ KeepFiles /\ KeepStacks

(***************************************************************************)
(* The specification.                                                      *)
(***************************************************************************)

Init ==
    /\ os \in {"linux", "darwin"}
    /\ \E start \in Starts :
         /\ account = (start.setup /\ Linux)
         /\ config = start.setup
         /\ files = [f \in start.files |->
                       [data |-> "old", owner |-> IF Linux THEN "proxystack" ELSE "root"]]
         /\ stacks = start.stacks
         /\ units = IF ~start.setup THEN {} ELSE IF Linux THEN {"xray", "clash"} ELSE OnNodes
         /\ running = start.running
         /\ loaded = IF Linux THEN {} ELSE start.running
    /\ enabled = IF Linux THEN {} ELSE Nodes
    /\ job = NoJob /\ stained = FALSE /\ removed = {} /\ faults = 0 /\ commands = 0

Next ==
    \/ InstallStep /\ UNCHANGED hostVars
    \/ \E target \in {"mihomo", "xray", "geo", "all"}, force \in BOOLEAN, request \in Requests :
          InstallCommand(target, force, request)
    \/ \E deps \in BOOLEAN : SetupLocal(deps)
    \/ \E T \in Targets :
          \/ ServiceInstall(T) \/ ServiceUninstall(T)
          \/ \E action \in {"start", "restart", "stop", "enable", "disable"} :
                ServiceAction(action, T)
          \/ \E action \in {"start", "restart"}, root, full \in BOOLEAN :
                Lifecycle(action, T, root, full)
    \/ \E s \in StackNames :
          \/ RemoveStack(s)
          \/ \E shape \in Shapes :
                AddStack(s, shape) \/ \E root \in BOOLEAN : EditStack(s, shape, root)
    \/ \E start \in Starts : Import(start.stacks)
    \/ UninstallStop \/ UninstallFiles \/ KillUninstall
    \/ \E purge \in BOOLEAN : UninstallEntries(purge)
    \/ Reboot \/ \E n \in Nodes : Exit(n)

Spec == Init /\ [][Next]_vars

(***************************************************************************)
(* Properties.                                                             *)
(***************************************************************************)

\* Types; what the two service managers keep has different ones.
TypeOK ==
    /\ DOMAIN files \subseteq UNION {targetPaths(t) : t \in {"mihomo", "xray", "geo"}}
    /\ job.kind \in {"none", "install", "units", "entries"}
    /\ DOMAIN stacks \subseteq StackNames
    /\ enabled \cup running \subseteq Nodes
    /\ IF Linux THEN units \subseteq {"xray", "clash"} /\ loaded = {}
                ELSE units \cup loaded \subseteq Nodes

\* Under launchd what runs is loaded and what is loaded has its plist, so that psctl can always
\* address it: each plist is removed after its job is booted out, also by a service install or
\* uninstall, a setup or an uninstall that fails half-way (UninstallUnits,
\* removeStaleLaunchdPlists).
JobsAddressable == ~Linux => running \subseteq loaded /\ loaded \subseteq units

\* What start or restart by root says it has started runs, whatever installs have failed before:
\* the binaries are there and the service account may execute them (checkRequiredBinaries,
\* repairServiceMetadata).
StartedRuns ==
    [][\A action \in {"start", "restart"}, T \in Targets :
         Lifecycle(action, T, TRUE, TRUE) => Scope(T) \subseteq running']_vars

\* service uninstall of a target takes no template that a stack outside of it needs: what could
\* be started before can be started after (componentUsedOutsideTarget).
SharedTemplateKept ==
    [][\A T \in Targets : ServiceUninstall(T) =>
         \A n \in OnNodes \ T : Startable(n) => Startable(n)']_vars

\* When uninstall begins to delete the base directory no service of an enabled stack runs, also
\* when an earlier uninstall failed half-way; one that was switched off while it ran may.  Where an
\* import was killed and left stacks without a config, uninstall stops nothing, and what runs is
\* what systemd started at boot since (uninstallServiceNames).
UninstalledIsStopped ==
    job.kind \in {"units", "entries"} =>
        \A n \in running \cap OnNodes : ~config /\ Linux /\ n \in enabled

\* A service that runs although there is no such stack was left by remove or uninstall --purge, or
\* was enabled and started by systemd at boot, for import stops but does not disable: what import
\* replaces, or loses half-way, it has stopped, whatever was switched off before
\* (importServiceCandidates).
OrphansWereRemoved ==
    \A n \in running : n[1] \in DOMAIN stacks \cup removed \/ (Linux /\ n \in enabled)
=============================================================================
