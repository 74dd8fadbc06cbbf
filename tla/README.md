# proxystack: specifications, checks and proofs

proxystack is two Go programs. **psctl** (the agent) compiles a `config.yaml` and one document per
*stack* into Xray and Clash configurations, runs an instance of each under systemd or launchd, and
disables or enables single users in running instances. **pssub** (the subscription server) keeps a
directory of *inputs*, merges them into an index, and answers subscription requests from it.

This directory holds TLA+ models of both programs: what psctl makes of an operator's documents, how
its commands change them, what it does to files, state, services and running instances, and what
pssub's watcher does with a directory that changes under it. TLC checks the models on small
instances; TLAPS proves the theorems for all. Paths below are relative to `src/internal/`.

## 1. Inventory

| component | state it keeps | operations | what is hard | what makes it correct |
|---|---|---|---|---|
| User toggling: `cli/agent/user_commands.go`, `userstate/` | `runtime/disabled.json` | `user disable`, `enable`, clearing stale entries | two reads of the definitions, refusal after planning, save before write, live changes that may fail | a disabled user is served nowhere; a refusal changes nothing |
| Plan and apply: `runtime/` | generated files, `manifest.json` | `BuildPlan`, `ApplyPlan`, `UsersOnlyPlan` | files written one by one; plans that are stale when applied | files, manifest and state file agree between commands |
| Lifecycle: `cli/agent/lifecycle_commands.go` | none | `start`, `restart`, `stop`, `service ...` | start of an active unit does nothing; a deleted file leaves its service alone | an instance serves its file |
| Xray API client: `xrayapi/` | none | `adu`, `rmu` | time-out after the effect, "0 users" answers | file and instance change alike or the operator is warned |
| Generators: `generator/xray`, `generator/mihomo` | none | `RenderConfig` | two programs configured apart that connect to one another; inbounds that lose all their users | what connects is listened for and let in; no empty inbound |
| Service managers: `systemd/`, `service/` | unit templates, plists, loaded jobs, processes | install, uninstall, start, stop, restart, enable, disable | several units, a failure ends the call half-way; templates shared by stacks | nothing runs that psctl cannot name or stop; no stack takes the files of another |
| Reference graph: `graph/` | none | closure, cycle search, topological order, target scopes | shapes of graphs nobody tests | a cycle is refused; services start after what they need |
| Subscription server: `subserver/` | index, last error, snapshot, timer | load, reload, watch, serve | events, polling, debounce and reload overlap with changes | it ends up serving the directory, and always serves something valid |
| Inputs: `generator/sub/input.go` | `inputs/` | list, read, merge | several files, read one by one | a mixture of old and new does not stay |
| Bundles: `generator/sub/bundle.go`, `input.go` | `inputs/`, staging and backup directories | export, validate, stage, merge, swap | validation here, merge there; crash or failure between two renames | what is accepted can be exported and merged; old or new, never neither |
| pssub input commands: `cli/sub/` | `inputs/` | edit, clone, set-host, remove | several files, one at a time | as above |
| Native backup: `generator/backup/` | `config.yaml`, `stacks/` | export, import | four renames, rollback, crash | all of the backup or nothing |
| Draft editing: `cli/draftedit` | `.draft` files | edit, validate, commit | other commands while the editor is open | no draft is lost; what is committed loads |
| Stack documents: `agentconfig/`, `cli/agent/config_commands.go` | stack files, `.removed` archives | add, clone, members, remove | references and names inside a document, ports | a copy stands alone; no port twice |
| Install, update, setup, uninstall: `install/`, `cli/agent/` | `bin/`, `geo/`, owners, account | install, update, setup, uninstall | several files and targets, failure between them | replaced together or not at all; the service account can execute them; nothing is deleted under a running service |
| Domain models, validation, loading: `domain/`, `config/` | none | `Validate`, `LoadStacks` | checks in one place, use in another | what loads renders and exports |
| Subscription rendering: `generator/sub/render.go` | none | proxies and groups | three readers of the same fields | a client gets what the agent lets in |
| Diagnostics, command frame | none | output | none | not modelled |

How they interact. An operator edits definitions; `psctl restart` plans and applies them and restarts
the units; `psctl user disable` regenerates the files of the stacks concerned under the *new* state,
refuses unless the files differ by exactly the toggled clients, saves the state, applies the plans
and changes the running instances through their API. systemd restarts an instance that fails, which
then loads the file. On the other side, pssub's HTTP handlers read the index under a lock; one
goroutine watches the inputs by fsnotify and polling, debounces, and replaces the index; other
processes write the inputs.

The documents are written by psctl's own commands (`add`, `clone`, `config`, `import`) or by hand; every
command loads all of them and refuses if they do not fit together. What loads is rendered for Xray and
mihomo, whose configs name one another's ports and accounts, and exported as a bundle that a pssub
merges into its inputs. `setup`, `install` and `service install` bring the binaries and unit files
that the services need; `uninstall` takes them away.

`PROJECT.json` lists under `hazards` what can go wrong at which line, and which property is for it.

## 2. Plan

1. `AgentRuntime`: toggles, lifecycle, files, state, manifest, instances, edits, crashes. **Done.**
2. `InputWatcher`: pssub's watcher and the commands that change its directory. **Done.**
3. Theorems about both. **Done**, but for liveness.
4. The documents: `StackModels`, `ReferenceGraph`, `StackValidation`, `Generators`, `Subscriptions`,
   composed in `StackPipeline`. **Done.**
5. `ConfigStore` over `StackDocument`: the base directory under its commands, with `AtomicStore` as the
   abstract specification it refines. **Done**, and the refinement proved.
6. `Install` and `Host`: binaries and services under both service managers. **Done.**
7. Theorems about `Install` and `Host`. **Done.**
8. Theorems about the documents: `DocumentFacts` (lists, resolution, loading), `GraphFacts` (cycle search,
   closure, order), `PipelineProofs`, and the document properties of `ConfigStore`. **Done.**
9. Left: an abstract specification of the agent (each stack applied or pending; each user on or
   off), with `AgentRuntime` between commands as its refinement; display templates and regions of
   subscriptions; Clash groups and rules.

How the modules depend on one another:

    StackModels <- ReferenceGraph <- StackValidation <- Generators, Subscriptions <- StackPipeline
                                     StackValidation <- StackDocument <- ConfigStore -> AtomicStore
    Install <- Host                  AgentRuntime                       InputWatcher

    StackValidation <- DocumentFacts <- GraphFacts;   GraphFacts, StackPipeline <- PipelineProofs
                                                      DocumentFacts, ConfigStore <- ConfigStoreProofs
    AgentRuntime <- AgentRuntimeProofs <- AgentDriftProofs
    InputWatcher <- InputWatcherProofs  Host <- HostProofs

## 3. AgentRuntime

| variable | in the code |
|---|---|
| `defs` | `config.yaml` and `stacks/*.yaml`, user references resolved; `None`: Xray of the stack is off |
| `disabled` | `runtime/disabled.json` |
| `files`, `manifest` | `runtime/generated/xray/NAME.json`; each file's entry in `runtime/manifest.json` |
| `live` | the clients and settings the running instance has in memory |
| `pc`, `op`, `user`, `scope`, `todo`, `next`, `gen`, `drop`, `ledger`, `sites` | the local variables of the one command that runs |
| `raced`, `excused`, `upsets` | history: not in the code |

A configuration is a skeleton (everything but clients) and the credential of every (inbound, user).
The hash the manifest holds stands for the content it hashes, so the model has the content there.

One action per step that other processes can see between: reading (`BeginToggle`), planning a stack
(`PlanToggle`), `SaveState`, each file (`ToggleWrite`, `LifecycleWrite`), the manifest
(`ToggleRecord`, `LifecycleRecord`), each API call (`LiveApply`, `LiveFail`), each unit (`Act`).
`BeginLifecycle` is all of `runLifecycle` before `ApplyPlan` and `BeginService` the start of a
`psctl service` command. Around them `Edit`, `Exit`, `Reload` and `Interrupt` happen at any time.

The code visits stacks and inbounds in sorted order, which `First` and `Before` keep; units given
to one `systemctl` call may be acted on in any order.

`excused[s]` says what the operator was told or did since the instance of s last loaded its file: a
warned API call, an interrupted command, a `start` or deletion that leaves the process alone, an edit
between the two reads of one toggle. Every property of agreement is stated *without* these excuses; a
restart that plans clears them all, a mere reload only those that are not on disk.

Properties:

- `NoUnannouncedDrift`: a running instance serves its file (up to credentials). Toggles must not
  write somebody else's pending edit, and must undo nothing.
- `DisabledMeansOff`: a disabled user is served by no running inbound.
- `FilesHonourDisabled`: the files agree with `disabled.json` between commands.
- `ManifestRecordsLastApply`: the manifest is the last applied result (one stack; see finding 2).
- `NoInboundEmptied`: no running inbound loses its last user.

## 4. InputWatcher

| variable | in the code |
|---|---|
| `inputs`, `backup` | the inputs directory; what `swapDirectory` has moved aside |
| `watching`, `event` | fsnotify watches the directory now there; an event is queued |
| `pc`, `booted` | where `Server.Start` and `Watcher.run` are; `State.Load` is over |
| `names`, `got` | the progress of a load: still to read, read |
| `snapshot`, `timer` | `lastSnapshot`, `debounceTimer` |
| `index`, `lastError` | `State` |
| `version`, `starts`, `missed` | history and bounds |

A write gives the file a fresh version: content and modification time at once. `Bad` versions do not
parse, the sets in `Clashes` do not merge. The server's steps are `List`, `Read` (per file), `Merge`,
`Attach`, `Rescan`, `TakeEvent`, `Tick` and `Fire`; the commands' are `Write`, `Remove`, and for
import `MoveAside`, `MoveIn`, `MoveBack` and `Abandon`. What fsnotify reports of a directory that was
renamed or deleted is left open (either way is allowed).

Properties:

- `QuietIsFresh`: at rest, the index is the directory (or `/health` says why not), unless a change
  fell into the blind window between the read and the snapshot with nothing watched.
- `AlwaysServes`: a server that is up has an index that merged.
- `ComesToRest`: once the commands stop, a running server ends up at rest and fresh.

**Fairness.** Weak fairness of `Server`, the watcher goroutine: the Go scheduler runs it, its ticker
and timer fire, and its channels are served in a select. Nothing is assumed of commands, restarts or
exits. `Server` is one disjunction: which of several ready channels select takes is left open, so
liveness does not depend on its choice. `CHECK_DEADLOCK FALSE`: commands and starts are
bounded and a stopped server has nothing to do.

## 5. StackPipeline

Documents are records with the field names of the YAML; a ref is the sequence of its segments, a listen
address a host and a port. The code collects issues; a check is here the statement that it collects
none, and a generator is a predicate (it refuses nothing) and the config it renders then.

| module | in the code |
|---|---|
| `StackModels` | `domain/models.go`, `domain/user_refs.go`: the checks of one document, user references |
| `ReferenceGraph` | `graph/`: refs, dependencies, `FindCycle`, closure, `TopologicalOrder`, plans, scopes |
| `StackValidation` | `domain/validation`, `config/loader.go`: the checks across stacks |
| `Generators` | `generator/xray`, `generator/mihomo`: listeners, accounts, clients, outbounds, proxies |
| `Subscriptions` | `generator/sub`: nodes, bundles, `MergeInputs`, proxies and Surge groups |

`StackPipeline` composes them: `Load` reads a directory or refuses; a command then does one thing with
what it loaded (`Render`, `Plan`, `Scope`, `Publish`) and forgets it; the operator's `Edit` changes
files in between, and the `inputs` of the server do not follow. The recursive searches of
`dependencies.go` are recursive functions: the argument is a call and what is left of the loop around it
(`todo`), with the sets and slices the Go code passes on. Properties compare them with `Needs`, which is
said without any search: a service needs what is in every set that holds its dependencies and that no
dependency leads out of (`ClosedSets`).

`StackShape` and its parts say what the decoder of `config/loader.go` hands over whatever is in the
file: a record with all fields of the Go struct, lists where the struct has slices. They are what the
proofs know of a document that nobody validated.

- `CycleFoundIffCyclic`, `PlanIsClosedAndOrdered`, `ScopeOfAllOrdered`: the graph algorithms.
- `RenderedLinksConnect`: an outbound finds a listener of the other program's config that it reaches and
  that accepts its account; not so a proxy whose inbound has an empty address.
  `RenderedPortsFree`: no two rendered sockets share a port.
- `RenderedUnlessKnown`: what validation accepts is rendered, with four exceptions it names: no socks
  listener, half an account, a listener whose address is written empty, no user left.
  `Hosts` has the empty address: a key left out gets a default, one that is written empty stays so, and no
  check looks at it.
- `ExportedNodesAccepted`: a client's proxy is let in by the inbound it was exported from.
- `AcceptedIsExportable`, `InputsStayMergeable`: names clash for the merge only if they did for validation.
- `SurgeGroupsDefined`: a group names rendered proxies only.

## 6. ConfigStore

| variable | in the code |
|---|---|
| `config`, `configDraft` | `config.yaml`, `config.yaml.draft` |
| `stacks` | the stacks directory: files, `.draft` and `.removed` |
| `editor` | the command that waits for `RunEditor` |
| `backup` | what the last `export` wrote |
| `restore` | how far `restoreBackupFiles` has come and what it moved aside |

A command that writes one file does it by a temporary file and a rename: one step. What it makes of a
document is `StackDocument` (`agentconfig/`): templates, `rewriteSelfRefsInNode`, remarks, ports,
members. `OpenEditor` and `CloseEditor` are the two halves of `EditAndCommit`; other commands may
run between them. An import is `ImportBegin` (it stops services, stages and validates), then one
action per rename: `MoveConfigAside`, `InstallConfig`, `MoveStacksAside`, `InstallStacks`, each of
which may fail, and so may each rename of the rollback; `Crash` ends it anywhere.

- `StoreIsAtomic`: refinement of `AtomicStore`, where a command writes one file, a restore is one step,
  and only a crash or a second failure can tear it. The mapping shows the directory as it was until
  the import is over.
- `RestoreAllOrNothing`: the promise of the code's comment, without that exception (finding 6).
- `DraftsAreKept`, `CommittedMeansLoads`: what an operator saved is not lost, and what is committed loads
  with whatever the other files have become (`remove` and `setup` do not check, and are exempt).
- `AllocatedPortsFree`, `CloneStandsAlone`, `RemoveUndoesAdd`: about the documents of every reachable
  directory and every command that could follow. `AllocatePorts` is five takes, one per range, each
  of which sees the ports of those before. `RemoveUndoesAdd` has an exception that the proof
  brought to light: `member add b` accepts a document with a group named `b-local`, and `member
  remove b` then takes that group out of the others (`stack_document.go:317-345`, `:418`).

## 7. Install and Host

| variable | in the code |
|---|---|
| `os`, `account`, `files` | the platform; the service account; `bin/` and `geo/` with content and owner |
| `job` | the multi-step command that runs: the targets left, the files to write, what a rollback needs |
| `config`, `stacks` | there is a config; the switches of each stack |
| `units`, `loaded` | systemd: templates there; launchd: plists there, jobs bootstrapped |
| `running`, `enabled` | processes; what starts at boot |
| `stained`, `removed`, `faults`, `commands` | history and bounds |

`Install` goes target by target: `FetchTarget` resolves a source (URL, path, release, digest, archive
members) or `FetchFails`; `WriteFile` writes one file; `WriteFails` rolls back; `EndInstall` repairs the
owners. A tag of a release that is there may not answer and is passed over (`lost`). `Host` adds the
commands around services. A start, stop, restart, enable or disable acts on all its services (`Fully`) or
fails after some (`Partly`). `InstallUnits` and `UninstallUnits` go file by file and may end at any: some
templates are written or removed and others not; of the plists some are gone with their jobs, and of one
the job is booted out and the plist still there (`RemovePlists`, `CutShort`). A restore that is
interrupted leaves any mixture of old, new and nothing that `ConfigStore` reaches
(`RestoreInterrupted`), and a deletion of the base directory any part of it. What systemctl and launchctl
accept and do (`Startable`, `Enableable`, `Reboot`, `Exit`) is external, taken from how the code calls them.
Which files a service needs and which config it runs is `AgentRuntime`'s business.

- `ReplacedTogether`, `InstallCompletes`: a target is replaced as a whole or not at all, and a
  successful install has everything the source has.
- `BinariesOwned`, `StartedRuns`: an install that fails half-way leaves binaries the service account
  cannot execute; a start or restart by root repairs them.
- `SharedTemplateKept`, `UninstalledIsStopped`, `OrphansWereRemoved`: what uninstall and import take away
  is needed and run by nobody. `UninstalledIsStopped` has one exception: stacks that a killed import
  left without a config, started by systemd at boot since.
- `JobsAddressable`: under launchd what runs is loaded and what is loaded has its plist, whichever loop over
  jobs and plists ended where.

## 8. Runs

| run | instance | states | shows |
|---|---|---|---|
| `agent_one` | 1 stack, 2 inbounds, 2 users, 4 upsets | 534,581 | the five properties of section 3 |
| `agent_pair` | 2 stacks, 1 inbound each, 2 users, 1 upset | 737,389 | the same, but the manifest's and `NoInboundEmptied`, with commands over several stacks |
| `agent_credential` | 1 stack, an edit of a credential | violation | finding 1 |
| `agent_manifest` | 2 stacks | violation | finding 2 |
| `agent_create` | 1 stack, Xray switched off | violation | finding 3 |
| `sub_watch` | 2 files, 4 versions, 2 starts, one bad version, one clash | 508,252 | the properties of section 4 |
| `sub_lost_update` | the same | violation | finding 4 |
| `stack_pipeline` | 324 graphs of 3 stacks, 133 pairs of documents with 3 inputs and 2 states of users, 1 edit | 39,928 | the properties of section 5 |
| `scope_order` | the same | violation | finding 5 |
| `config_store` | 3 names, 3 directories, 3 commands, 2 failing renames, 1 crash | 18,498 | the properties of section 6 |
| `restore_crash` | the same, no failing rename | violation | finding 6 |
| `host` | 2 stacks, 3 hosts, 5 requests, both platforms, 3 commands, 1 fault | 914,101 | the properties of section 7 |

Why the bounds are enough. *Agent*: stacks interact only through a command's scope, `disabled.json`
and the manifest, so two show every interaction; inbounds of a stack interact only through the
order of the live changes, so two show an early end. With two users one is toggled and one is the
other, whose edit may be pending. Definitions vary in the skeleton, in a user and in
being off. `MaxUpsets` bounds edits, exits, reloads, failures and interruptions together: four
allow an edit during a toggle that is interrupted, with an exit and a reload after it; commands are not
bounded. *Server*: two files show a torn read and a clash; `MaxVersion` 4 allows three changes, enough
for an import (two renames) and an edit in or after it; two starts show a restart.

*Pipeline*: six services are the smallest number with a dependency that leaves a stack and comes back
to it through a third service, and with cycles of every length up to six; each stack links out or
not, to others or itself. The documents pair every protocol, kind of user, API and listener with
links to it; a command forgets what it did, so long runs add nothing but the imports of several
bundles, which the edit and the starting inputs cover. `PortLimit` is 40 in place of 65535: only its
boundary matters. *Store*: an edit is one command and its end, so three commands fit `export`, `edit`
and an `import` under the open editor; two failures are one and the failure of its rollback. *Host*: two
stacks, because targets and shared templates need another one, one of them off at first; three commands show
install, start and what takes it away; a fault is an exit, a reboot, a kill, a lost answer, or a call, loop or
restore that ends half-way. One fault does not reach the exception of `UninstalledIsStopped`, which takes a
kill and a reboot: up to there the run shows the property without it, and the theorem has it for any number.
`CHECK_DEADLOCK FALSE` in all runs from `stack_pipeline` on: edits, commands and faults are bounded.

## 9. Proofs

`InputWatcherProofs`, for any files, bad versions, clashes and bounds:

- `TypeCorrect`: `Spec => []TypeOK`.
- `RestMeansFresh`: `Spec => []QuietIsFresh`.
- `AnswersAlways`: `Spec => []AlwaysServes`.

`QuietIsFresh` is not inductive: that the index equals the directory at rest depends on what was seen
on the way there. The invariant `Watched` says so for each place of the loop, always under
`Undisturbed` (no event waits, no change escaped): while reading, what was read is still there; at
`attach` and `rescan` the outcome of the load is the one the directory calls for; at rest without a timer
it is the one *the snapshot* calls for; and the timer runs only in the loop. `Serving` adds that the
index of a booted server merged. A step that changes the directory sets `event` or `missed` while
the server reads, and makes the snapshot differ while it rests, which is the lemma `ChangeStep`.

`AgentRuntimeProofs`, for any stacks, tags, users, credentials, definitions and bounds:

- `TypeCorrect`: `Spec => []TypeOK`, by one step per action; lemmas say what `Render`,
  `ManifestAfter`, `Applied` and the history operators return.

- `FilesAgree`: `Spec => []FilesHonourDisabled`. By itself the property says nothing of what the running toggle has in memory, so the invariant `Honest` adds it:
what is planned serves no user of the state *to be saved* (`PlansHonour`); what was written is what
was planned (`WrittenAsPlanned`); the toggle changes the state of its own stacks only and has saved
it before it writes (`StateSaved`); a stack without an edit in between gets a file (`Planned`); and an
edit in between is remembered when the command is over (`Remembered`).

`OneManifestRecords`: with one stack (`OneStack`, finding 2 says why) `Spec =>
[]ManifestRecordsLastApply`. The invariant `Recorded` adds what the running command remembers: while it
plans and writes, its copy of the manifest (`ledger`) has exactly what is planned, and a stack without a
plan has no entry unless its file is to be deleted; so what it records is what it wrote, unless it was
interrupted in between. TLC checked it in `agent_one`.

`AgentDriftProofs` builds on it: `DriftIsAnnounced` (`[]NoUnannouncedDrift`), `DisabledStaysOff`
(`[]DisabledMeansOff`) and `InboundsKeepUsers` (`[]NoInboundEmptied`). Its invariant is `Steady`. The
property is about the moments when no command is at work on a stack; in between, `InLine` says
exactly how far the instance is behind: by nothing before the file is written, by the clients
of the sites still in the list after it (`Behind`). That a write gets there is what the guard is
for: `PlansChecked` keeps the comparison `UsersOnlyPlan` made, the file being the same since. That a
file which already equals the plan gets there too needs `PlansToggle`: the toggled clients are
in the plan already, because the definition had the user when it was read (`Seen`) and the state to be
saved decides (`Aim`). Each API call then takes one client off both sides. An instance that systemd
restarts in the middle loads the new file and is behind by clients it already has or lacks, for
the same reason. `NoInboundEmptied` needs `InLine` as well: a live removal keeps every inbound above
the file, and no file has an empty inbound (`Full`). `DisabledStaysOff` follows from both invariants.

TLC checked both invariants on the instances of `agent_one` and `agent_pair` before they were proved.

`ConfigStoreProofs`, for any names, documents, templates, starting directories and bounds:

- `StoreRefinement`: `Spec => StoreIsAtomic`, the base directory refines `AtomicStore`.
- `DraftsNotLost`: `Spec => DraftsAreKept`; `CommitsLoad`: `Spec => CommittedMeansLoads`.
- `StoreTypes`, `AllocatedFree`, `ClonesStandAlone`, `AddCanBeUndone`: `Spec => []TypeOK`,
  `[]AllocatedPortsFree`, `[]CloneStandsAlone`, `[]RemoveUndoesAdd`.

The refinement needs the invariant `IInv` (theorem `Invariance`), whose part `Moved` says for each phase
of an import what has been moved and where it is now: until the stacks are moved they are those
`restore` holds, the config installed is that of the only backup. With it a rollback that fails nowhere
is seen to put back what the mapping shows, hence a stutter of content (`RestoreFails`); one that fails, or
a crash, is `Tear`; the last rename is `Restore`. Every other command writes one file: the lemma
`StepKinds` reduces Next to five kinds of step before either theorem looks at it, so that nothing about
documents has to be proved for these two.

The others rest on a second invariant, `Documents`: whatever lies in a file, a draft or an archive, or is
held by an editor, a backup or an import, has the shape of a document, and a stack file is written under its
own name. `CommitsLoad` has to bridge a gap in the code: a command checks its candidate *in the place*
of the old document, or at the end of the set, and the next command reads all files in the order of
their names. `Alike` says that two sets hold the same stacks in some order, and `AlikeValid` that no check
across stacks (graph, ports, proxy names) can tell them apart. `AllocatedFree` follows the ports through
the five takes: `Drawn` is what one `Allocate` gives (in its range, distinct, unused), `TakenSoFar` what
all takes until now gave, and `Bound` that a list of listeners uses exactly such ports.
`ClonesStandAlone` compares every ref of the clone with that of its source, through rename, rewrite and
remarks. `AddCanBeUndone` first shows that in a valid document no group can name the upstream of a member
that is not there (`NameIsNew`): proxies of groups are known targets. Then appending, or inserting before
`DIRECT`, and dropping give back each list (`AppendedAway`, `InsertedAway`, `LastDropped`).

`PipelineProofs`, for any configs, files, inputs and bounds:

- `PipelineTypes`: `Spec => []TypeOK`.
- `LoadedSetsRender`, `RenderedConfigsConnect`, `RenderedConfigsListen`: `[]RenderedUnlessKnown`,
  `[]RenderedLinksConnect`, `[]RenderedPortsFree`.
- `ExportedNodesConnect`, `LoadedSetsExport`, `ImportsMerge`, `SurgeGroupsHold`:
  `[]ExportedNodesAccepted`, `[]AcceptedIsExportable`, `[]InputsStayMergeable`, `[]SurgeGroupsDefined`.

- `CyclesFound`, `PlansOrdered`, `ScopesOrdered`: `[]CycleFoundIffCyclic`, `[]PlanIsClosedAndOrdered`,
  `[]ScopeOfAllOrdered`.

Its invariant is short. `Disk`: the files have the shape of documents; `Held`: what a command holds is what
the files give, as long as it holds it; `Planned`: a plan or a scope was computed from the graph of that
set; `Served`: the inputs can be merged. The work is in the operators: from a document that was validated, through user references, to one line of a config. A link is
an outbound of one rendered config; the ref was resolved by validation, hence names a listener that
exists and is on; the generator of the other program renders that listener from the same fields, and the
account it lets in is the one the outbound carries. Ports are free because the list that
validation found without duplicates has a place for every socket the generators open
(`BindingTable`, `PortsDistinct`).

`GraphFacts` is about the three algorithms, for every graph of services. Each is a recursive function that
goes in depth (the dependencies of a node) and in breadth (the rest of a list) at once, so nothing
in it counts down by one. But each has a measure that falls at every call (`Weight`): first some nodes, those not on
the path, those not collected, or those to append with all they need; then the length of the list. `FixedPoint` proves once, in
first order, that a definition whose calls only go to smaller measures has the value it says at every point
(`Descends`, `HasFixedPoint`), and `MeasureInduction` that what holds at a point when it holds below
holds everywhere (`Inherited`); both speak of a set of points, so no operator is a parameter. From
them:

- `VisitFinds`: a search that finds nothing leaves `done` closed and holding all it was asked to visit, no
  node of it needing itself; one that finds something gives a closed walk. The path is a chain of
  dependencies, hence a node that is met again on it needs itself (`ClosedWalkNeeds`), and `FindCycleFacts`
  is both directions of `CyclesFound`. That the walk reaches every cycle is where marking a node `done`
  before its dependencies would break the proof.
- `CollectFacts`: the closure is the targets and their `Needs`, no more (it stays within every closed set that
  holds the targets) and no less (when nothing is pending it is closed itself).
- `AppendSorts`, `TopologicalOrderFacts`: in an acyclic graph, over a closed selection, each node comes once
  and after all it needs. What is to append with all it needs shrinks along a dependency
  just because there is no cycle. With a selection that is not closed it is false: finding 5.

`PipelineProofs` adds that a set that loads has a graph without cycles, whose dependencies are services that are
on (`HeldGraph`): a disabled stack is in no index, so no ref resolves to it.

`DocumentFacts` holds what both need. The lists of the model are built by `Column`, `Keep` and
`FlattenSeq`; the last is a recursive function, and the library's induction theorems cannot be used here
(they take an operator). Facts about it that hold for every table are proved by the least number for
which they would fail (`LeastNumber`, `InductionOnSet`): what stands where in the flattened table
(`FlattenPlaces`), its elements (`FlattenElements`), that distinct rows stay distinct
(`FlattenDistinct`), one more row (`FlattenAppend`), and all elements but one (`KeepOthers`). Then:
what names a directory has and in which order (`NamesOfFacts`), what loading reads (`ReadFacts`,
`LoadedFacts`), and that resolving users keeps names, ports and validity (`ResolveStackFacts`,
`LoadedStackFacts`).

`HostProofs`, for any stacks, hosts to start from, releases, requests and bounds:

- `TypeCorrect`, `JobsStayAddressable`, `UninstallSafe`, `NoOrphans`, `BinariesStayOwned`: `Spec =>
  []TypeOK`, `[]JobsAddressable`, `[]UninstalledIsStopped`, `[]OrphansWereRemoved`, `[]BinariesOwned`.
- `ReplacedAsOne`, `InstallsComplete`, `StartedMeansRuns`, `TemplatesKept`: the action properties
  `ReplacedTogether`, `InstallCompletes`, `StartedRuns` and `SharedTemplateKept`.

Three parts of the invariant `IInv` are more than what the properties say. `Undoable`: while a target is
written, what is saved and what was created give, together, the files as the target found them, and what is
still to be written is neither; so a rollback restores them, though the file at which it failed was
only just saved. `Services`: what each service manager knows, under both managers at once. Wherever a loop
over plists is cut short, those gone are among those whose jobs are (`RemovePlistsKeeps`), which is what
`JobsAddressable` rests on; with the two calls in the other order it is false. `Configless` says what runs
of a stack that is on when there is no config: only what systemd started at boot. An import that loses the
config has stopped what was active first (`ImportStops`, `RestoreConfigless`), no command starts anything
without a config, and launchd starts nothing at boot; so uninstall, which then stops nothing, leaves
nothing else running. `OrphansWereRemoved` needs that a command
on historical services touches stacks that are there (`ServiceNodesHaveStacks`); that holds because a
target of all stacks is never one of a single component (`NodesAreNotOne`), for which the model needs a
finite number of names other than one. `InstallsComplete` has an invariant of its own, `Finished`: while an
install runs, each target asked for is still to come or complete, and of the one being written each
file is there, pending, or one that some archive the target can be taken from does not have. `StartedRuns` rests on
`FilesShape` alone: the repair gives every
file to the account before the first service is started.

The proofs assume the named assumptions of the modules, which TLC evaluates in the runs: stacks, tags
and files are numbers (the code sorts them; in the documents, names are distinct strings in a given order,
none of them empty: `domain/models.go:36`), `None`, `Gone` and `NoCred` are no values, every definition gives
every inbound a user (validation), bounds are numbers, and a host starts with nothing running but what is
installed and on. Of the documents: whatever a directory holds at the start, an editor leaves or a
template gives was decoded (`StartsAssumption`, `ContentsAssumption`, `WritesAssumption`,
`ConfigsAssumption`), a stack file that is there at the start carries its own name (`LoadStack` refuses
others), a config has all five port ranges (fields of a struct), every built-in template switches its API on
(`TemplatesAssumption`, `snippets/xray/api/default.yaml.tmpl`), a list of members is a list, a source that is not a managed one is a single URL or path (`SourcesAssumption`,
`install/install.go:481`), no name
ending in `-local` is `DIRECT` or `REJECT`, and the target `config.yaml` of an editor is no stack name.

Only model-checked: `ComesToRest` of `InputWatcher`, liveness under fairness, which is out of the prover's
reach, and the runs that show a violation. Every other property of a run is a theorem.

## 10. Findings

1. **A toggle writes another user's pending credential** (`agent_credential`). `usersOnlyChange` compares
   tag and email, so the guard of `docs/cli-spec.md:272` does not see a changed uuid or password.
   The instance keeps the old one until its next restart, and nothing reports a difference.
2. **A toggle over several stacks loses manifest entries** (`agent_manifest`). All plans are built before
   any is applied, each with a manifest made from the same old one.
3. **No file does not mean nothing runs** (`agent_create`). `restart` after Xray was switched off deletes
   the file and leaves the instance running, against the comment at `runtime/usersdiff.go:53`.
4. **A change may be missed for good** (`sub_lost_update`). The snapshot is taken after the load; without
   a working fsnotify watch, as after an import, a change between the two is never reloaded.

5. **A scope is not always dependency-first** (`scope_order`). `TopologicalOrder` walks only through
   selected nodes, so with a target it does not see a dependency that leaves the stack and comes
   back: `start b` starts b's mihomo before b's Xray, which it needs through another stack.
6. **A restore is not atomic under a crash** (`restore_crash`). `restoreBackupFiles` replaces config and
   stacks by four renames; a kill between them leaves no config, or the new config with the old
   stacks or none, and no command looks for what was moved aside.

No run of its own has what the properties name as exceptions because the code does it. Without
them TLC finds each (the last with `MaxFaults = 2`: the kill and a reboot):

- *A set that loads may not be applied.* `docs/schema-spec.md:310` requires a listener's address; no check
  looks at it (`models.go:1042`), and an Xray outbound that points at a listener with an empty one is refused
  by the generator (`xray/config.go:521`). `RenderedUnlessKnown` has it as one of its four cases.
- *A proxy without a server.* `docs/generator-spec.md:230` gives every `xray-socks5` proxy the loopback
  address; `renderXraySocks5Proxy` (`mihomo/config.go:254`) gives it what the inbound's `listen` says, also if
  that is empty. `RenderedLinksConnect` exempts such a proxy.
- *uninstall may delete under a running service.* Without a config it stops nothing
  (`uninstall_commands.go:135`), and a killed import leaves stacks without one (finding 6). systemd starts
  their units at boot; uninstall then removes the units and the base directory under them.
  `UninstalledIsStopped` exempts exactly these services, and the proof needs the exemption.

## 11. Not modelled, and why

- Concurrent psctl commands, but for a command that waits for its editor: documented as unsupported,
  and there is no lock to model.
- Open connections of a removed client: inside Xray.
- Loss of `disabled.json`: the code reads it as empty, as on first use.
- Coarse modification times: every write has its own version.
- A bundle import that meets an edit between its copy and its swap: `StackPipeline` imports in one step,
  `InputWatcher` in several but without content.
- Clash files in the plan of a toggle: written by the same `ApplyPlan`, but no toggle reaches them.
- YAML itself (comments, key order, defaults of the parser), transport settings, Xray routing rules, Clash
  groups and rules, display templates, regions: data that nothing else modelled here depends on.
- Downloads, archive formats and HTTP of install, the self update, and the archive of a backup: I/O. Their
  failure is an action wherever it can come.
- The repair of owners file by file: `repairServiceMetadata` is one step, which may fail as a whole.
- A `paths.stacks` of its own, and the other entries of `paths`: `ConfigStore` and `Host` have the default
  directory. The code is not of one mind about another: `export` reads the directory config.yaml names
  (`backup_commands.go:40`), restore writes `stacks` and validates what the config's path leads to in a
  temporary directory (`backup/config.go:224-244`, `:401`), and a plain uninstall keeps the entry called
  `stacks` and deletes the others (`uninstall_commands.go:234`), the stacks among them if they are there.
- The text of unit files and plists and the digests that check them.
- Diagnostics, ipinfo, flags, examples and output: they read and print.

## 12. Running

    tlc -config AgentOne.cfg MCAgentRuntime      # and AgentPair, AgentCredential, ...
    tlc -config InputWatcher.cfg InputWatcher    # and InputWatcherLost
    tlc -config StackPipeline.cfg MCStackPipeline   # and ScopeOrder
    tlc -config ConfigStore.cfg MCConfigStore    # and RestoreCrash
    tlc -config Host.cfg MCHost
    tlapm AgentRuntimeProofs.tla                 # then AgentDriftProofs
    tlapm InputWatcherProofs.tla
    tlapm DocumentFacts.tla                      # then GraphFacts, PipelineProofs, ConfigStoreProofs
    tlapm HostProofs.tla
