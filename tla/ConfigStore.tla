----------------------------- MODULE ConfigStore -----------------------------
(***************************************************************************)
(* The base directory under the commands that change it: setup local, add, *)
(* clone, member add and remove, remove, config with an editor, export and *)
(* import.                                                                 *)
(*                                                                         *)
(* A command loads config.yaml and the stacks, decides, and writes one     *)
(* file with a temporary file and a rename, which is one step here.  Two   *)
(* kinds of commands take longer: one that waits for an editor, during     *)
(* which the operator runs others in another terminal, and an import,      *)
(* which moves files by renames that can fail or be cut off by a crash.    *)
(* No other command runs during an import.                                 *)
(*                                                                         *)
(* No config sets paths.stacks: the stacks lie in stacks/, where restore   *)
(* writes them whatever the config says, and where export reads them then. *)
(***************************************************************************)
EXTENDS StackDocument

CONSTANTS
    Starts,         \* pairs of a config.yaml (<<>> or <<config>>) and the stack files
    Writes,         \* function from a name to the documents an operator may save under it
    ConfigWrites,   \* the contents of config.yaml an operator may save
    DefaultConfig,  \* what setup writes
    MemberLists,    \* what may follow --members
    MaxSteps,       \* bound on commands
    MaxFaults,      \* bound on renames that fail
    MaxCrashes      \* bound on crashes during an import

\* A start is a directory that these commands left.
ASSUME StartsAssumption ==
    \A start \in Starts :
        /\ IsList(start.config) /\ Len(start.config) <= 1
        /\ \A c \in ToSet(start.config) : ConfigShape(c)
        /\ FilesShape(start.files) /\ \A n \in DOMAIN start.files : start.files[n].name = n
ASSUME WritesAssumption == \A n \in ToSet(StackOrder) : \A doc \in Writes[n] : StackShape(doc)
ASSUME ConfigsAssumption == \A c \in ConfigWrites \cup {DefaultConfig} : ConfigShape(c)
ASSUME MemberListsAssumption == \A members \in MemberLists : IsList(members)
ASSUME BoundsAssumption == MaxSteps \in Nat /\ MaxFaults \in Nat /\ MaxCrashes \in Nat

VARIABLES
    config,       \* config.yaml: <<content>>, or <<>> if there is none
    configDraft,  \* config.yaml.draft, in the same form
    stacks,       \* the stacks directory: files, drafts (.draft) and archives (.removed)
    editor,       \* the command that waits for its editor: {[target, new]} or {}
    backup,       \* what the last export wrote: {[config, files]} or {}
    restore,      \* how far an import has come, and what it moved aside
    steps, faults, crashes

counters == <<steps, faults, crashes>>
vars == <<config, configDraft, stacks, editor, backup, restore, counters>>

StackNames == ToSet(StackOrder)
\* The target that is no stack: a path, and the name of a stack is an identifier.
ConfigFile == "../config.yaml"
ASSUME TargetAssumption == ConfigFile \notin StackNames
EmptyDir == [files |-> <<>>, drafts |-> <<>>, archives |-> <<>>]
NoRestore == [phase |-> "none", config |-> <<>>, stacks |-> EmptyDir]

PutNew(fn, n, value) == [m \in DOMAIN fn \cup {n} |-> IF m \in DOMAIN fn THEN fn[m] ELSE value]

(***************************************************************************)
(* Loading.                                                                *)
(***************************************************************************)

\* LoadConfig
LoadConfig == {c \in ToSet(config) : ValidateConfig(c)}
\* loadConfigAndStacks: the set, refs resolved; {} if a file is refused.
loadConfigAndStacks ==
    {LoadedStacks(c, stacks.files) : c \in {d \in ToSet(config) : LoadsWith(d, stacks.files, {})}}

(***************************************************************************)
(* Commands that write one file.                                           *)
(***************************************************************************)

\* A command starts.
Begin ==
    /\ steps < MaxSteps /\ restore.phase = "none"
    /\ steps' = steps + 1 /\ UNCHANGED <<faults, crashes>>
\* A command that imports nothing.
Command == Begin /\ UNCHANGED restore

\* The candidates for stack n that the other stacks of the set can stand beside.
Valid(set, n, docs) == {doc \in docs : CandidateValid(set, n, doc)}

\* writeFileAtomic of a stack file.
WriteStack(n, doc) ==
    /\ stacks' = [stacks EXCEPT !.files = Put(@, n, doc)]
    /\ UNCHANGED <<config, configDraft, editor, backup>>

\* runSetupInit: config.yaml is written if there is none or with --force.
SetupLocal(force) ==
    /\ Command
    /\ config' = IF config = <<>> \/ force THEN <<DefaultConfig>> ELSE config
    /\ UNCHANGED <<configDraft, stacks, editor, backup>>

\* add --no-edit
AddStack(set, n, template, members, allocate) ==
    /\ Command
    /\ \E doc \in Valid(set, n, AddCandidates(set, n, template, members, allocate)) :
         WriteStack(n, doc)

\* clone --no-edit
CloneStack(set, source, n, allocate) ==
    /\ Command
    /\ source \in DOMAIN stacks.files
    /\ \E doc \in Valid(set, n, CloneCandidates(set, stacks.files[source], source, n, allocate)) :
         WriteStack(n, doc)

\* AddMember
AddMember(set, n, m) ==
    /\ Command
    /\ n \in DOMAIN stacks.files /\ ensureRelayMember(set, m)
    /\ \E doc \in Valid(set, n, addMemberToDocument(stacks.files[n], m)) : WriteStack(n, doc)

\* RemoveMember
RemoveMember(set, n, m) ==
    /\ Command
    /\ n \in DOMAIN stacks.files
    /\ \E doc \in Valid(set, n, removeMemberFromDocument(stacks.files[n], m)) : WriteStack(n, doc)

\* RemoveStack: nothing looks who refers to it; an older archive is replaced.
RemoveStack(set, n) ==
    /\ Command
    /\ n \in DOMAIN stacks.files
    /\ stacks' = [stacks EXCEPT !.files = Drop(@, n), !.archives = Put(@, n, stacks.files[n])]
    /\ UNCHANGED <<config, configDraft, editor, backup>>

\* newExportCommand: the stack files are copied, not loaded; those of cfg.StacksDir(), which is
\* stacks/ while no config sets paths.stacks.
Export ==
    /\ Command
    /\ LoadConfig # {}
    /\ backup' = {[config |-> config, files |-> stacks.files]}
    /\ UNCHANGED <<config, configDraft, stacks, editor>>

(***************************************************************************)
(* Commands that wait for an editor.                                       *)
(***************************************************************************)

\* Mutated prepareDraft: a draft that is there is written over.
prepareDraftAnew(target, initial) ==
    IF target = ConfigFile
    THEN configDraft' = <<initial>> /\ UNCHANGED stacks
    ELSE stacks' = [stacks EXCEPT !.drafts = Put(@, target, initial)] /\ UNCHANGED configDraft

\* prepareDraft: a draft that is there is opened as it is.
prepareDraft(target, initial) ==
    IF target = ConfigFile
    THEN /\ configDraft' = IF configDraft = <<>> THEN <<initial>> ELSE configDraft
         /\ UNCHANGED stacks
    ELSE /\ stacks' = [stacks EXCEPT !.drafts = PutNew(@, target, initial)]
         /\ UNCHANGED configDraft

\* The editor opens; new tells that the target must not exist when the draft is committed.
OpenEditor(target, new, initial) ==
    /\ Command
    /\ editor = {}
    /\ prepareDraft(target, initial)
    /\ editor' = {[target |-> target, new |-> new]}
    /\ UNCHANGED <<config, backup>>

\* config: the file is read, not loaded.
EditConfig == \E c \in ToSet(config) : OpenEditor(ConfigFile, FALSE, c)
\* config NAME
EditStack(n) ==
    LoadConfig # {} /\ n \in DOMAIN stacks.files /\ OpenEditor(n, FALSE, stacks.files[n])
\* editNewStackCandidate: the template is not validated before it is edited.
EditNewStack(set, n, template, members, allocate) ==
    \E doc \in AddCandidates(set, n, template, members, allocate) : OpenEditor(n, TRUE, doc)
\* editClonedStackCandidate
EditClonedStack(set, source, n, allocate) ==
    /\ source \in DOMAIN stacks.files
    /\ \E doc \in Valid(set, n, CloneCandidates(set, stacks.files[source], source, n, allocate)) :
         OpenEditor(n, TRUE, doc)

\* Mutated validateEditTarget: the stack is checked against the others only by its own fields.
validateEditedStackAlone(target, content) ==
    IF target = ConfigFile THEN LoadsWith(content, stacks.files, {})
    ELSE loadConfigAndStacks # {} /\ LoadableStack(target, content)

\* validateEditTarget
validateEditTarget(target, content) ==
    IF target = ConfigFile THEN LoadsWith(content, stacks.files, {})
    ELSE \E set \in loadConfigAndStacks : CandidateValid(set, target, content)

\* The commit function finds the target as the command expects it.
CommitAllowed(session) ==
    IF session.target = ConfigFile THEN config # <<>>
    ELSE session.new <=> session.target \notin DOMAIN stacks.files

\* Mutated EditAndCommit: the draft is removed whether it is committed or not.
EditAndCommitAlwaysRemoves(session, content, exit) ==
    LET n == session.target
        commits == exit = 0 /\ validateEditTarget(n, content) /\ CommitAllowed(session)
    IN  IF n = ConfigFile
        THEN /\ config' = IF commits THEN <<content>> ELSE config
             /\ configDraft' = <<>>
             /\ UNCHANGED stacks
        ELSE /\ stacks' = [stacks EXCEPT !.files = IF commits THEN Put(@, n, content) ELSE @,
                                         !.drafts = Drop(@, n)]
             /\ UNCHANGED <<config, configDraft>>

\* EditAndCommit from the return of the editor: validate, commit, remove the draft; a failure
\* leaves the draft with what the operator saved.
EditAndCommit(session, content, exit) ==
    LET n == session.target
        commits == exit = 0 /\ validateEditTarget(n, content) /\ CommitAllowed(session)
    IN  IF n = ConfigFile
        THEN /\ config' = IF commits THEN <<content>> ELSE config
             /\ configDraft' = IF commits THEN <<>> ELSE <<content>>
             /\ UNCHANGED stacks
        ELSE /\ stacks' = [stacks EXCEPT
                   !.files = IF commits THEN Put(@, n, content) ELSE @,
                   !.drafts = IF commits THEN Drop(@, n) ELSE Put(@, n, content)]
             /\ UNCHANGED <<config, configDraft>>

\* The draft of a target, as it lies there: an import has taken away those of stacks.
DraftOf(target) ==
    IF target = ConfigFile THEN ToSet(configDraft)
    ELSE {stacks.drafts[n] : n \in DOMAIN stacks.drafts \cap {target}}

\* RunEditor returns: the operator saved something, or left the draft alone.
CloseEditor(exit) ==
    /\ restore.phase = "none"
    /\ \E session \in editor :
         LET saved == IF session.target = ConfigFile THEN ConfigWrites ELSE Writes[session.target]
         IN  \/ \E content \in saved \cup DraftOf(session.target) :
                  EditAndCommit(session, content, exit)
             \/ DraftOf(session.target) = {} /\ UNCHANGED <<config, configDraft, stacks>>
    /\ editor' = {}
    /\ UNCHANGED <<backup, restore, counters>>

(***************************************************************************)
(* Import.                                                                 *)
(***************************************************************************)

\* importServiceCandidates: each stack is loaded alone, to stop its services.
importServiceCandidates ==
    config # <<>> =>
        /\ LoadConfig # {}
        /\ {n \in DOMAIN stacks.files : ~LoadableStack(n, stacks.files[n])} = {}

\* Import until the files are staged: without --force there must be nothing to replace; the
\* services of the old stacks are stopped; the backup must load.
ImportBegin(force) ==
    /\ Begin
    /\ force \/ (config = <<>> /\ stacks.files = <<>>)
    /\ importServiceCandidates
    /\ {b \in backup : \E c \in ToSet(b.config) : LoadsWith(c, b.files, {})} # {}
    /\ restore' = [phase |-> "staged", config |-> config, stacks |-> stacks]
    /\ UNCHANGED <<config, configDraft, stacks, editor, backup>>

\* k renames fail.
Fail(k) == faults + k <= MaxFaults /\ faults' = faults + k

\* A step of the import: what it does if its rename works, and what after k that fail.
ImportStep(phase, Works, Fails(_)) ==
    /\ restore.phase = phase
    /\ \/ Works /\ UNCHANGED faults
       \/ \E k \in 1..MaxFaults : Fail(k) /\ Fails(k) /\ restore' = NoRestore
    /\ UNCHANGED <<configDraft, editor, backup, steps, crashes>>

\* rollbackFile: the new file goes, the old one comes back unless that fails too; the
\* directory it lies in is removed when the command ends.
rollbackConfig(back) == config' = IF back THEN restore.config ELSE <<>>

\* moveAsideIfExists
MoveConfigAside ==
    ImportStep("staged",
        config' = <<>> /\ UNCHANGED stacks /\ restore' = [restore EXCEPT !.phase = "aside"],
        LAMBDA k : k = 1 /\ config # <<>> /\ UNCHANGED <<config, stacks>>)

InstallConfig ==
    ImportStep("aside",
        /\ \E b \in backup : config' = b.config
        /\ UNCHANGED stacks /\ restore' = [restore EXCEPT !.phase = "config"],
        LAMBDA k : k <= 2 /\ rollbackConfig(k = 1) /\ UNCHANGED stacks)

\* Mutated MoveStacksAside: the config stays the new one if the stacks cannot be moved.
MoveStacksAsideKeepsConfig ==
    ImportStep("config",
        stacks' = EmptyDir /\ UNCHANGED config /\ restore' = [restore EXCEPT !.phase = "stacks"],
        LAMBDA k : k = 1 /\ UNCHANGED <<config, stacks>>)

\* swapDirectory, its first rename: drafts and archives go with the directory.
MoveStacksAside ==
    ImportStep("config",
        stacks' = EmptyDir /\ UNCHANGED config /\ restore' = [restore EXCEPT !.phase = "stacks"],
        LAMBDA k : k <= 2 /\ rollbackConfig(k = 1) /\ UNCHANGED stacks)

\* swapDirectory, its second rename: two things come back, each may fail to.
InstallStacks ==
    ImportStep("stacks",
        /\ \E b \in backup : stacks' = [EmptyDir EXCEPT !.files = b.files]
        /\ UNCHANGED config /\ restore' = NoRestore,
        LAMBDA k : \E lost \in SUBSET {"config", "stacks"} :
            /\ k = 1 + Cardinality(lost)
            /\ stacks' = IF "stacks" \in lost THEN EmptyDir ELSE restore.stacks
            /\ rollbackConfig("config" \notin lost))

\* The import is killed; nothing ever reads what it moved aside.
Crash ==
    /\ restore.phase # "none" /\ crashes < MaxCrashes
    /\ crashes' = crashes + 1 /\ restore' = NoRestore
    /\ UNCHANGED <<config, configDraft, stacks, editor, backup, steps, faults>>

(***************************************************************************)
(* The specification.                                                      *)
(***************************************************************************)

Init ==
    /\ \E start \in Starts : /\ config = start.config
                            /\ stacks = [EmptyDir EXCEPT !.files = start.files]
    /\ configDraft = <<>> /\ editor = {} /\ backup = {} /\ restore = NoRestore
    /\ steps = 0 /\ faults = 0 /\ crashes = 0

\* What needs a set that loads.
LoadingCommand ==
    \E set \in loadConfigAndStacks, n \in StackNames :
        \/ RemoveStack(set, n)
        \/ \E m \in StackNames : AddMember(set, n, m) \/ RemoveMember(set, n, m)
        \/ \E template \in DOMAIN Templates, members \in MemberLists, allocate \in BOOLEAN :
              \/ AddStack(set, n, template, members, allocate)
              \/ EditNewStack(set, n, template, members, allocate)
        \/ \E source \in StackNames, allocate \in BOOLEAN :
              \/ CloneStack(set, source, n, allocate)
              \/ EditClonedStack(set, source, n, allocate)

Next ==
    \/ LoadingCommand \/ Export \/ EditConfig
    \/ \E n \in StackNames : EditStack(n)
    \/ \E exit \in {0, 1} : CloseEditor(exit)
    \/ \E force \in BOOLEAN : SetupLocal(force) \/ ImportBegin(force)
    \/ MoveConfigAside \/ InstallConfig \/ MoveStacksAside \/ InstallStacks \/ Crash

Spec == Init /\ [][Next]_vars

(***************************************************************************)
(* Properties.                                                             *)
(***************************************************************************)

\* Types: files, drafts and archives belong to known stacks, and the document of a file carries
\* the name of the file, which every command that writes one has checked.
TypeOK ==
    /\ Len(config) <= 1 /\ Len(configDraft) <= 1
    /\ Cardinality(editor) <= 1 /\ Cardinality(backup) <= 1
    /\ \A dir \in {stacks, restore.stacks} :
         /\ DOMAIN dir.drafts \cup DOMAIN dir.archives \subseteq StackNames
         /\ \A n \in DOMAIN dir.files : n \in StackNames /\ dir.files[n].name = n
    /\ restore.phase \in {"none", "staged", "aside", "config", "stacks"}
    /\ restore.phase = "none" => restore = NoRestore

\* A command that changes config.yaml or a stack leaves files that load together, although an
\* editor may have been open while other commands changed them (validateEditTarget reads
\* everything again).  Not so remove, which looks for no references, and setup, which writes its
\* default whatever the stacks refer to.
CommittedMeansLoads ==
    [][(/\ restore.phase = "none" /\ restore'.phase = "none"
        /\ config' # config \/ stacks'.files # stacks.files
        /\ config' # <<DefaultConfig>>
        /\ DOMAIN stacks.files \subseteq DOMAIN stacks'.files)
         => \E c \in ToSet(config') : LoadsWith(c, stacks'.files, {})]_vars

\* The command that waits for its editor on the target ends.
Closing(target) == \E session \in editor \ editor' : session.target = target
StackDraftKept(n) ==
    \/ n \in DOMAIN stacks'.drafts /\ stacks'.drafts[n] = stacks.drafts[n]
    \/ /\ Closing(n)
       /\ \/ n \in DOMAIN stacks'.drafts
          \/ /\ n \in DOMAIN stacks'.files
             /\ stacks'.files[n] \in Writes[n] \cup {stacks.drafts[n]}
    \/ restore.phase = "config" /\ restore'.phase = "stacks"
ConfigDraftKept ==
    \/ configDraft' = configDraft
    \/ /\ Closing(ConfigFile)
       /\ configDraft' # <<>> \/ \E c \in ConfigWrites \cup ToSet(configDraft) : config' = <<c>>

\* What an operator saved in a draft is not lost: a draft changes only by the editor that is open
\* on it, and goes only when what was saved has become the file, or when an import replaces the
\* directory (draftedit.go keeps the draft after every failure and opens it again).
DraftsAreKept ==
    [][/\ \A n \in DOMAIN stacks.drafts : StackDraftKept(n)
       /\ configDraft # <<>> => ConfigDraftKept]_vars

\* A stack added or cloned with ports allocated clashes with no other and not with itself, when
\* all of it is switched on; a clone keeps the port of an API that only the defaults switch on
\* (allocateStackDocumentPorts marks every port it takes as used).
AllocatedPortsFree ==
    \A set \in loadConfigAndStacks, n \in StackNames :
        LET Ports(doc) == Column(CollectPortBindings([set EXCEPT !.stacks =
                                    <<[doc EXCEPT !.enabled = TRUE]>>]), LAMBDA b : b[2])
            added == UNION {UNION {AddCandidates(set, n, template, members, TRUE) :
                                      members \in MemberLists} : template \in DOMAIN Templates}
            cloned == UNION {CloneCandidates(set, stacks.files[s], s, n, TRUE) :
                               s \in {t \in DOMAIN stacks.files : OwnAPI(stacks.files[t])}}
        IN  \A doc \in added \cup cloned :
               ensureUnique(Ports(doc)) /\ ToSet(Ports(doc)) \cap usedPorts(set) = {}

\* The refs that something reads: that of an outbound to mihomo and those of the upstreams to Xray,
\* <<>> in the place of any other.
ReadRefs(doc) ==
    <<IF doc.xray.outbound.type = "clash" THEN doc.xray.outbound.ref ELSE <<>>>>
      \o Column(doc.clash.upstreams, LAMBDA u : IF u.type = "xray-socks5" THEN u.ref ELSE <<>>)
\* A ref to the source becomes one to its clone.
OfClone(ref, source, n) == IF ref # <<>> /\ ref[1] = source THEN [ref EXCEPT ![1] = n] ELSE ref

\* A clone of a stack that is on refers to itself where the source refers to itself, and to the
\* same stacks everywhere else (rewriteSelfRefsInNode): changing one never moves the other.
CloneStandsAlone ==
    LET IsOn(doc) == doc.enabled /\ doc.xray.enabled /\ doc.clash.enabled
    IN  \A set \in loadConfigAndStacks, n \in StackNames, source \in DOMAIN stacks.files :
            IsOn(stacks.files[source]) =>
                \A doc \in CloneCandidates(set, stacks.files[source], source, n, FALSE) :
                    \A k \in DOMAIN ReadRefs(doc) :
                        ReadRefs(doc)[k] = OfClone(ReadRefs(stacks.files[source])[k], source, n)

\* member add shows in member list, and member remove after it gives back the document that was
\* there (syncMemberProxyAdd, syncMemberProxyRemove).  The one exception is a document with a group
\* named like the upstream of the member: add accepts it, and remove takes the group out of the
\* other groups.
RemoveUndoesAdd ==
    \A n \in DOMAIN stacks.files, m \in StackNames :
        LET doc == stacks.files[n]
            Groups == {g.name : g \in ToSet(doc.clash.groups)}
        IN  loadConfigAndStacks # {} /\ LocalName[m] \notin Groups =>
                \A added \in addMemberToDocument(doc, m) :
                    /\ membersFromDocument(added) = Append(membersFromDocument(doc), m)
                    /\ removeMemberFromDocument(added, m) = {doc}

\* What the base directory holds when no import is under way; an import has not happened before
\* its last step.
seenConfig == IF restore.phase = "none" THEN config ELSE restore.config
seenFiles == IF restore.phase = "none" THEN stacks.files ELSE restore.stacks.files
Store == INSTANCE AtomicStore WITH config <- seenConfig, files <- seenFiles, Names <- StackNames

\* Between commands the base directory is an atomic store, an import in which one rename fails
\* included (restoreBackupFiles and swapDirectory move back what they moved aside).
StoreIsAtomic == Store!Spec

\* An import leaves the config and the stacks of before, or those of the backup
\* (RestoreNativeBackup promises an atomic restore).
RestoreAllOrNothing ==
    [][restore.phase # "none" /\ restore'.phase = "none" =>
          \/ config' = restore.config /\ stacks'.files = restore.stacks.files
          \/ \E b \in backup : config' = b.config /\ stacks'.files = b.files]_vars
=============================================================================
