------------------------------ MODULE HostProofs ------------------------------
(***************************************************************************)
(* Services, their files and the binaries, for any stacks, hosts to start  *)
(* from, releases and bounds, under systemd and under launchd.  First what *)
(* the steps of an install keep: the invariant of the files in bin/ and    *)
(* geo/ and of the command at work on them; then the other commands.       *)
(***************************************************************************)
EXTENDS Host, FiniteSetTheorems, TLAPS

(***************************************************************************)
(* The files of the binaries.                                              *)
(***************************************************************************)

\* The targets of an install.
Single == {"mihomo", "xray", "geo"}
\* The files they own.
Paths == UNION {targetPaths(t) : t \in Single}

\* The job is a record, its targets are targets, and it writes nothing but files of targets.
JobShape ==
    /\ job = [kind |-> job.kind, force |-> job.force, request |-> job.request,
              queue |-> job.queue, pending |-> job.pending, saved |-> job.saved,
              created |-> job.created, asked |-> job.asked, before |-> job.before]
    /\ job.kind \in {"none", "install", "units", "entries"}
    /\ job.queue \in Seq(Single)
    /\ job.pending # <<>> => Installing /\ job.queue # <<>>
    /\ job.pending = [f \in DOMAIN job.pending |-> job.pending[f]]
    /\ DOMAIN job.pending \subseteq Paths

\* Each file has its two fields.
FilesShape ==
    /\ DOMAIN files \subseteq Paths
    /\ files = [f \in DOMAIN files |-> [data |-> files[f].data, owner |-> files[f].owner]]

\* While a target is written, taking back what was created and what was saved gives what was
\* there before, and what is still to be written is neither.
Undoable ==
    job.pending # <<>> =>
        /\ DOMAIN job.before = DOMAIN files \ job.created
        /\ \A g \in DOMAIN job.before :
              job.before[g].data = IF g \in DOMAIN job.saved THEN job.saved[g].data ELSE files[g].data
        /\ (DOMAIN job.saved \cup job.created) \cap DOMAIN job.pending = {}

\* The invariant of the files.
FilesInv == JobShape /\ FilesShape /\ Undoable /\ BinariesOwned

\* What is unpacked for a target is a function on files of that target.
LEMMA ExtractedPaths ==
    ASSUME NEW t \in Single, NEW r, NEW lost, NEW got \in Extracted(t, r, lost)
    PROVE  DOMAIN got \subseteq Paths /\ got = [f \in DOMAIN got |-> got[f]]
  <1>1. DOMAIN got \subseteq Paths
    BY DEF Extracted, Paths
  <1>2. PICK s, m : got \in ExtractFiles(s, t, m)
    BY DEF Extracted
  <1>3. \E D, id : got = [f \in D |-> id]
    BY <1>2 DEF ExtractFiles, singleTargetFile, selectExtractedFiles
  <1> QED
    BY <1>1, <1>3

\* There is a next file as long as one is to be written.
LEMMA NextFileIsPending ==
    ASSUME JobShape, job.pending # <<>>
    PROVE  NextFile \in DOMAIN job.pending
  <1>1. DOMAIN job.pending # {}
    BY DEF JobShape
  <1>2. \E f \in DOMAIN job.pending : f = "geoip.dat" \/ "geoip.dat" \notin DOMAIN job.pending
    BY <1>1
  <1> QED
    BY <1>2 DEF NextFile

\* The repair changes owners only.
LEMMA RepairShape ==
    ASSUME FilesShape
    PROVE  /\ DOMAIN RepairStandardMetadata = DOMAIN files
           /\ RepairStandardMetadata =
                [f \in DOMAIN files |-> [data |-> files[f].data, owner |-> "proxystack"]]
  <1>1. \A f \in DOMAIN files :
            [files[f] EXCEPT !.owner = "proxystack"] = [data |-> files[f].data, owner |-> "proxystack"]
    <2> TAKE f \in DOMAIN files
    <2>1. files[f] = [data |-> files[f].data, owner |-> files[f].owner]
      BY DEF FilesShape
    <2> QED
      BY <2>1
  <1> QED
    BY <1>1 DEF RepairStandardMetadata

\* After it, if it runs on Linux, all files belong to the service account.
LEMMA RepairKeeps ==
    ASSUME FilesShape, BinariesOwned, ~Installing, NEW root \in BOOLEAN,
           repairServiceMetadata(root), os' = os
    PROVE  FilesShape' /\ BinariesOwned'
  <1>1. CASE os = "linux" /\ root
    <2>1. files' = [f \in DOMAIN files |-> [data |-> files[f].data, owner |-> "proxystack"]]
      BY <1>1, RepairShape DEF repairServiceMetadata
    <2>2. /\ DOMAIN files' = DOMAIN files
          /\ \A f \in DOMAIN files' : files'[f].owner = "proxystack"
      BY <2>1
    <2>3. files' = [f \in DOMAIN files' |-> [data |-> files'[f].data, owner |-> files'[f].owner]]
      BY <2>1
    <2> QED
      BY <2>2, <2>3 DEF FilesShape, BinariesOwned
  <1>2. CASE ~(os = "linux" /\ root)
    <2>1. UNCHANGED <<files, stained>>
      BY <1>2 DEF repairServiceMetadata
    <2> QED
      BY <2>1 DEF FilesShape, BinariesOwned, Installing
  <1> QED
    BY <1>1, <1>2

\* A function that is nowhere defined.
LEMMA EmptyFunction == DOMAIN <<>> = {} /\ <<>> = [f \in DOMAIN <<>> |-> <<>>[f]]
  OBVIOUS

\* A job that installs nothing.
LEMMA NoJobFields ==
    /\ NoJob = [kind |-> NoJob.kind, force |-> NoJob.force, request |-> NoJob.request,
                queue |-> NoJob.queue, pending |-> NoJob.pending, saved |-> NoJob.saved,
                created |-> NoJob.created, asked |-> NoJob.asked, before |-> NoJob.before]
    /\ NoJob.kind = "none" /\ NoJob.queue = <<>> /\ NoJob.pending = <<>>
  BY DEF NoJob

\* It is well-formed, and so is a phase of uninstall.
LEMMA IdleShape ==
    ASSUME NEW kind \in {"none", "units", "entries"},
           (job' = NoJob /\ kind = "none") \/ job' = [NoJob EXCEPT !.kind = kind]
    PROVE  JobShape' /\ Undoable' /\ job'.kind = kind
  <1>1. /\ job' = [kind |-> job'.kind, force |-> job'.force, request |-> job'.request,
                   queue |-> job'.queue, pending |-> job'.pending, saved |-> job'.saved,
                   created |-> job'.created, asked |-> job'.asked, before |-> job'.before]
        /\ job'.kind = kind /\ job'.queue = <<>> /\ job'.pending = <<>>
    BY NoJobFields
  <1>2. <<>> \in Seq(Single)
    OBVIOUS
  <1> QED
    BY <1>1, <1>2, EmptyFunction DEF JobShape, Undoable

\* A job that begins has targets to install and no file to write yet.
LEMMA BeginInstallShape ==
    ASSUME NEW target \in Single \cup {"all"}, NEW force \in BOOLEAN, NEW request,
           BeginInstall(target, force, request)
    PROVE  JobShape' /\ Undoable' /\ Installing'
  <1>1. ExpandTargets(target) \in Seq(Single)
    <2>1. CASE target = "all"
      <3>1. ExpandTargets(target) = <<"mihomo", "xray", "geo">>
        BY <2>1 DEF ExpandTargets
      <3> QED
        BY <3>1 DEF Single
    <2>2. CASE target \in Single
      <3>1. target # "all"
        BY <2>2 DEF Single
      <3>2. ExpandTargets(target) = <<target>>
        BY <3>1 DEF ExpandTargets
      <3> QED
        BY <2>2, <3>2
    <2> QED
      BY <2>1, <2>2
  <1>2. /\ job' = [kind |-> job'.kind, force |-> job'.force, request |-> job'.request,
                   queue |-> job'.queue, pending |-> job'.pending, saved |-> job'.saved,
                   created |-> job'.created, asked |-> job'.asked, before |-> job'.before]
        /\ job'.kind = "install" /\ job'.queue = ExpandTargets(target) /\ job'.pending = <<>>
    BY NoJobFields DEF BeginInstall
  <1> QED
    BY <1>1, <1>2, EmptyFunction DEF JobShape, Undoable, Installing

(***************************************************************************)
(* The steps of an install.                                                *)
(***************************************************************************)

\* A target is left alone,
LEMMA SkipTargetKeeps ==
    ASSUME FilesInv, SkipTarget
    PROVE  FilesInv'
  <1>1. /\ job' = [kind |-> job'.kind, force |-> job'.force, request |-> job'.request,
                   queue |-> job'.queue, pending |-> job'.pending, saved |-> job'.saved,
                   created |-> job'.created, asked |-> job'.asked, before |-> job'.before]
        /\ job'.kind = job.kind /\ job'.queue = Tail(job.queue) /\ job'.pending = job.pending
    BY DEF SkipTarget, FilesInv, JobShape
  <1>2. Tail(job.queue) \in Seq(Single)
    <2>1. job.queue \in Seq(Single) /\ job.queue # <<>>
      BY DEF SkipTarget, NextTarget, FilesInv, JobShape
    <2> QED
      BY <2>1
  <1>3. job'.pending = <<>> /\ job'.kind = "install"
    BY <1>1 DEF SkipTarget, NextTarget, Installing
  <1>4. JobShape'
    BY <1>1, <1>2, <1>3, EmptyFunction DEF JobShape
  <1>5. Undoable'
    BY <1>3 DEF Undoable
  <1> QED
    BY <1>3, <1>4, <1>5 DEF SkipTarget, FilesInv, FilesShape, BinariesOwned, Installing

\* or fetched and unpacked,
LEMMA FetchTargetKeeps ==
    ASSUME FilesInv, FetchTarget
    PROVE  FilesInv'
  <1>1. Head(job.queue) \in Single
    BY DEF FetchTarget, NextTarget, FilesInv, JobShape
  <1>2. PICK lost \in Losses : \E got \in Extracted(Head(job.queue), job.request, lost) :
            job' = [job EXCEPT !.pending = got, !.saved = <<>>, !.created = {}, !.before = files]
    BY DEF FetchTarget
  <1> PICK got \in Extracted(Head(job.queue), job.request, lost) :
            job' = [job EXCEPT !.pending = got, !.saved = <<>>, !.created = {}, !.before = files]
    BY <1>2
  <1>3. DOMAIN got \subseteq Paths /\ got = [f \in DOMAIN got |-> got[f]]
    BY <1>1, ExtractedPaths
  <1>4. /\ job' = [kind |-> job'.kind, force |-> job'.force, request |-> job'.request,
                   queue |-> job'.queue, pending |-> job'.pending, saved |-> job'.saved,
                   created |-> job'.created, asked |-> job'.asked, before |-> job'.before]
        /\ job'.kind = job.kind /\ job'.queue = job.queue /\ job'.pending = got
        /\ job'.saved = <<>> /\ job'.created = {} /\ job'.before = files
    BY <1>2 DEF FilesInv, JobShape
  <1>5. JobShape'
    BY <1>3, <1>4 DEF FetchTarget, NextTarget, Installing, FilesInv, JobShape
  <1>6. Undoable'
    BY <1>4, EmptyFunction DEF FetchTarget, Undoable
  <1> QED
    BY <1>4, <1>5, <1>6
    DEF FetchTarget, NextTarget, FilesInv, FilesShape, BinariesOwned, Installing

\* or the install ends,
LEMMA AbortKeeps ==
    ASSUME FilesInv, Abort, FilesShape'
    PROVE  FilesInv'
  BY IdleShape DEF Abort, FilesInv, BinariesOwned

\* because the download fails
LEMMA FetchFailsKeeps == ASSUME FilesInv, FetchFails PROVE FilesInv'
  BY AbortKeeps DEF FetchFails, FilesInv, FilesShape

\* or the process dies;
LEMMA KillInstallKeeps == ASSUME FilesInv, KillInstall PROVE FilesInv'
  BY AbortKeeps DEF KillInstall, FilesInv, FilesShape

\* a file is written,
LEMMA WriteFileKeeps ==
    ASSUME FilesInv, WriteFile
    PROVE  FilesInv'
  <1> DEFINE f == NextFile
             rest == [g \in DOMAIN job.pending \ {f} |-> job.pending[g]]
  <1>1. f \in DOMAIN job.pending /\ f \in Paths
    BY NextFileIsPending DEF WriteFile, FilesInv, JobShape
  <1>2. files' = [g \in DOMAIN files \cup {f} |->
                    IF g = f THEN [data |-> job.pending[f], owner |-> "root"] ELSE files[g]]
    BY DEF WriteFile
  <1>3. /\ job' = [kind |-> job'.kind, force |-> job'.force, request |-> job'.request,
                   queue |-> job'.queue, pending |-> job'.pending, saved |-> job'.saved,
                   created |-> job'.created, asked |-> job'.asked, before |-> job'.before]
        /\ job'.kind = job.kind /\ job'.before = job.before
        /\ job'.queue = (IF rest = <<>> THEN Tail(job.queue) ELSE job.queue)
        /\ job'.pending = rest /\ job'.saved = Backups
        /\ job'.created = job.created \cup ({f} \ DOMAIN files)
    BY DEF WriteFile, FilesInv, JobShape
  <1>4. FilesShape'
    <2>1. DOMAIN files' = DOMAIN files \cup {f}
      BY <1>2
    <2>2. \A g \in DOMAIN files' : files'[g] = [data |-> files'[g].data, owner |-> files'[g].owner]
      BY <1>2 DEF FilesInv, FilesShape
    <2>3. files' = [g \in DOMAIN files' |-> files'[g]]
      BY <1>2
    <2> QED
      BY <1>1, <2>1, <2>2, <2>3 DEF FilesInv, FilesShape
  <1>5. JobShape'
    <2>1. job'.queue \in Seq(Single)
      BY <1>3 DEF WriteFile, FilesInv, JobShape
    <2>2. job'.pending # <<>> => job'.queue # <<>>
      BY <1>3 DEF WriteFile, FilesInv, JobShape
    <2>3. DOMAIN job'.pending \subseteq Paths /\ job'.pending = [g \in DOMAIN job'.pending |-> job'.pending[g]]
      BY <1>3 DEF FilesInv, JobShape
    <2> QED
      BY <1>3, <2>1, <2>2, <2>3 DEF WriteFile, Installing, FilesInv, JobShape
  <1>6. Undoable'
    <2> SUFFICES /\ DOMAIN job'.before = DOMAIN files' \ job'.created
                 /\ \A g \in DOMAIN job'.before :
                       job'.before[g].data = IF g \in DOMAIN job'.saved THEN job'.saved[g].data
                                                                        ELSE files'[g].data
                 /\ (DOMAIN job'.saved \cup job'.created) \cap DOMAIN job'.pending = {}
      BY DEF Undoable
    <2>1. /\ DOMAIN job.before = DOMAIN files \ job.created
          /\ \A g \in DOMAIN job.before :
                job.before[g].data = IF g \in DOMAIN job.saved THEN job.saved[g].data ELSE files[g].data
          /\ (DOMAIN job.saved \cup job.created) \cap DOMAIN job.pending = {}
      BY DEF WriteFile, FilesInv, Undoable
    <2>2. /\ DOMAIN Backups = DOMAIN job.saved \cup (DOMAIN files \cap {f})
          /\ \A g \in DOMAIN Backups : Backups[g] = IF g = f THEN files[g] ELSE job.saved[g]
      BY DEF Backups
    <2>3. DOMAIN job'.before = DOMAIN files' \ job'.created
      BY <1>1, <1>2, <1>3, <2>1
    <2>4. ASSUME NEW g \in DOMAIN job'.before
          PROVE  job'.before[g].data = IF g \in DOMAIN job'.saved THEN job'.saved[g].data
                                                                  ELSE files'[g].data
      <3>1. g \in DOMAIN files /\ g \notin job.created
        BY <1>3, <2>1, <2>4
      <3>2. CASE g = f
        BY <1>1, <1>3, <2>1, <2>2, <3>1, <3>2
      <3>3. CASE g # f
        BY <1>2, <1>3, <2>1, <2>2, <3>1, <3>3
      <3> QED
        BY <3>2, <3>3
    <2>5. (DOMAIN job'.saved \cup job'.created) \cap DOMAIN job'.pending = {}
      BY <1>1, <1>3, <2>1, <2>2
    <2> QED
      BY <2>3, <2>4, <2>5
  <1> QED
    BY <1>3, <1>4, <1>5, <1>6 DEF WriteFile, Installing, FilesInv, BinariesOwned


\* A rollback removes files or writes saved content.
LEMMA RollbackShape ==
    ASSUME FilesInv, NEW kept, rollback(kept)
    PROVE  FilesShape'
  <1>1. /\ DOMAIN files' \subseteq DOMAIN files
        /\ \A g \in DOMAIN files' : files'[g] \in {files[g], [data |-> Backups[g].data, owner |-> "root"]}
        /\ files' = [g \in DOMAIN files' |-> files'[g]]
    BY DEF rollback
  <1>2. \A g \in DOMAIN files' : files'[g] = [data |-> files'[g].data, owner |-> files'[g].owner]
    BY <1>1 DEF FilesInv, FilesShape
  <1> QED
    BY <1>1, <1>2 DEF FilesInv, FilesShape

\* or cannot be and what was written is rolled back;
LEMMA WriteFailsKeeps == ASSUME FilesInv, WriteFails PROVE FilesInv'
  BY RollbackShape, AbortKeeps DEF WriteFails

\* and when all is done the files are given to the service account.
LEMMA EndInstallKeeps ==
    ASSUME FilesInv, EndInstall
    PROVE  FilesInv'
  <1>1. JobShape' /\ Undoable'
    BY IdleShape DEF EndInstall
  <1>2. CASE os = "linux" /\ account
    <2>1. files' = [f \in DOMAIN files |-> [data |-> files[f].data, owner |-> "proxystack"]]
      BY <1>2, RepairShape DEF EndInstall, CanRepair, repairServiceMetadata, FilesInv
    <2>2. /\ DOMAIN files' = DOMAIN files
          /\ \A f \in DOMAIN files' : files'[f].owner = "proxystack"
          /\ files' = [f \in DOMAIN files' |-> [data |-> files'[f].data, owner |-> files'[f].owner]]
      BY <2>1
    <2> QED
      BY <1>1, <2>2 DEF FilesInv, FilesShape, BinariesOwned
  <1>3. CASE os # "linux"
    <2>1. UNCHANGED <<os, files>>
      BY <1>3 DEF EndInstall, CanRepair, repairServiceMetadata
    <2> QED
      BY <1>1, <1>3, <2>1 DEF FilesInv, FilesShape, BinariesOwned
  <1>4. CASE os = "linux" /\ ~account
    <2>1. stained' = TRUE /\ UNCHANGED files
      BY <1>4 DEF EndInstall, CanRepair
    <2> QED
      BY <1>1, <2>1 DEF FilesInv, FilesShape, BinariesOwned
  <1> QED
    BY <1>2, <1>3, <1>4

\* The job goes on or is over, and the platform stays.
LEMMA InstallStepFrame ==
    ASSUME FilesInv, InstallStep
    PROVE  os' = os /\ Installing /\ job'.kind \in {"install", "none"}
  <1>1. os' = os /\ Installing
    BY DEF InstallStep, SkipTarget, FetchTarget, FetchFails, WriteFile, WriteFails, EndInstall,
           KillInstall, NextTarget
  <1>2. CASE job' = NoJob
    BY <1>1, <1>2, NoJobFields
  <1>3. CASE SkipTarget \/ FetchTarget \/ WriteFile
    <2>1. job'.kind = job.kind
      BY <1>3 DEF SkipTarget, FetchTarget, WriteFile, FilesInv, JobShape
    <2> QED
      BY <1>1, <2>1 DEF Installing
  <1> QED
    BY <1>1, <1>2, <1>3
    DEF InstallStep, FetchFails, WriteFails, EndInstall, KillInstall, Abort

\* Every step of an install keeps the invariant.
LEMMA InstallStepKeeps == ASSUME FilesInv, InstallStep PROVE FilesInv'
  BY SkipTargetKeeps, FetchTargetKeeps, FetchFailsKeeps, WriteFileKeeps, WriteFailsKeeps,
     EndInstallKeeps, KillInstallKeeps DEF InstallStep

\* A write that fails, with a rollback that does not, leaves what the target began with.
LEMMA WriteFailsRestores ==
    ASSUME FilesInv, WriteFails, rollback({})
    PROVE  DataOf(files') = DataOf(job.before)
  <1>1. /\ DOMAIN job.before = DOMAIN files \ job.created
        /\ \A g \in DOMAIN job.before :
              job.before[g].data = IF g \in DOMAIN job.saved THEN job.saved[g].data ELSE files[g].data
        /\ (DOMAIN job.saved \cup job.created) \cap DOMAIN job.pending = {}
    BY DEF WriteFails, FilesInv, Undoable
  <1>2. /\ DOMAIN Backups = DOMAIN job.saved \cup (DOMAIN files \cap {NextFile})
        /\ \A g \in DOMAIN Backups : Backups[g] = IF g = NextFile THEN files[g] ELSE job.saved[g]
    BY DEF Backups
  <1>3. NextFile \in DOMAIN job.pending
    BY NextFileIsPending DEF WriteFails, FilesInv
  <1>4. /\ DOMAIN files' = DOMAIN files \ job.created
        /\ \A g \in DOMAIN files' :
              files'[g] = IF g \in DOMAIN Backups THEN [data |-> Backups[g].data, owner |-> "root"]
                                                  ELSE files[g]
    BY DEF rollback
  <1>5. ASSUME NEW g \in DOMAIN files'
        PROVE  files'[g].data = job.before[g].data
    <2>1. CASE g \in DOMAIN Backups
      <3>1. files'[g].data = Backups[g].data
        <4>1. files'[g] = [data |-> Backups[g].data, owner |-> "root"]
          BY <1>4, <2>1
        <4> QED
          BY <4>1
      <3>2. CASE g = NextFile
        <4>1. g \notin DOMAIN job.saved
          BY <1>1, <1>3, <3>2
        <4> QED
          BY <1>1, <1>2, <1>4, <2>1, <3>1, <3>2, <4>1
      <3>3. CASE g # NextFile
        <4>1. g \in DOMAIN job.saved
          BY <1>2, <2>1, <3>3
        <4> QED
          BY <1>1, <1>2, <1>4, <2>1, <3>1, <3>3, <4>1
      <3> QED
        BY <3>2, <3>3
    <2>2. CASE g \notin DOMAIN Backups
      BY <1>1, <1>2, <1>4, <2>2
    <2> QED
      BY <2>1, <2>2
  <1> QED
    BY <1>1, <1>4, <1>5 DEF DataOf

(***************************************************************************)
(* The services and the other commands.                                    *)
(***************************************************************************)

\* What the service managers know: only nodes run; under launchd what runs is loaded and what is
\* loaded has its plist.
Services ==
    /\ enabled \cup running \subseteq Nodes
    /\ IF Linux THEN units \subseteq {"xray", "clash"} /\ loaded = {}
                ELSE running \subseteq loaded /\ loaded \subseteq units /\ units \subseteq Nodes

\* Stacks have names.
Stacks == DOMAIN stacks \subseteq StackNames

\* Without a config, before setup or after an import that was killed, a service of a stack that is
\* on runs only if systemd started it at boot, and any other was left by remove or uninstall.
Configless ==
    ~config =>
        /\ \A n \in running \cap OnNodes : Linux /\ n \in enabled
        /\ \A n \in running : n[1] \in removed \/ (Linux /\ n \in enabled)

\* The invariant of services and stacks,
HostInv == Services /\ Stacks /\ Configless /\ UninstalledIsStopped /\ OrphansWereRemoved
\* and that of the host.
IInv == FilesInv /\ HostInv

(***************************************************************************)
(* Targets.                                                                *)
(***************************************************************************)

\* A node is a service of a stack.
LEMMA NodeParts ==
    ASSUME NEW n \in Nodes
    PROVE  n[1] \in StackNames /\ n[2] \in {"xray", "clash"}
  BY DEF Nodes

\* Nodes that are on belong to stacks that are there,
LEMMA OnNodesHaveStacks == OnNodes \subseteq {n \in Nodes : n[1] \in DOMAIN stacks}
  BY DEF OnNodes

\* and depend on the stacks only.
LEMMA OnNodesFrame == ASSUME UNCHANGED stacks PROVE OnNodes' = OnNodes
  BY DEF OnNodes

\* Where stacks go and none comes or changes, no node comes on.
LEMMA FewerStacksFewerOn ==
    ASSUME DOMAIN stacks' \subseteq DOMAIN stacks, \A s \in DOMAIN stacks' : stacks'[s] = stacks[s]
    PROVE  OnNodes' \subseteq OnNodes
  BY NodeParts DEF OnNodes

\* The targets of a command are nodes.
LEMMA TargetsAreNodes == ASSUME NEW T \in Targets PROVE T \subseteq Nodes
  BY DEF Targets, Nodes

\* All nodes are no target of one component.
LEMMA NodesAreNotOne == Cardinality(Nodes) # 1
  <1>1. IsFiniteSet(Nodes)
    <2>1. IsFiniteSet({"clash"} \cup {"xray"}) /\ {"xray", "clash"} = {"clash"} \cup {"xray"}
      BY FS_Singleton, FS_AddElement
    <2> QED
      BY <2>1, StackNamesAssumption, FS_Product DEF Nodes
  <1>2. SUFFICES ASSUME NEW x, Nodes = {x} PROVE FALSE
    BY <1>1, FS_Singleton
  <1>3. x \in Nodes
    BY <1>2
  <1>4. <<x[1], "xray">> \in Nodes /\ <<x[1], "clash">> \in Nodes
    BY <1>3 DEF Nodes
  <1> QED
    BY <1>2, <1>4

\* A command acts on nodes of stacks that are there.
LEMMA ServiceNodesHaveStacks ==
    ASSUME NEW T \in Targets, NEW action, Known(T)
    PROVE  ServiceNodes(action, T) \subseteq {n \in Nodes : n[1] \in DOMAIN stacks}
  <1>1. Scope(T) \subseteq {n \in Nodes : n[1] \in DOMAIN stacks}
    BY OnNodesHaveStacks DEF Scope
  <1>2. explicitLifecycleServiceNodes(T) \subseteq T
    BY DEF explicitLifecycleServiceNodes
  <1>3. CASE T = Nodes
    <2>1. explicitLifecycleServiceNodes(T) = {}
      BY <1>3, NodesAreNotOne DEF explicitLifecycleServiceNodes
    <2> QED
      BY <1>1, <2>1 DEF ServiceNodes
  <1>4. CASE T # Nodes
    <2>1. \A n \in T : n \in Nodes /\ n[1] \in DOMAIN stacks
      BY <1>4, TargetsAreNodes DEF Known
    <2> QED
      BY <1>1, <1>2, <2>1 DEF ServiceNodes
  <1> QED
    BY <1>3, <1>4

(***************************************************************************)
(* What single parts of an action keep.                                    *)
(***************************************************************************)

\* A call of a service manager touches the nodes it is for, and no others.
LEMMA ActKeeps ==
    ASSUME Services, NEW done \in SUBSET Nodes, UNCHANGED <<os, units>>,
           \/ ManagerStart(done) \/ ManagerRestart(done) \/ ManagerStop(done)
           \/ ManagerEnable(done) \/ ManagerDisable(done)
    PROVE  Services' /\ running' \subseteq running \cup done /\ enabled \subseteq enabled' \cup done
  <1>1. CASE ManagerStart(done)
    <2>1. ~Linux => done \subseteq units
      BY <1>1 DEF ManagerStart, Startable, Services, Active
    <2> QED
      BY <1>1, <2>1 DEF ManagerStart, Services, Linux
  <1>2. CASE ManagerRestart(done)
    <2>1. ~Linux => done \subseteq units
      BY <1>2 DEF ManagerRestart, Startable, Services
    <2> QED
      BY <1>2, <2>1 DEF ManagerRestart, Services, Linux
  <1>3. CASE ManagerStop(done)
    BY <1>3 DEF ManagerStop, Services, Linux
  <1>4. CASE ManagerEnable(done)
    BY <1>4 DEF ManagerEnable, Services, Linux
  <1>5. CASE ManagerDisable(done)
    BY <1>5 DEF ManagerDisable, Services, Linux
  <1> QED
    BY <1>1, <1>2, <1>3, <1>4, <1>5

\* An action on services is a call to one of the five operations of a manager.
LEMMA ActIsManagerCall ==
    ASSUME NEW action \in {"start", "restart", "stop", "enable", "disable"}, NEW done,
           Act(action, done)
    PROVE  \/ ManagerStart(done) \/ ManagerRestart(done) \/ ManagerStop(done)
           \/ ManagerEnable(done) \/ ManagerDisable(done)
  BY DEF Act

\* A job is booted out before its plist goes, also when the loop is cut short.
LEMMA RemovePlistsKeeps ==
    ASSUME Services, ~Linux, NEW S, NEW written \in SUBSET Nodes, NEW ok,
           RemovePlists(S, written, ok), UNCHANGED <<os, enabled>>
    PROVE  Services' /\ running' \subseteq running
  <1>1. PICK out \in SUBSET S : \E gone \in SUBSET out :
            /\ units' = (units \cup written) \ gone
            /\ loaded' = loaded \ out /\ running' = running \ out
    BY DEF RemovePlists, bootoutIfLoaded
  <1>2. PICK gone \in SUBSET out : units' = (units \cup written) \ gone
    BY <1>1
  <1> QED
    BY <1>1, <1>2 DEF Services, Linux

\* Service files come and go, nothing is started, and what loses its plist is booted out.
LEMMA InstallUnitsKeeps ==
    ASSUME Services, NEW T \in Targets, NEW ok, InstallUnits(T, ok), UNCHANGED <<os, enabled>>
    PROVE  Services' /\ running' \subseteq running
  <1>1. Scope(T) \subseteq Nodes
    BY OnNodesHaveStacks DEF Scope
  <1>2. CASE Linux
    <2>1. selectUnitFiles(T) \subseteq {"xray", "clash"}
      BY <1>1, NodeParts DEF selectUnitFiles
    <2> QED
      BY <1>2, <2>1 DEF InstallUnits, SystemdInstallUnits, Services, Linux
  <1>3. CASE ~Linux
    <2>1. RenderLaunchdPlists(T) \in SUBSET Nodes
      BY <1>1 DEF RenderLaunchdPlists
    <2>2. CASE RemovePlists(StalePlists(T), RenderLaunchdPlists(T), ok)
      BY <1>3, <2>1, <2>2, RemovePlistsKeeps
    <2>3. ASSUME NEW written \in SUBSET RenderLaunchdPlists(T), units' = units \cup written,
                 UNCHANGED <<loaded, running>>
          PROVE  Services' /\ running' \subseteq running
      BY <1>3, <2>1, <2>3 DEF Services, Linux
    <2> QED
      BY <1>3, <2>2, <2>3 DEF InstallUnits, LaunchdInstallUnits
  <1> QED
    BY <1>2, <1>3

\* Uninstalling starts nothing.
LEMMA UninstallUnitsKeeps ==
    ASSUME Services, NEW T, NEW ok, UninstallUnits(T, ok), UNCHANGED <<os, enabled>>
    PROVE  Services' /\ running' \subseteq running
  <1>1. CASE Linux
    BY <1>1 DEF UninstallUnits, SystemdUninstallUnits, Services, Linux
  <1>2. CASE ~Linux
    BY <1>2, RemovePlistsKeeps DEF UninstallUnits, LaunchdUninstallUnits
  <1> QED
    BY <1>1, <1>2

\* No orphan comes up when what starts belongs to stacks that are there or were removed.
LEMMA NoNewOrphans ==
    ASSUME OrphansWereRemoved, UNCHANGED os, NEW D,
           running' \subseteq running \cup D, enabled \subseteq enabled' \cup D,
           \A n \in D : n[1] \in DOMAIN stacks' \cup removed',
           DOMAIN stacks \cup removed \subseteq DOMAIN stacks' \cup removed'
    PROVE  OrphansWereRemoved'
  BY DEF OrphansWereRemoved, Linux

\* With a config there is nothing to show of a host without one,
LEMMA ConfigThere == ASSUME config' PROVE Configless'
  BY DEF Configless

\* or that stays there,
LEMMA ConfigStays == ASSUME config, config' = config PROVE Configless'
  BY DEF Configless

\* and where there is none nothing changes while no service starts.
LEMMA ConfiglessFrame ==
    ASSUME Configless, UNCHANGED <<os, config, stacks, enabled, removed>>, running' \subseteq running
    PROVE  Configless'
  BY OnNodesFrame DEF Configless, Linux

\* Nor does an orphan come up.
LEMMA OrphansFrame ==
    ASSUME OrphansWereRemoved, UNCHANGED <<os, stacks, enabled, removed>>, running' \subseteq running
    PROVE  OrphansWereRemoved'
  BY DEF OrphansWereRemoved, Linux

\* A command that leaves the files, or repairs their owners.
LEMMA FilesFrame ==
    ASSUME FilesInv, UNCHANGED <<os, files, job, stained>>
    PROVE  FilesInv'
  BY DEF FilesInv, JobShape, FilesShape, Undoable, BinariesOwned, Installing

\* An install that is not under way stays so,
LEMMA IdleFrame ==
    ASSUME FilesInv, job.kind = "none", job' = job
    PROVE  JobShape' /\ Undoable' /\ ~Installing /\ job'.kind = "none"
  BY DEF FilesInv, JobShape, Undoable, Installing

\* and the files stay well owned, repaired or not.
LEMMA FilesRepaired ==
    ASSUME FilesInv, job.kind = "none", UNCHANGED <<os, job>>,
           UNCHANGED <<files, stained>> \/ \E root \in BOOLEAN : repairServiceMetadata(root)
    PROVE  FilesInv'
  BY IdleFrame, RepairKeeps, FilesFrame DEF FilesInv

\* While no uninstall is under way nothing is to be shown of it.
LEMMA NotUninstalling == ASSUME job'.kind \notin {"units", "entries"} PROVE UninstalledIsStopped'
  BY DEF UninstalledIsStopped

(***************************************************************************)
(* The invariant.                                                          *)
(***************************************************************************)

\* The invariant holds at the start.
LEMMA InitIInv == Init => IInv
  <1> SUFFICES ASSUME Init PROVE IInv
    OBVIOUS
  <1>1. PICK start \in Starts :
            /\ config = start.setup
            /\ files = [f \in start.files |->
                          [data |-> "old", owner |-> IF Linux THEN "proxystack" ELSE "root"]]
            /\ stacks = start.stacks
            /\ units = (IF ~start.setup THEN {} ELSE IF Linux THEN {"xray", "clash"} ELSE OnNodes)
            /\ running = start.running
            /\ loaded = (IF Linux THEN {} ELSE start.running)
    BY DEF Init
  <1>2. job = NoJob /\ enabled = (IF Linux THEN {} ELSE Nodes)
    BY DEF Init
  <1>3. /\ start.files \subseteq Paths
        /\ DOMAIN stacks \subseteq StackNames
        /\ running \subseteq OnNodes
        /\ ~config => DOMAIN stacks = {}
    BY <1>1, StartsAssumption DEF Paths, Single, OnNodes, Nodes
  <1>4. JobShape /\ Undoable /\ job.kind = "none"
    BY <1>2, NoJobFields, EmptyFunction DEF JobShape, Undoable
  <1>5. FilesShape
    <2>1. /\ DOMAIN files = start.files
          /\ files = [f \in DOMAIN files |-> files[f]]
          /\ \A f \in DOMAIN files :
                files[f] = [data |-> "old", owner |-> IF Linux THEN "proxystack" ELSE "root"]
      BY <1>1
    <2>2. \A f \in DOMAIN files : files[f] = [data |-> files[f].data, owner |-> files[f].owner]
      BY <2>1
    <2> QED
      BY <1>3, <2>1, <2>2 DEF FilesShape
  <1>6. BinariesOwned
    BY <1>1 DEF BinariesOwned, Linux
  <1>7. running \subseteq {n \in Nodes : n[1] \in DOMAIN stacks}
    BY <1>3, OnNodesHaveStacks
  <1>8. Services
    <2>1. OnNodes \subseteq Nodes /\ (~config => OnNodes = {})
      BY <1>3, OnNodesHaveStacks
    <2>2. CASE Linux
      BY <1>1, <1>2, <1>3, <2>1, <2>2 DEF Services
    <2>3. CASE ~Linux
      <3>1. units = OnNodes
        BY <1>1, <2>1, <2>3
      <3>2. loaded = running /\ enabled = Nodes
        BY <1>1, <1>2, <2>3
      <3> QED
        BY <1>3, <2>1, <2>3, <3>1, <3>2 DEF Services
    <2> QED
      BY <2>2, <2>3
  <1>9. UninstalledIsStopped /\ OrphansWereRemoved
    BY <1>4, <1>7 DEF UninstalledIsStopped, OrphansWereRemoved
  <1>10. Configless
    BY <1>3, <1>7 DEF Configless
  <1> QED
    BY <1>3, <1>4, <1>5, <1>6, <1>8, <1>9, <1>10 DEF IInv, FilesInv, HostInv, Stacks

\* Actions that change no service.
LEMMA ServicesFrame ==
    ASSUME HostInv, UNCHANGED <<os, units, loaded, running, enabled>>
    PROVE  Services'
  BY DEF HostInv, Services, Linux

\* The steps of an install keep the invariant,
LEMMA InstallStepIInv ==
    ASSUME IInv, InstallStep, UNCHANGED hostVars
    PROVE  IInv'
  <1>1. FilesInv'
    BY InstallStepKeeps DEF IInv
  <1>2. os' = os /\ job'.kind \in {"install", "none"}
    BY InstallStepFrame DEF IInv
  <1>3. Services' /\ Stacks' /\ Configless' /\ OrphansWereRemoved'
    BY <1>2, ServicesFrame, ConfiglessFrame, OrphansFrame DEF IInv, HostInv, Stacks, hostVars
  <1> QED
    BY <1>1, <1>2, <1>3, NotUninstalling DEF IInv, HostInv

\* so does its start (pssub install, psctl install),
LEMMA InstallCommandIInv ==
    ASSUME IInv, NEW target \in {"mihomo", "xray", "geo", "all"}, NEW force \in BOOLEAN, NEW request,
           InstallCommand(target, force, request)
    PROVE  IInv'
  <1>1. target \in Single \cup {"all"}
    BY DEF Single
  <1>2. JobShape' /\ Undoable' /\ Installing'
    BY <1>1, BeginInstallShape DEF InstallCommand
  <1>3. FilesInv'
    BY <1>2 DEF InstallCommand, IInv, FilesInv, FilesShape, BinariesOwned
  <1>4. Services' /\ Stacks' /\ Configless' /\ OrphansWereRemoved'
    BY ServicesFrame, ConfigThere, OrphansFrame
    DEF InstallCommand, KeepStacks, IInv, HostInv, Stacks
  <1> QED
    BY <1>2, <1>3, <1>4, NotUninstalling DEF IInv, HostInv, Installing

\* setup,
LEMMA SetupLocalIInv ==
    ASSUME IInv, NEW deps \in BOOLEAN, SetupLocal(deps)
    PROVE  IInv'
  <1>1. job.kind = "none" /\ UNCHANGED <<os, stacks, enabled, removed>>
    BY DEF SetupLocal, Command
  <1>2. CASE /\ config' = config \/ config' = TRUE
             /\ UNCHANGED <<files, job, stained, units, loaded, running>>
    <2>1. FilesInv' /\ Services'
      BY <1>1, <1>2, FilesFrame, ServicesFrame DEF IInv
    <2>2. Stacks' /\ OrphansWereRemoved'
      BY <1>1, <1>2, OrphansFrame DEF IInv, HostInv, Stacks
    <2>3. Configless'
      <3>1. CASE config' = config
        BY <1>1, <1>2, <3>1, ConfiglessFrame DEF IInv, HostInv
      <3>2. CASE config' = TRUE
        BY <3>2, ConfigThere
      <3> QED
        BY <1>2, <3>1, <3>2
    <2> QED
      BY <1>1, <1>2, <2>1, <2>2, <2>3, NotUninstalling DEF IInv, HostInv
  <1>3. ASSUME NEW ok \in BOOLEAN, config' = TRUE, repairServiceMetadata(TRUE),
               InstallUnits(Nodes, ok),
               IF ok /\ deps THEN BeginInstall("all", FALSE, NoRequest) ELSE UNCHANGED job
        PROVE  IInv'
    <2>1. JobShape' /\ Undoable' /\ job'.kind \in {"none", "install"}
      <3>1. CASE ok /\ deps
        <4>1. BeginInstall("all", FALSE, NoRequest)
          BY <1>3, <3>1
        <4>2. "all" \in Single \cup {"all"} /\ FALSE \in BOOLEAN
          OBVIOUS
        <4>3. JobShape' /\ Undoable' /\ Installing'
          BY <4>1, <4>2, BeginInstallShape
        <4> QED
          BY <4>3 DEF Installing
      <3>2. CASE ~(ok /\ deps)
        BY <1>1, <1>3, <3>2, IdleFrame DEF IInv
      <3> QED
        BY <3>1, <3>2
    <2>2. FilesShape' /\ BinariesOwned'
      BY <1>1, <1>3, RepairKeeps DEF IInv, FilesInv, Installing
    <2>3. Services' /\ running' \subseteq running
      BY <1>1, <1>3, InstallUnitsKeeps DEF IInv, HostInv, Targets
    <2>4. Stacks' /\ Configless' /\ OrphansWereRemoved'
      BY <1>1, <1>3, <2>3, ConfigThere, OrphansFrame DEF IInv, HostInv, Stacks
    <2> QED
      BY <2>1, <2>2, <2>3, <2>4, NotUninstalling DEF IInv, HostInv, FilesInv
  <1> QED
    BY <1>2, <1>3 DEF SetupLocal

\* writing and removing service files,
LEMMA ServiceFilesIInv ==
    ASSUME IInv, NEW T \in Targets, ServiceInstall(T) \/ ServiceUninstall(T)
    PROVE  IInv'
  <1>1. /\ job.kind = "none" /\ UNCHANGED <<os, account, files, job, stained>>
        /\ UNCHANGED <<config, stacks, removed, enabled>>
        /\ \E ok \in BOOLEAN : InstallUnits(T, ok) \/ UninstallUnits(T, ok)
    BY DEF ServiceInstall, ServiceUninstall, Command, KeepFiles, KeepStacks
  <1>2. Services' /\ running' \subseteq running
    BY <1>1, InstallUnitsKeeps, UninstallUnitsKeeps DEF IInv, HostInv
  <1>3. FilesInv'
    BY <1>1, FilesFrame DEF IInv
  <1>4. Stacks' /\ Configless' /\ OrphansWereRemoved'
    BY <1>1, <1>2, ConfiglessFrame, OrphansFrame DEF IInv, HostInv, Stacks
  <1> QED
    BY <1>1, <1>2, <1>3, <1>4, NotUninstalling DEF IInv, HostInv

\* the lifecycle commands,
LEMMA LifecycleIInv ==
    ASSUME IInv, NEW action \in {"start", "restart"}, NEW T \in Targets, NEW root \in BOOLEAN,
           NEW full \in BOOLEAN, Lifecycle(action, T, root, full)
    PROVE  IInv'
  <1>1. /\ job.kind = "none" /\ UNCHANGED <<os, job, units, config, stacks, removed>>
        /\ repairServiceMetadata(root) /\ config
    BY DEF Lifecycle, Command, KeepStacks
  <1>2. PICK done \in SUBSET Scope(T) : Act(action, done)
    BY DEF Lifecycle
  <1>3. done \subseteq {n \in Nodes : n[1] \in DOMAIN stacks}
    BY <1>2, OnNodesHaveStacks DEF Scope
  <1>4. Services' /\ running' \subseteq running \cup done /\ enabled \subseteq enabled' \cup done
    BY <1>1, <1>2, <1>3, ActIsManagerCall, ActKeeps DEF IInv, HostInv
  <1>5. OrphansWereRemoved'
    BY <1>1, <1>3, <1>4, NoNewOrphans DEF IInv, HostInv
  <1>6. FilesInv'
    BY <1>1, FilesRepaired DEF IInv
  <1> QED
    BY <1>1, <1>4, <1>5, <1>6, ConfigStays, NotUninstalling DEF IInv, HostInv, Stacks

\* the service commands,
LEMMA ServiceActionIInv ==
    ASSUME IInv, NEW action \in {"start", "restart", "stop", "enable", "disable"}, NEW T \in Targets,
           ServiceAction(action, T)
    PROVE  IInv'
  <1>1. /\ job.kind = "none" /\ config
        /\ UNCHANGED <<os, account, files, job, stained, units, config, stacks, removed>>
    BY DEF ServiceAction, Command, KeepStacks, KeepFiles
  <1>2. PICK done \in SUBSET ServiceNodes(action, T) : Act(action, done)
    BY DEF ServiceAction
  <1>3. done \subseteq {n \in Nodes : n[1] \in DOMAIN stacks}
    BY <1>2, ServiceNodesHaveStacks DEF ServiceAction
  <1>4. Services' /\ running' \subseteq running \cup done /\ enabled \subseteq enabled' \cup done
    BY <1>1, <1>2, <1>3, ActIsManagerCall, ActKeeps DEF IInv, HostInv
  <1>5. OrphansWereRemoved'
    BY <1>1, <1>3, <1>4, NoNewOrphans DEF IInv, HostInv
  <1>6. FilesInv'
    BY <1>1, FilesFrame DEF IInv
  <1> QED
    BY <1>1, <1>4, <1>5, <1>6, ConfigStays, NotUninstalling DEF IInv, HostInv, Stacks

\* adding a stack,
LEMMA AddStackIInv ==
    ASSUME IInv, NEW s \in StackNames, NEW shape, AddStack(s, shape)
    PROVE  IInv'
  <1>1. /\ job.kind = "none" /\ UNCHANGED <<os, account, files, job, stained>>
        /\ UNCHANGED <<config, units, loaded, running, enabled, removed>>
        /\ DOMAIN stacks' = DOMAIN stacks \cup {s} /\ config
    BY DEF AddStack, Command, KeepFiles
  <1>2. Services' /\ FilesInv'
    BY <1>1, ServicesFrame, FilesFrame DEF IInv
  <1>3. Stacks' /\ OrphansWereRemoved'
    BY <1>1 DEF IInv, HostInv, Stacks, OrphansWereRemoved, Linux
  <1> QED
    BY <1>1, <1>2, <1>3, ConfigStays, NotUninstalling DEF IInv, HostInv

\* removing one,
LEMMA RemoveStackIInv ==
    ASSUME IInv, NEW s \in StackNames, RemoveStack(s)
    PROVE  IInv'
  <1>1. /\ job.kind = "none" /\ UNCHANGED <<os, account, files, job, stained>>
        /\ UNCHANGED <<config, units, loaded, running, enabled>>
        /\ DOMAIN stacks' = DOMAIN stacks \ {s} /\ removed' = removed \cup {s} /\ config
    BY DEF RemoveStack, Command, KeepFiles
  <1>2. Services' /\ FilesInv'
    BY <1>1, ServicesFrame, FilesFrame DEF IInv
  <1>3. Stacks' /\ OrphansWereRemoved'
    BY <1>1 DEF IInv, HostInv, Stacks, OrphansWereRemoved, Linux
  <1> QED
    BY <1>1, <1>2, <1>3, ConfigStays, NotUninstalling DEF IInv, HostInv

\* editing one,
LEMMA EditStackIInv ==
    ASSUME IInv, NEW s \in StackNames, NEW shape, NEW root \in BOOLEAN, EditStack(s, shape, root)
    PROVE  IInv'
  <1> DEFINE active == {n \in Active : n[1] = s} \cap (OnNodes)'
  <1>1. /\ job.kind = "none" /\ UNCHANGED <<os, job, config, units, removed>>
        /\ DOMAIN stacks' = DOMAIN stacks /\ config
        /\ \/ UNCHANGED <<files, stained, loaded, running, enabled>>
           \/ /\ repairServiceMetadata(root)
              /\ \E done \in SUBSET active : ManagerRestart(done)
    BY DEF EditStack, Command
  <1>2. FilesInv'
    BY <1>1, FilesRepaired DEF IInv
  <1>3. active \subseteq {n \in Nodes : n[1] \in DOMAIN stacks'}
    BY DEF OnNodes
  <1>4. CASE UNCHANGED <<loaded, running, enabled>>
    BY <1>1, <1>2, <1>4, ServicesFrame, ConfigStays, NotUninstalling
    DEF IInv, HostInv, Stacks, OrphansWereRemoved, Linux
  <1>5. ASSUME NEW done \in SUBSET active, ManagerRestart(done)
        PROVE  IInv'
    <2>1. Services' /\ running' \subseteq running \cup done /\ enabled \subseteq enabled' \cup done
      BY <1>1, <1>3, <1>5, ActKeeps DEF IInv, HostInv
    <2>2. OrphansWereRemoved'
      BY <1>1, <1>3, <2>1, NoNewOrphans DEF IInv, HostInv
    <2> QED
      BY <1>1, <1>2, <2>1, <2>2, ConfigStays, NotUninstalling DEF IInv, HostInv, Stacks
  <1> QED
    BY <1>1, <1>4, <1>5

\* What still runs when an import has stopped the services of the stacks there were is none of
\* theirs, and was left by remove or uninstall or started at boot.
LEMMA ImportStops ==
    ASSUME HostInv, ManagerStop(importServiceCandidates \cap Active)
    PROVE  /\ running' \subseteq running /\ enabled' = enabled
           /\ config => \A n \in running' : n[1] \notin DOMAIN stacks
           /\ \A n \in running' : n[1] \in removed \/ (Linux /\ n \in enabled)
  <1>1. running' = running \ (importServiceCandidates \cap running) /\ enabled' = enabled
    BY DEF ManagerStop, Active
  <1>2. running \subseteq Nodes
    BY DEF HostInv, Services
  <1>3. CASE config
    <2>1. \A n \in running' : n[1] \notin DOMAIN stacks
      BY <1>1, <1>2, <1>3 DEF importServiceCandidates
    <2> QED
      BY <1>1, <2>1 DEF HostInv, OrphansWereRemoved
  <1>4. CASE ~config
    BY <1>1, <1>4 DEF HostInv, Configless
  <1> QED
    BY <1>3, <1>4

\* A restore that is cut short leaves no stack on whose services run, if there is no config.
LEMMA RestoreConfigless ==
    ASSUME HostInv, NEW backup, RestoreInterrupted(backup), UNCHANGED <<os, removed>>,
           ManagerStop(importServiceCandidates \cap Active)
    PROVE  Configless'
  <1>1. CASE config' = TRUE
    BY <1>1, ConfigThere
  <1>2. CASE stacks' \in {stacks, <<>>}
    <2>1. DOMAIN stacks' \subseteq DOMAIN stacks /\ \A s \in DOMAIN stacks' : stacks'[s] = stacks[s]
      BY <1>2, EmptyFunction
    <2>2. OnNodes' \subseteq OnNodes
      BY <2>1, FewerStacksFewerOn
    <2>3. \A n \in running' : n[1] \in removed' \/ (Linux' /\ n \in enabled')
      BY ImportStops DEF Linux
    <2>4. \A n \in running' \cap OnNodes' : Linux' /\ n \in enabled'
      <3>1. CASE config
        <4>1. \A n \in running' : n \notin OnNodes'
          BY <2>2, <3>1, ImportStops, OnNodesHaveStacks
        <4> QED
          BY <4>1
      <3>2. CASE ~config
        BY <2>2, <3>2, ImportStops DEF HostInv, Configless, Linux
      <3> QED
        BY <3>1, <3>2
    <2> QED
      BY <2>3, <2>4 DEF Configless
  <1> QED
    BY <1>1, <1>2 DEF RestoreInterrupted

\* an import,
LEMMA ImportIInv ==
    ASSUME IInv, NEW start \in Starts, Import(start.stacks)
    PROVE  IInv'
  <1> DEFINE active == importServiceCandidates \cap Active
  <1>1. job.kind = "none" /\ UNCHANGED <<os, account, job, units, removed>>
    BY DEF Import, Command
  <1>2. active \subseteq {n \in Nodes : n[1] \in DOMAIN stacks}
    BY DEF importServiceCandidates
  <1>3. CASE /\ ManagerStop(active)
             /\ \/ config' = TRUE /\ stacks' = start.stacks
                \/ RestoreInterrupted(start.stacks)
             /\ \/ repairServiceMetadata(TRUE)
                \/ UNCHANGED <<files, stained>>
    <2>1. FilesInv'
      BY <1>1, <1>3, FilesRepaired DEF IInv
    <2>2. Services'
      BY <1>1, <1>2, <1>3, ActKeeps DEF IInv, HostInv
    <2>3. Stacks'
      <3>1. DOMAIN start.stacks \subseteq StackNames
        BY StartsAssumption
      <3> QED
        BY <1>3, <3>1, EmptyFunction DEF RestoreInterrupted, IInv, HostInv, Stacks
    <2>4. OrphansWereRemoved'
      BY <1>1, <1>3, ImportStops DEF IInv, OrphansWereRemoved, Linux
    <2>5. Configless'
      BY <1>1, <1>3, ConfigThere, RestoreConfigless DEF IInv
    <2> QED
      BY <1>1, <2>1, <2>2, <2>3, <2>4, <2>5, NotUninstalling DEF IInv, HostInv
  <1>4. ASSUME NEW done \in SUBSET active, ManagerStop(done), UNCHANGED <<config, stacks, files, stained>>
        PROVE  IInv'
    <2>1. FilesInv'
      BY <1>1, <1>4, FilesFrame DEF IInv
    <2>2. Services' /\ running' \subseteq running /\ enabled' = enabled
      BY <1>1, <1>2, <1>4, ActKeeps DEF IInv, HostInv, ManagerStop
    <2>3. Stacks' /\ Configless' /\ OrphansWereRemoved'
      BY <1>1, <1>4, <2>2, ConfiglessFrame, OrphansFrame DEF IInv, HostInv, Stacks
    <2> QED
      BY <1>1, <2>1, <2>2, <2>3, NotUninstalling DEF IInv, HostInv
  <1> QED
    BY <1>3, <1>4 DEF Import

\* the stop that begins an uninstall,
LEMMA UninstallStopIInv ==
    ASSUME IInv, UninstallStop
    PROVE  IInv'
  <1>1. /\ job.kind = "none" /\ UNCHANGED <<os, account, files, stained, units>>
        /\ UNCHANGED <<config, stacks, removed>>
    BY DEF UninstallStop, Command, KeepDisk
  <1>2. PICK done \in SUBSET uninstallServiceNames :
          /\ (done = uninstallServiceNames /\ Phase("units")) \/ UNCHANGED job
          /\ ManagerStop(done)
    BY DEF UninstallStop, Fully, Partly
  <1>3. uninstallServiceNames \subseteq Nodes
    BY OnNodesHaveStacks DEF uninstallServiceNames
  <1>4. Services' /\ running' = running \ done /\ enabled' = enabled
    BY <1>1, <1>2, <1>3, ActKeeps DEF IInv, HostInv, ManagerStop
  <1>5. Stacks' /\ Configless' /\ OrphansWereRemoved'
    BY <1>1, <1>4, ConfiglessFrame, OrphansFrame DEF IInv, HostInv, Stacks
  <1>6. CASE UNCHANGED job
    BY <1>1, <1>4, <1>5, <1>6, FilesFrame, NotUninstalling DEF IInv, HostInv
  <1>7. CASE done = uninstallServiceNames /\ Phase("units")
    <2>1. JobShape' /\ Undoable' /\ job'.kind = "units"
      BY <1>7, IdleShape DEF Phase
    <2>2. FilesShape' /\ BinariesOwned'
      BY <1>1 DEF IInv, FilesInv, FilesShape, BinariesOwned, Installing
    <2>3. UninstalledIsStopped'
      <3>1. CASE config
        BY <1>1, <1>4, <1>7, <3>1, OnNodesFrame DEF uninstallServiceNames, UninstalledIsStopped
      <3>2. CASE ~config
        BY <1>1, <1>5, <3>2 DEF Configless, UninstalledIsStopped
      <3> QED
        BY <3>1, <3>2
    <2> QED
      BY <1>4, <1>5, <2>1, <2>2, <2>3 DEF IInv, HostInv, FilesInv
  <1> QED
    BY <1>2, <1>6, <1>7

\* its removal of the service files,
LEMMA UninstallFilesIInv ==
    ASSUME IInv, UninstallFiles
    PROVE  IInv'
  <1>1. /\ job.kind = "units" /\ UNCHANGED <<os, account, files, stained>>
        /\ UNCHANGED <<config, stacks, removed, enabled>>
        /\ \E ok \in BOOLEAN : UninstallUnits(Nodes, ok)
        /\ job' = NoJob \/ Phase("entries")
    BY DEF UninstallFiles, KeepDisk
  <1>2. Services' /\ running' \subseteq running
    BY <1>1, UninstallUnitsKeeps DEF IInv, HostInv
  <1>3. JobShape' /\ Undoable' /\ job'.kind \in {"none", "entries"}
    BY <1>1, IdleShape DEF Phase
  <1>4. FilesShape' /\ BinariesOwned'
    BY <1>1 DEF IInv, FilesInv, FilesShape, BinariesOwned, Installing
  <1>5. Stacks' /\ Configless' /\ OrphansWereRemoved'
    BY <1>1, <1>2, ConfiglessFrame, OrphansFrame DEF IInv, HostInv, Stacks
  <1>6. UninstalledIsStopped'
    BY <1>1, <1>2, OnNodesFrame DEF IInv, HostInv, UninstalledIsStopped, Linux
  <1> QED
    BY <1>2, <1>3, <1>4, <1>5, <1>6 DEF IInv, HostInv, FilesInv

\* its removal of everything else,
LEMMA UninstallEntriesIInv ==
    ASSUME IInv, NEW purge \in BOOLEAN, UninstallEntries(purge)
    PROVE  IInv'
  <1>1. /\ job.kind = "entries" /\ job' = NoJob
        /\ UNCHANGED <<os, stained, units, loaded, running, enabled>>
        /\ files' = <<>> \/ files' \in Restrictions(files)
        /\ \/ UNCHANGED <<config, stacks, removed>>
           \/ /\ stacks' = <<>> \/ stacks' \in Restrictions(stacks)
              /\ removed' = removed \cup DOMAIN stacks
    BY DEF UninstallEntries, KeepStacks
  <1>2. JobShape' /\ Undoable' /\ job'.kind = "none"
    BY <1>1, IdleShape
  <1>3. FilesShape' /\ BinariesOwned'
    <2>1. CASE files' = <<>>
      BY <2>1, EmptyFunction DEF FilesShape, BinariesOwned
    <2>2. ASSUME NEW kept \in SUBSET DOMAIN files, files' = [f \in kept |-> files[f]]
          PROVE  FilesShape' /\ BinariesOwned'
      <3>1. DOMAIN files' = kept /\ \A f \in kept : files'[f] = files[f]
        BY <2>2
      <3>2. DOMAIN files' \subseteq Paths
        BY <3>1 DEF IInv, FilesInv, FilesShape
      <3>3. \A f \in kept : files'[f] = [data |-> files'[f].data, owner |-> files'[f].owner]
        BY <3>1 DEF IInv, FilesInv, FilesShape
      <3>4. FilesShape'
        BY <2>2, <3>1, <3>2, <3>3 DEF FilesShape
      <3> QED
        BY <1>1, <3>1, <3>4 DEF IInv, FilesInv, BinariesOwned, Installing
    <2> QED
      BY <1>1, <2>1, <2>2 DEF Restrictions
  <1>4. Services'
    BY <1>1, ServicesFrame DEF IInv
  <1>5. CASE UNCHANGED <<config, stacks, removed>>
    <2>1. Stacks' /\ Configless' /\ OrphansWereRemoved'
      BY <1>1, <1>5, ConfiglessFrame, OrphansFrame DEF IInv, HostInv, Stacks
    <2> QED
      BY <1>2, <1>3, <1>4, <2>1, NotUninstalling DEF IInv, HostInv, FilesInv
  <1>6. CASE /\ stacks' = <<>> \/ stacks' \in Restrictions(stacks)
             /\ removed' = removed \cup DOMAIN stacks
    <2>1. DOMAIN stacks' \subseteq DOMAIN stacks /\ \A s \in DOMAIN stacks' : stacks'[s] = stacks[s]
      BY <1>6, EmptyFunction DEF Restrictions
    <2>2. OnNodes' \subseteq OnNodes
      BY <2>1, FewerStacksFewerOn
    <2>3. Stacks' /\ OrphansWereRemoved'
      BY <1>1, <1>6, <2>1 DEF IInv, HostInv, Stacks, OrphansWereRemoved, Linux
    <2>4. Configless'
      BY <1>1, <1>6, <2>2
      DEF IInv, HostInv, UninstalledIsStopped, OrphansWereRemoved, Configless, Linux
    <2> QED
      BY <1>2, <1>3, <1>4, <2>3, <2>4, NotUninstalling DEF IInv, HostInv, FilesInv
  <1> QED
    BY <1>1, <1>5, <1>6

\* its death on the way,
LEMMA KillUninstallIInv ==
    ASSUME IInv, KillUninstall
    PROVE  IInv'
  <1>1. /\ job.kind \in {"units", "entries"} /\ job' = NoJob
        /\ UNCHANGED <<os, account, files, stained, units, loaded, running, enabled>>
        /\ UNCHANGED <<config, stacks, removed>>
    BY DEF KillUninstall, KeepDisk
  <1>2. JobShape' /\ Undoable' /\ job'.kind = "none"
    BY <1>1, IdleShape
  <1>3. FilesShape' /\ BinariesOwned'
    BY <1>1 DEF IInv, FilesInv, FilesShape, BinariesOwned, Installing
  <1>4. Services'
    BY <1>1, ServicesFrame DEF IInv
  <1>5. Stacks' /\ Configless' /\ OrphansWereRemoved'
    BY <1>1, ConfiglessFrame, OrphansFrame DEF IInv, HostInv, Stacks
  <1> QED
    BY <1>2, <1>3, <1>4, <1>5, NotUninstalling DEF IInv, HostInv, FilesInv

\* What systemd starts at boot was enabled.
LEMMA RebootIInv ==
    ASSUME IInv, Reboot
    PROVE  IInv'
  <1>1. /\ job.kind = "none" /\ UNCHANGED <<os, account, files, job, stained, units, enabled>>
        /\ UNCHANGED <<config, stacks, removed>>
        /\ running' = IF Linux THEN {n \in enabled : Startable(n) /\ Runnable(n)} ELSE {}
        /\ loaded' = IF Linux THEN loaded ELSE units \cap enabled
    BY DEF Reboot, KeepFiles, KeepStacks
  <1>2. FilesInv'
    BY <1>1, FilesFrame DEF IInv
  <1>3. running' \subseteq enabled /\ (~Linux => running' = {})
    BY <1>1
  <1>4. Services'
    BY <1>1, <1>3 DEF IInv, HostInv, Services, Linux
  <1>5. Stacks' /\ Configless' /\ OrphansWereRemoved'
    BY <1>1, <1>3 DEF IInv, HostInv, Stacks, Configless, OrphansWereRemoved, Linux
  <1> QED
    BY <1>1, <1>2, <1>4, <1>5, NotUninstalling DEF IInv, HostInv

\* the exit of a service process,
LEMMA ExitIInv ==
    ASSUME IInv, NEW n \in Nodes, Exit(n)
    PROVE  IInv'
  <1>1. /\ UNCHANGED <<os, account, files, job, stained, units, loaded, enabled>>
        /\ UNCHANGED <<config, stacks, removed>>
        /\ running' \subseteq running
    BY DEF Exit, KeepFiles, KeepStacks
  <1>2. FilesInv'
    BY <1>1, FilesFrame DEF IInv
  <1>3. Services'
    BY <1>1 DEF IInv, HostInv, Services, Linux
  <1>4. Stacks' /\ Configless' /\ OrphansWereRemoved'
    BY <1>1, ConfiglessFrame, OrphansFrame DEF IInv, HostInv, Stacks
  <1>5. UninstalledIsStopped'
    BY <1>1, OnNodesFrame DEF IInv, HostInv, UninstalledIsStopped, Linux
  <1> QED
    BY <1>2, <1>3, <1>4, <1>5 DEF IInv, HostInv

\* and a step that changes nothing:
LEMMA StutterIInv ==
    ASSUME IInv, UNCHANGED vars
    PROVE  IInv'
  <1>1. FilesInv' /\ Services'
    BY FilesFrame, ServicesFrame DEF IInv, vars, installVars, hostVars
  <1>2. Stacks' /\ Configless' /\ OrphansWereRemoved'
    BY ConfiglessFrame, OrphansFrame DEF IInv, HostInv, Stacks, vars, installVars, hostVars
  <1>3. UninstalledIsStopped'
    BY OnNodesFrame
    DEF IInv, HostInv, UninstalledIsStopped, Linux, vars, installVars, hostVars
  <1> QED
    BY <1>1, <1>2, <1>3 DEF IInv, HostInv

\* every step keeps the invariant.
LEMMA NextIInv ==
    ASSUME IInv, [Next]_vars
    PROVE  IInv'
  BY InstallStepIInv, InstallCommandIInv, SetupLocalIInv, ServiceFilesIInv, ServiceActionIInv,
     LifecycleIInv, AddStackIInv, EditStackIInv, RemoveStackIInv, ImportIInv, UninstallStopIInv,
     UninstallFilesIInv, KillUninstallIInv, UninstallEntriesIInv, RebootIInv, ExitIInv, StutterIInv
  DEF Next

\* The inductive invariant holds in every behaviour.
THEOREM Invariance == Spec => []IInv
  <1>1. Init => IInv
    BY InitIInv
  <1>2. IInv /\ [Next]_vars => IInv'
    BY NextIInv
  <1> QED
    BY <1>1, <1>2, PTL DEF Spec

(***************************************************************************)
(* Invariants.                                                             *)
(***************************************************************************)

\* The variables keep their types.
THEOREM TypeCorrect == Spec => []TypeOK
  <1>1. IInv => TypeOK
    BY DEF IInv, HostInv, Services, Stacks, FilesInv, FilesShape, JobShape, Paths, Single, TypeOK
  <1> QED
    BY <1>1, Invariance, PTL

\* Under launchd what runs is loaded and what is loaded has its plist, also when a loop over plists
\* fails between booting out and removing (UninstallUnits, removeStaleLaunchdPlists).
THEOREM JobsStayAddressable == Spec => []JobsAddressable
  <1>1. IInv => JobsAddressable
    BY DEF IInv, HostInv, Services, JobsAddressable
  <1> QED
    BY <1>1, Invariance, PTL

\* When uninstall begins to delete, no service of a stack that is on runs, unless an import that
\* was killed has left no config and systemd started the service at boot (runUninstall).
THEOREM UninstallSafe == Spec => []UninstalledIsStopped
  <1>1. IInv => UninstalledIsStopped
    BY DEF IInv, HostInv
  <1> QED
    BY <1>1, Invariance, PTL

\* A service whose stack is gone was left by remove or uninstall, or started at boot
\* (importServiceCandidates).
THEOREM NoOrphans == Spec => []OrphansWereRemoved
  <1>1. IInv => OrphansWereRemoved
    BY DEF IInv, HostInv
  <1> QED
    BY <1>1, Invariance, PTL

\* On Linux a binary that the service account cannot execute comes of an install that runs, has
\* failed or was killed (repairServiceMetadata).
THEOREM BinariesStayOwned == Spec => []BinariesOwned
  <1>1. IInv => BinariesOwned
    BY DEF IInv, FilesInv
  <1> QED
    BY <1>1, Invariance, PTL

(***************************************************************************)
(* Steps.                                                                  *)
(***************************************************************************)

\* A write that fails is taken back (writeTargetFiles, rollback).
THEOREM ReplacedAsOne == Spec => ReplacedTogether
  <1>1. IInv /\ [Next]_vars =>
          [WriteFails /\ rollback({}) => DataOf(files') = DataOf(job.before)]_installVars
    BY WriteFailsRestores DEF IInv
  <1> QED
    BY <1>1, Invariance, PTL DEF Spec, ReplacedTogether

\* What start or restart by root reports as started runs (checkRequiredBinaries,
\* repairServiceMetadata, Manager.Start, Manager.Restart).
THEOREM StartedMeansRuns == Spec => StartedRuns
  <1>1. ASSUME IInv, NEW action \in {"start", "restart"}, NEW T \in Targets,
               Lifecycle(action, T, TRUE, TRUE)
        PROVE  Scope(T) \subseteq running'
    <2>1. /\ os' = os /\ repairServiceMetadata(TRUE)
          /\ \A n \in Scope(T) : Binary(n) \in DOMAIN files
          /\ Act(action, Scope(T))
      BY <1>1 DEF Lifecycle, Outcome, Fully, checkRequiredBinaries
    <2>2. \A n \in Scope(T) : Runnable(n)'
      <3>1. CASE Linux
        <4>1. files' = [f \in DOMAIN files |-> [data |-> files[f].data, owner |-> "proxystack"]]
          BY <1>1, <2>1, <3>1, RepairShape DEF IInv, FilesInv, repairServiceMetadata, Linux
        <4>2. \A f \in DOMAIN files : f \in DOMAIN files' /\ files'[f].owner = "proxystack"
          BY <4>1
        <4> QED
          BY <2>1, <4>2 DEF Runnable, Binary
      <3>2. CASE ~Linux
        <4>1. files' = files
          BY <2>1, <3>2 DEF repairServiceMetadata, Linux
        <4> QED
          BY <2>1, <3>2, <4>1 DEF Runnable, Binary, Linux
      <3> QED
        BY <3>1, <3>2
    <2>3. Scope(T) \subseteq Nodes
      BY OnNodesHaveStacks DEF Scope
    <2> QED
      BY <2>1, <2>2, <2>3 DEF Act, ManagerStart, ManagerRestart
  <1>2. IInv /\ [Next]_vars =>
          [\A action \in {"start", "restart"}, T \in Targets :
             Lifecycle(action, T, TRUE, TRUE) => Scope(T) \subseteq running']_vars
    BY <1>1
  <1> QED
    BY <1>2, Invariance, PTL DEF Spec, StartedRuns

\* service uninstall of a target leaves what the other stacks need
\* (componentUsedOutsideTarget).
THEOREM TemplatesKept == Spec => SharedTemplateKept
  <1>1. ASSUME IInv, NEW T \in Targets, ServiceUninstall(T), NEW n \in OnNodes \ T, Startable(n)
        PROVE  Startable(n)'
    <2>1. UNCHANGED <<os, enabled>> /\ \E ok \in BOOLEAN : UninstallUnits(T, ok)
      BY <1>1 DEF ServiceUninstall, KeepFiles
    <2>2. T # Nodes /\ n \notin Scope(T)
      BY <1>1, OnNodesHaveStacks DEF Scope
    <2>3. CASE Linux
      <3>1. n[2] \notin selectUnitFilesForUninstall(T)
        BY <1>1, <2>2 DEF selectUnitFilesForUninstall
      <3> QED
        BY <1>1, <2>1, <2>3, <3>1 DEF UninstallUnits, SystemdUninstallUnits, Startable, Linux
    <2>4. CASE ~Linux
      <3>1. n \notin managedLaunchdPatterns(T)
        BY <2>2 DEF managedLaunchdPatterns
      <3> QED
        BY <1>1, <2>1, <2>4, <3>1
        DEF UninstallUnits, LaunchdUninstallUnits, RemovePlists, bootoutIfLoaded, Startable, Linux
    <2> QED
      BY <2>3, <2>4
  <1>2. IInv /\ [Next]_vars =>
          [\A T \in Targets : ServiceUninstall(T) =>
             \A n \in OnNodes \ T : Startable(n) => Startable(n)']_vars
    BY <1>1
  <1> QED
    BY <1>2, Invariance, PTL DEF Spec, SharedTemplateKept

(***************************************************************************)
(* An install that ends well.                                              *)
(***************************************************************************)

\* A target has the files it can have.
Complete(t) ==
    \A f \in targetPaths(t) :
        \/ f \in DOMAIN files
        \/ \E lost \in Losses : \E got \in Extracted(t, job.request, lost) : f \notin DOMAIN got

\* While an install runs: what it is asked for is still to come or complete, and of the target
\* that is written each file of its source is there or still to be written.
Finished ==
    Installing =>
        /\ \A t \in ToSet(job.asked) : t \in ToSet(job.queue) \/ Complete(t)
        /\ job.pending # <<>> =>
             \E lost \in Losses : \E got \in Extracted(Head(job.queue), job.request, lost) :
                 DOMAIN got \subseteq DOMAIN files \cup DOMAIN job.pending

\* What is complete stays complete while files are only added.
LEMMA CompleteStays ==
    ASSUME NEW t, Complete(t), job'.request = job.request, DOMAIN files \subseteq DOMAIN files'
    PROVE  Complete(t)'
  BY DEF Complete

\* The first of the targets is done, the others are left.
LEMMA NextTargets ==
    ASSUME NEW q \in Seq(Single), q # <<>>
    PROVE  \A t \in ToSet(q) : t = Head(q) \/ t \in ToSet(Tail(q))
  <1> TAKE t \in ToSet(q)
  <1>1. PICK k \in 1..Len(q) : q[k] = t
    BY DEF ToSet
  <1>2. CASE k = 1
    BY <1>1, <1>2
  <1>3. CASE k # 1
    <2>1. Tail(q) \in Seq(Single) /\ k - 1 \in 1..Len(Tail(q)) /\ Tail(q)[k - 1] = t
      BY <1>1, <1>3
    <2>2. DOMAIN Tail(q) = 1..Len(Tail(q))
      BY <2>1
    <2> QED
      BY <2>1, <2>2 DEF ToSet
  <1> QED
    BY <1>2, <1>3

\* A target is skipped because it is there,
LEMMA SkipTargetFinished ==
    ASSUME FilesInv, Finished, SkipTarget
    PROVE  Finished'
  <1>1. /\ job'.kind = job.kind /\ job'.request = job.request /\ job'.asked = job.asked
        /\ job'.queue = Tail(job.queue) /\ job'.pending = job.pending /\ files' = files
    BY DEF SkipTarget, FilesInv, JobShape
  <1>2. Installing /\ job.pending = <<>> /\ job.queue \in Seq(Single) /\ job.queue # <<>>
    BY DEF SkipTarget, NextTarget, FilesInv, JobShape
  <1>3. Complete(Head(job.queue))
    BY DEF SkipTarget, allExist, Complete
  <1>4. \A t \in ToSet(job'.asked) : t \in ToSet(job'.queue) \/ Complete(t)'
    BY <1>1, <1>2, <1>3, NextTargets, CompleteStays DEF Finished
  <1> QED
    BY <1>1, <1>2, <1>4 DEF Finished

\* fetched,
LEMMA FetchTargetFinished ==
    ASSUME FilesInv, Finished, FetchTarget
    PROVE  Finished'
  <1>1. PICK lost \in Losses : \E got \in Extracted(Head(job.queue), job.request, lost) :
            job' = [job EXCEPT !.pending = got, !.saved = <<>>, !.created = {}, !.before = files]
    BY DEF FetchTarget
  <1> PICK got \in Extracted(Head(job.queue), job.request, lost) :
            job' = [job EXCEPT !.pending = got, !.saved = <<>>, !.created = {}, !.before = files]
    BY <1>1
  <1>2. /\ job'.kind = job.kind /\ job'.request = job.request /\ job'.asked = job.asked
        /\ job'.queue = job.queue /\ job'.pending = got /\ files' = files
    BY <1>1 DEF FetchTarget, FilesInv, JobShape
  <1>3. Installing
    BY DEF FetchTarget, NextTarget
  <1>4. \A t \in ToSet(job'.asked) : t \in ToSet(job'.queue) \/ Complete(t)'
    BY <1>2, <1>3, CompleteStays DEF Finished
  <1> QED
    BY <1>2, <1>3, <1>4 DEF Finished

\* and written, file by file; with the last of them it is complete.
LEMMA WriteFileFinished ==
    ASSUME FilesInv, Finished, WriteFile
    PROVE  Finished'
  <1> DEFINE f == NextFile
             rest == [g \in DOMAIN job.pending \ {f} |-> job.pending[g]]
  <1> PICK head : head = Head(job.queue)
    OBVIOUS
  <1>1. f \in DOMAIN job.pending /\ Installing /\ job.pending # <<>>
    BY NextFileIsPending DEF WriteFile, FilesInv
  <1>2. /\ job'.kind = job.kind /\ job'.request = job.request /\ job'.asked = job.asked
        /\ job'.queue = (IF rest = <<>> THEN Tail(job.queue) ELSE job.queue)
        /\ job'.pending = rest
    BY DEF WriteFile, FilesInv, JobShape
  <1>3. DOMAIN files' = DOMAIN files \cup {f}
    BY DEF WriteFile
  <1>4. job.queue \in Seq(Single) /\ job.queue # <<>> /\ head \in Single
    BY <1>1 DEF FilesInv, JobShape
  <1>5. PICK lost \in Losses : \E got \in Extracted(head, job.request, lost) :
            DOMAIN got \subseteq DOMAIN files \cup DOMAIN job.pending
    BY <1>1 DEF Finished
  <1> PICK got \in Extracted(head, job.request, lost) :
            DOMAIN got \subseteq DOMAIN files \cup DOMAIN job.pending
    BY <1>5
  <1>6. DOMAIN got \subseteq DOMAIN files' \cup DOMAIN rest
    BY <1>3, <1>5
  <1>7. CASE rest = <<>>
    <2>1. DOMAIN got \subseteq DOMAIN files'
      BY <1>6, <1>7, EmptyFunction
    <2>2. Complete(head)'
      BY <1>2, <2>1 DEF Complete
    <2>3. \A t \in ToSet(job'.asked) : t \in ToSet(job'.queue) \/ Complete(t)'
      BY <1>1, <1>2, <1>3, <1>4, <1>7, <2>2, NextTargets, CompleteStays DEF Finished
    <2> QED
      BY <1>1, <1>2, <1>7, <2>3 DEF Finished
  <1>8. CASE rest # <<>>
    <2>1. \A t \in ToSet(job'.asked) : t \in ToSet(job'.queue) \/ Complete(t)'
      BY <1>1, <1>2, <1>3, <1>8, CompleteStays DEF Finished
    <2> QED
      BY <1>1, <1>2, <1>6, <1>8, <2>1 DEF Finished
  <1> QED
    BY <1>7, <1>8

\* A job that begins has everything to come.
LEMMA BeginInstallFinished ==
    ASSUME NEW target, NEW force, NEW request, BeginInstall(target, force, request)
    PROVE  Finished'
  <1>1. /\ job'.request = request /\ job'.queue = job'.asked /\ job'.pending = <<>>
    BY DEF BeginInstall, NoJob
  <1> QED
    BY <1>1 DEF Finished

\* Where no install runs afterwards, or where neither it nor the files change, nothing is to be
\* shown.
LEMMA FinishedFrame ==
    ASSUME Finished, job'.kind # "install" \/ UNCHANGED <<job, files>>
    PROVE  Finished'
  BY DEF Finished, Installing, Complete

\* Only a step of an install and a process that exits come between its steps.
LEMMA NextFinished ==
    ASSUME IInv, Finished, [Next]_vars
    PROVE  Finished'
  <1>0. NoJob.kind # "install" /\ \A kind : [NoJob EXCEPT !.kind = kind].kind = kind
    BY DEF NoJob
  <1>1. CASE InstallStep
    <2>1. CASE SkipTarget \/ FetchTarget \/ WriteFile
      BY <2>1, SkipTargetFinished, FetchTargetFinished, WriteFileFinished DEF IInv
    <2>2. CASE FetchFails \/ WriteFails \/ EndInstall \/ KillInstall
      BY <1>0, <2>2, FinishedFrame DEF FetchFails, WriteFails, EndInstall, KillInstall, Abort
    <2> QED
      BY <1>1, <2>1, <2>2 DEF InstallStep
  <1>2. ASSUME NEW target, NEW force, NEW request, InstallCommand(target, force, request)
        PROVE  Finished'
    BY <1>2, BeginInstallFinished DEF InstallCommand
  <1>3. ASSUME NEW deps, SetupLocal(deps)
        PROVE  Finished'
    <2>1. BeginInstall("all", FALSE, NoRequest) \/ (job' = job /\ job.kind = "none")
      BY <1>3 DEF SetupLocal, Command
    <2> QED
      BY <2>1, BeginInstallFinished, FinishedFrame
  <1>4. ASSUME NEW T, \/ ServiceInstall(T) \/ ServiceUninstall(T)
                      \/ \E action : ServiceAction(action, T)
                      \/ \E action, root, full : Lifecycle(action, T, root, full)
        PROVE  Finished'
    BY <1>4, FinishedFrame
    DEF ServiceInstall, ServiceUninstall, ServiceAction, Lifecycle, Command, KeepFiles
  <1>5. ASSUME NEW s, \/ RemoveStack(s) \/ \E shape : AddStack(s, shape)
                      \/ \E shape, root : EditStack(s, shape, root)
        PROVE  Finished'
    BY <1>5, FinishedFrame DEF RemoveStack, AddStack, EditStack, Command, KeepFiles
  <1>6. ASSUME NEW backup, Import(backup)
        PROVE  Finished'
    BY <1>6, FinishedFrame DEF Import, Command
  <1>7. CASE UninstallStop \/ UninstallFiles \/ KillUninstall \/ \E purge : UninstallEntries(purge)
    <2>1. job'.kind # "install"
      BY <1>0, <1>7 DEF UninstallStop, UninstallFiles, KillUninstall, UninstallEntries, Command, Phase
    <2> QED
      BY <2>1, FinishedFrame
  <1>8. CASE Reboot \/ (\E n : Exit(n)) \/ UNCHANGED vars
    BY <1>8, FinishedFrame DEF Reboot, Exit, KeepFiles, vars, installVars
  <1> QED
    BY <1>1, <1>2, <1>3, <1>4, <1>5, <1>6, <1>7, <1>8 DEF Next

\* install and update that end well leave every file of every target, but for a geo file that the
\* archive does not have (InstallTarget, installOne).
THEOREM InstallsComplete == Spec => InstallCompletes
  <1>1. Init => Finished
    BY DEF Init, Finished, Installing, NoJob
  <1>2. IInv /\ Finished /\ [Next]_vars => Finished'
    BY NextFinished
  <1>3. IInv /\ Finished /\ [Next]_vars =>
          [EndInstall =>
             \A t \in ToSet(job.asked) : \A f \in targetPaths(t) :
                \/ f \in DOMAIN files'
                \/ \E lost \in Losses : \E got \in Extracted(t, job.request, lost) :
                      f \notin DOMAIN got]_installVars
    <2>1. SUFFICES ASSUME IInv, Finished, EndInstall,
                          NEW t \in ToSet(job.asked), NEW f \in targetPaths(t)
                   PROVE  \/ f \in DOMAIN files'
                          \/ \E lost \in Losses : \E got \in Extracted(t, job.request, lost) :
                                f \notin DOMAIN got
      OBVIOUS
    <2>2. Installing /\ ToSet(job.queue) = {}
      BY <2>1 DEF EndInstall, ToSet
    <2>3. Complete(t)
      BY <2>1, <2>2 DEF Finished
    <2>4. DOMAIN files' = DOMAIN files
      BY <2>1, RepairShape DEF EndInstall, repairServiceMetadata, IInv, FilesInv
    <2> QED
      BY <2>1, <2>3, <2>4 DEF Complete
  <1> QED
    BY <1>1, <1>2, <1>3, Invariance, PTL DEF Spec, InstallCompletes

================================================================================
