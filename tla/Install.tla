------------------------------- MODULE Install -------------------------------
(***************************************************************************)
(* install, update and setup deps: one target after another is resolved to *)
(* a source, downloaded, unpacked and written to bin/ or geo/, and at the  *)
(* end the owners of what was written are repaired.  A command runs as     *)
(* root; a download, a write or a rollback can fail, and the command can   *)
(* be killed between two writes.                                           *)
(*                                                                         *)
(* A source is [id, remote, format, base, members]: what it holds is known *)
(* by its id, its digest too; members are those of an archive.  Of a       *)
(* version the code looks at the prefix only: <<prefix, number>>.          *)
(***************************************************************************)
EXTENDS Naturals, FiniteSets, SequencesExt

CONSTANTS
    Requests,     \* what install and update may be asked for
    Releases,     \* function from a target to its releases: function from a tag to assets
    Latest,       \* function from a target to the tag of its latest release
    Configured,   \* function from a target to what config.yaml says of it
    MaxFaults     \* bound on what goes wrong

\* Any source but the managed ones is named, and it is one: a URL or a path.
ASSUME SourcesAssumption ==
    \A asked \in Requests \cup {Configured[t] : t \in {"mihomo", "xray", "geo"}} :
        /\ asked.source.mode \in {"", "auto", "github", "r2", "named"}
        /\ asked.source.mode = "named" => DOMAIN asked.source.at = {1}

VARIABLES
    os,       \* "linux" or "darwin"
    account,  \* the user and the group the services run as exist
    files,    \* bin/ and geo/: function from a name to [data, owner]
    job,      \* the command that takes several steps, and where it is
    stained,  \* history: an install has failed or was killed since the owners were repaired
    faults

installVars == <<os, account, files, job, stained, faults>>

Absent == [mode |-> "", at |-> <<>>]    \* a --source or install.source that is not given
NoRequest == [version |-> <<>>, source |-> Absent, sha256 |-> "", member |-> <<>>]
NoJob == [kind |-> "none", force |-> FALSE, request |-> NoRequest, queue |-> <<>>,
          pending |-> <<>>, saved |-> <<>>, created |-> {},
          asked |-> <<>>, before |-> <<>>]    \* history: all targets, and files when one was begun

Fault == faults < MaxFaults /\ faults' = faults + 1

(***************************************************************************)
(* From a request to a source.                                             *)
(***************************************************************************)

\* ExpandTargets
ExpandTargets(target) == IF target = "all" THEN <<"mihomo", "xray", "geo">> ELSE <<target>>

\* targetPaths
targetPaths(target) == IF target = "geo" THEN {"geoip.dat", "geosite.dat"} ELSE {target}

\* What is asked for: the flags, or the config where a flag is not given.
requestConfig(target, request) ==
    LET default == Configured[target]
    IN  [version |-> IF request.version # <<>> THEN request.version ELSE default.version,
         source |-> IF request.source # Absent THEN request.source ELSE default.source,
         sha256 |-> IF request.sha256 # "" THEN request.sha256 ELSE default.sha256,
         member |-> IF request.member # <<>> THEN request.member ELSE default.member]

\* githubReleaseTagCandidates: trimVersionPrefix takes off one v or V.
githubReleaseTagCandidates(target, version) ==
    LET number == <<"", version[2]>>
        first == IF version[1] = "" /\ target # "geo" THEN <<"v", version[2]>> ELSE version
    IN  IF target = "geo" THEN <<first, number>> ELSE <<first, <<"v", version[2]>>, number>>

\* selectGitHubReleaseAsset: the asset of this platform, else a mihomo asset with a like name.
selectGitHubReleaseAsset(target, assets) ==
    LET exact == SelectSeq(assets, LAMBDA a : a.name = "exact")
        similar == SelectSeq(assets, LAMBDA a : target = "mihomo" /\ a.name = "similar")
        fit == exact \o similar
    IN  {fit[k].source : k \in {1} \cap DOMAIN fit}

\* resolveGitHubLatestSources, resolveGitHubVersionSources: the first tag there is, but a tag whose
\* metadata cannot be downloaded is passed over, and so some (lost) are.
resolveGitHubSources(target, version, lost) ==
    LET tags == IF version = <<>> THEN <<Latest[target]>>
                ELSE githubReleaseTagCandidates(target, version)
        found == SelectSeq(tags, LAMBDA tag : tag \in DOMAIN Releases[target])
    IN  UNION {selectGitHubReleaseAsset(target, Releases[target][found[k]]) :
                 k \in {1 + lost} \cap DOMAIN found}

\* isManagedSource
isManagedSource(source) == source.mode # "named"

\* resolveSources: one source, or none if it fails.
resolveSources(target, version, source, lost) ==
    CASE source.mode \in {"", "auto", "github"} -> resolveGitHubSources(target, version, lost)
      [] source.mode = "r2" -> {}
      [] source.mode = "named" -> ToSet(source.at)

\* The sha256 is required of a remote source that is not managed, and checked if it is given.
verifySHA256(asked, source) ==
    /\ ~isManagedSource(asked.source) /\ source.remote => asked.sha256 # ""
    /\ asked.sha256 \in {"", source.id}

(***************************************************************************)
(* From a source to the files of a target.                                 *)
(***************************************************************************)

\* The --archive-member <<dir, base>> names a member by its path, or by its base name alone.
Chosen(m, member) ==
    member = <<>> \/ <<m.dir, m.base>> = member \/ <<"", m.base>> = member

\* selectArchiveMember, and the only member with the name of the binary without one.
selectBinary(members, target, member) ==
    LET named == {m \in members : <<m.dir, m.base>> = member}
        matches == {m \in members : m.base = IF member = <<>> THEN target ELSE member[2]}
    IN  named # {} \/ Cardinality(matches) = 1

\* selectExtractedFiles: of a geo archive one of the two files is enough.
selectExtractedFiles(source, members, target, member) ==
    IF target = "geo"
    THEN LET selected == {m \in members : m.base \in targetPaths("geo")}
         IN  IF selected # {} /\ Cardinality({m.base : m \in selected}) = Cardinality(selected)
             THEN {[f \in {m.base : m \in selected} |-> source.id]} ELSE {}
    ELSE IF selectBinary(members, target, member) THEN {[f \in {target} |-> source.id]} ELSE {}

\* singleTargetFile: what is not an archive is the binary, whatever it is; a geo file keeps its name.
singleTargetFile(source, target) ==
    {[f \in {IF target = "geo" THEN source.base ELSE target} |-> source.id]}

\* ExtractFiles: a link or a path that leaves the archive refuses all of it.
ExtractFiles(source, target, member) ==
    IF source.format \notin {"zip", "tar"} THEN singleTargetFile(source, target)
    ELSE IF \E m \in source.members : ~m.safe THEN {}
    ELSE selectExtractedFiles(source, {m \in source.members : Chosen(m, member)}, target, member)

\* Mutated Extracted: what is extracted is written, whatever its name.
ExtractedAnyName(target, request, lost) ==
    LET asked == requestConfig(target, request)
    IN  UNION {ExtractFiles(s, target, asked.member) :
                 s \in {r \in resolveSources(target, asked.version, asked.source, lost) :
                          verifySHA256(asked, r)}}

\* installOne up to the first write: the files to write, or none if it fails.
Extracted(target, request, lost) ==
    LET asked == requestConfig(target, request)
        sources == {s \in resolveSources(target, asked.version, asked.source, lost) :
                      verifySHA256(asked, s)}
    IN  {f \in UNION {ExtractFiles(s, target, asked.member) : s \in sources} :
           DOMAIN f \subseteq targetPaths(target)}

\* How many of the tags there are, three at most, can be passed over.
Losses == 0..2

(***************************************************************************)
(* The command.                                                            *)
(***************************************************************************)

\* Mutated allExist: one file of the target is enough.
someExist(target) == targetPaths(target) \cap DOMAIN files # {}

\* allExist
allExist(target) == targetPaths(target) \subseteq DOMAIN files

\* Mutated repairServiceMetadata: only when the services are started.
repairNothing(root) == UNCHANGED <<files, stained>>

\* StandardMetadataRules, RepairStandardMetadata: all of bin/ and geo/.
RepairStandardMetadata == [f \in DOMAIN files |-> [files[f] EXCEPT !.owner = "proxystack"]]

\* serviceAccountOwnerIDs: without the account the repair is an error.
CanRepair(root) == os = "linux" /\ root => account

\* repairServiceMetadata: on Linux and by root only.
repairServiceMetadata(root) ==
    IF os = "linux" /\ root THEN files' = RepairStandardMetadata /\ stained' = FALSE
                            ELSE UNCHANGED <<files, stained>>

\* InstallTarget starts.
BeginInstall(target, force, request) ==
    job' = [NoJob EXCEPT !.kind = "install", !.force = force, !.request = request,
                         !.queue = ExpandTargets(target), !.asked = ExpandTargets(target)]

\* The command ends with an error: the owners are not repaired.
Abort == job' = NoJob /\ stained' = TRUE

Installing == job.kind = "install"
NextTarget == Installing /\ job.pending = <<>> /\ job.queue # <<>>

\* installOne: a target that is there is skipped by install.
SkipTarget ==
    /\ NextTarget /\ ~job.force /\ allExist(Head(job.queue))
    /\ job' = [job EXCEPT !.queue = Tail(@)]
    /\ UNCHANGED <<os, account, files, stained, faults>>

\* installOne: downloaded, verified and unpacked.
FetchTarget ==
    /\ NextTarget /\ (job.force \/ ~allExist(Head(job.queue)))
    /\ \E lost \in Losses : \E got \in Extracted(Head(job.queue), job.request, lost) :
         /\ IF lost = 0 THEN UNCHANGED faults ELSE Fault
         /\ job' = [job EXCEPT !.pending = got, !.saved = <<>>, !.created = {}, !.before = files]
    /\ UNCHANGED <<os, account, files, stained>>

\* installOne: no source, a failing download, a wrong sha256 or a bad archive ends all targets.
FetchFails ==
    /\ NextTarget /\ (job.force \/ ~allExist(Head(job.queue)))
    /\ IF Extracted(Head(job.queue), job.request, 0) = {} THEN UNCHANGED faults ELSE Fault
    /\ Abort
    /\ UNCHANGED <<os, account, files>>

\* writeTargetFiles goes through the names in order.
NextFile == CHOOSE f \in DOMAIN job.pending :
                f = "geoip.dat" \/ "geoip.dat" \notin DOMAIN job.pending

\* Before it writes a file it remembers what is there.
Backups == [g \in DOMAIN job.saved \cup (DOMAIN files \cap {NextFile}) |->
              IF g = NextFile THEN files[g] ELSE job.saved[g]]

\* writeTargetFiles, one file.
WriteFile ==
    /\ Installing /\ job.pending # <<>>
    /\ LET f == NextFile
           rest == [g \in DOMAIN job.pending \ {f} |-> job.pending[g]]
       IN  /\ files' = [g \in DOMAIN files \cup {f} |->
                          IF g = f THEN [data |-> job.pending[f], owner |-> "root"] ELSE files[g]]
           /\ job' = [job EXCEPT !.pending = rest,
                                 !.queue = IF rest = <<>> THEN Tail(@) ELSE @,
                                 !.saved = Backups,
                                 !.created = @ \cup ({f} \ DOMAIN files)]
    /\ UNCHANGED <<os, account, stained, faults>>

\* Mutated rollback: a file that was created stays.
rollbackSavedOnly(kept) ==
    files' = [g \in DOMAIN files |->
                IF g \in DOMAIN Backups \ kept
                THEN [data |-> Backups[g].data, owner |-> "root"] ELSE files[g]]

\* rollback: created files are removed and the saved ones written again, by root; what fails
\* (kept) is ignored.
rollback(kept) ==
    files' = [g \in DOMAIN files \ (job.created \ kept) |->
                IF g \in DOMAIN Backups \ kept
                THEN [data |-> Backups[g].data, owner |-> "root"] ELSE files[g]]

\* writeTargetFiles: a write fails, and so may the rollback.
WriteFails ==
    /\ Installing /\ job.pending # <<>> /\ Fault
    /\ \E kept \in SUBSET (DOMAIN Backups \cup job.created) : rollback(kept)
    /\ Abort
    /\ UNCHANGED <<os, account>>

\* All targets are done.
EndInstall ==
    /\ Installing /\ job.pending = <<>> /\ job.queue = <<>>
    /\ job' = NoJob
    /\ IF CanRepair(TRUE) THEN repairServiceMetadata(TRUE)
                          ELSE stained' = TRUE /\ UNCHANGED files
    /\ UNCHANGED <<os, account, faults>>

\* The command is killed.
KillInstall ==
    /\ Installing /\ Fault /\ Abort
    /\ UNCHANGED <<os, account, files>>

InstallStep ==
    \/ SkipTarget \/ FetchTarget \/ FetchFails \/ WriteFile \/ WriteFails
    \/ EndInstall \/ KillInstall

(***************************************************************************)
(* Properties.                                                             *)
(***************************************************************************)

\* What the files hold, whoever owns them.
DataOf(fn) == [f \in DOMAIN fn |-> fn[f].data]

\* A write that fails leaves bin/ and geo/ with what they held when the target was begun, and so
\* both geo files of one release, unless the rollback fails too (writeTargetFiles, rollback).
ReplacedTogether ==
    [][WriteFails /\ rollback({}) => DataOf(files') = DataOf(job.before)]_installVars

\* install and update end well only if every file of every target is there, but for a geo file
\* that an archive it can be taken from does not have; what an earlier run that failed left out is
\* made good.
InstallCompletes ==
    [][EndInstall =>
         \A t \in ToSet(job.asked) : \A f \in targetPaths(t) :
            \/ f \in DOMAIN files'
            \/ \E lost \in Losses : \E got \in Extracted(t, job.request, lost) :
                  f \notin DOMAIN got]_installVars

\* On Linux a binary that the service account cannot execute is there only while an install runs,
\* or after one that failed: each target before the one that failed has been replaced, and the
\* owners were not repaired (newInstallCommand, runSetupDeps).
BinariesOwned ==
    os = "linux" => \/ \A f \in DOMAIN files : files[f].owner = "proxystack"
                    \/ stained \/ Installing
=============================================================================
