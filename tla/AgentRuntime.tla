---------------------------- MODULE AgentRuntime ----------------------------
(***************************************************************************)
(* The runtime half of psctl: the stack definitions an operator writes,    *)
(* runtime/disabled.json, the generated Xray configs, manifest.json and    *)
(* the running Xray instances, with the commands that move data between    *)
(* them: user disable / enable; start, restart and stop; and the service   *)
(* start, restart and stop that act on the units without planning.         *)
(*                                                                         *)
(* One psctl command runs at a time (the code has no file lock, and        *)
(* concurrent commands are documented as unsupported).  Between any two    *)
(* of its steps the operator may edit a stack file, an Xray instance may   *)
(* exit and be restarted by systemd, an API call may fail, and psctl may   *)
(* be killed or stop on an I/O error.                                      *)
(*                                                                         *)
(* A generated config is what the toggle guard tells apart: its skeleton   *)
(* (everything but the clients) and, per (inbound tag, user), the client's *)
(* credential or NoCred.  A hash in the manifest is the content it hashes. *)
(***************************************************************************)
EXTENDS Naturals

CONSTANTS
    Stacks,       \* stack names, as numbers: the code visits them in sorted order
    Tags,         \* tags of the vmess / shadowsocks inbounds, as numbers
    Users,
    Creds,        \* uuid or password of a client
    Skels,        \* everything of a generated config that is not a client
    NoCred,       \* the user is not a client of the inbound
    None,         \* no file, no manifest entry, instance down, Xray switched off
    Definitions,  \* the stack definitions the operator may write
    Initial,      \* the definition every stack starts with
    MaxUpsets     \* bound: edits, exits, reloads, failed API calls and interruptions together

Config == [skel : Skels, clients : [Tags \X Users -> Creds \cup {NoCred}]]
Maybe(S) == S \cup {None}

\* Which (tag, user) pairs are clients: decodeSplittingClients' key set.
Keys(c) == {x \in Tags \X Users : c.clients[x] # NoCred}

\* Every togglable inbound has a client: an inbound without users fails validation.
NoEmptyInbound(c) == \A t \in Tags : \E u \in Users : <<t, u>> \in Keys(c)

ASSUME StacksAssumption == Stacks \subseteq Nat /\ Tags \subseteq Nat
ASSUME ValueAssumption == NoCred \notin Creds /\ None \notin Config
ASSUME DefinitionsAssumption ==
    /\ Definitions \subseteq Maybe(Config)
    /\ \A d \in Definitions \ {None} : NoEmptyInbound(d)
    /\ Initial \in Definitions \ {None}
ASSUME BoundAssumption == MaxUpsets \in Nat

VARIABLES
    defs,      \* config.yaml and stacks/*.yaml with user_refs resolved; None: Xray off
    disabled,  \* runtime/disabled.json, as pairs <<stack, user>>
    files,     \* runtime/generated/xray/NAME.json
    manifest,  \* runtime/manifest.json, the entry of each stack's file
    live,      \* what the running instance serves; None: it is down
    \* The memory of the command in progress.
    pc,
    op,
    user,
    scope,     \* stacks the command changes
    todo,      \* stacks left in the current phase
    next,      \* disabled.json as the toggle wants it
    gen,       \* the planned content of each file
    drop,      \* files the plan deletes
    ledger,    \* the manifest each stack's plan will write
    sites,     \* live changes still to apply
    \* History: not in the code.
    raced,     \* stacks edited between the toggle's two reads of their definition
    excused,   \* why an instance may differ from its file, since it last loaded it
    upsets     \* how much of MaxUpsets is used

disk == <<disabled, files, manifest>>
plan == <<op, user, scope, next, gen, drop, ledger>>
command == <<pc, plan, todo, sites, raced>>
vars == <<defs, disk, live, command, excused, upsets>>

Toggles == {"disable", "enable"}
Lifecycle == {"start", "restart", "stop"}
Reasons == {"warned", "interrupted", "left", "raced"}
Site == [stack : Stacks, tag : Tags, cred : Creds]

First(s, S) == s \in S /\ \A r \in S : s <= r
SitesOf(s) == {x \in sites : x.stack = s}

(***************************************************************************)
(* BuildPlan.                                                              *)
(***************************************************************************)

\* Mutated Render: the generator leaves the disabled users in.
RenderEverybody(s, off) == defs[s]

\* applyDisabledUsers: a disabled user's client is left out.
Render(s, off) ==
    IF defs[s] = None THEN None
    ELSE [skel |-> defs[s].skel,
          clients |-> [x \in Tags \X Users |->
                         IF <<s, x[2]>> \in off THEN NoCred ELSE defs[s].clients[x]]]

\* Mutated RenderFails: an inbound left without users is written like any other.
RenderNeverFails(s, off) == FALSE

\* "all users of inbound are disabled": the generator fails instead of writing an empty inbound.
RenderFails(s, off) == defs[s] # None /\ ~NoEmptyInbound(Render(s, off))

\* Mutated ManifestAfter: an entry the old manifest has is kept, inside the target too.
ManifestKeepsOld(T, off) ==
    [s \in Stacks |-> IF s \in T /\ manifest[s] = None THEN Render(s, off) ELSE manifest[s]]

\* BuildManifest: entries outside the target are kept as the old manifest had them.
ManifestAfter(T, off) == [s \in Stacks |-> IF s \in T THEN Render(s, off) ELSE manifest[s]]

\* DiffGeneratedFiles: a listed file of the target that is generated no more.
Deleted(T, off) == {s \in T : Render(s, off) = None /\ manifest[s] # None}

\* Mutated UsersOnlyChange: only the clients are compared.
ClientsOnlyChange(old, new, E) ==
    /\ Keys(old) \ Keys(new) = IF op = "disable" THEN E ELSE {}
    /\ Keys(new) \ Keys(old) = IF op = "enable" THEN E ELSE {}

\* usersOnlyChange: the skeletons agree and the client keys differ by exactly the toggled ones.
UsersOnlyChange(old, new, E) ==
    /\ old.skel = new.skel
    /\ Keys(old) \ Keys(new) = IF op = "disable" THEN E ELSE {}
    /\ Keys(new) \ Keys(old) = IF op = "enable" THEN E ELSE {}

Expected(s) == {<<x.tag, user>> : x \in SitesOf(s)}

\* UsersOnlyPlan: no delete; creating a file or leaving it alone is always allowed.
UsersOnlyPlan(s) ==
    /\ s \notin Deleted({s}, next)
    /\ LET new == Render(s, next) IN
         new # None /\ files[s] # None /\ files[s] # new
            => UsersOnlyChange(files[s], new, Expected(s))

(***************************************************************************)
(* psctl user disable / enable.                                            *)
(***************************************************************************)

Targets == {Stacks} \cup {{s} : s \in Stacks}

Has(s, u) == defs[s] # None /\ \E t \in Tags : <<t, u>> \in Keys(defs[s])

\* ensureInboundKeepsUser
KeepsUser(s, u) ==
    \A t \in Tags : <<t, u>> \in Keys(defs[s]) =>
        \E v \in Users \ {u} : <<t, v>> \in Keys(defs[s]) /\ <<s, v>> \notin disabled

UserSites(T, u) ==
    {x \in Site : /\ x.stack \in T
                  /\ <<x.tag, u>> \in Keys(defs[x.stack])
                  /\ x.cred = defs[x.stack].clients[<<x.tag, u>>]}

\* The command returns: all it knew is gone.
Return ==
    /\ pc' = "idle" /\ op' = None /\ user' = None
    /\ scope' = {} /\ todo' = {} /\ next' = {} /\ drop' = {}
    /\ gen' = [s \in Stacks |-> None]
    /\ ledger' = [s \in Stacks |-> [r \in Stacks |-> None]]
    /\ sites' = {} /\ raced' = {}

\* resolveUserScope and the first half of runUserToggle: one read of the definitions and of
\* disabled.json decides which stacks change, and the target state exists in memory only.
BeginToggle(kind, T, u) ==
    LET changed == {s \in T : Has(s, u) /\ (<<s, u>> \in disabled <=> kind = "enable")}
    IN  /\ pc = "idle"
        /\ changed # {}
        /\ kind = "disable" => \A s \in changed : KeepsUser(s, u)
        /\ op' = kind /\ user' = u
        /\ next' = IF kind = "disable" THEN disabled \cup (changed \X {u})
                                       ELSE disabled \ (changed \X {u})
        /\ sites' = UserSites(changed, u)
        /\ scope' = changed /\ todo' = changed
        /\ pc' = "plan"
        /\ UNCHANGED <<defs, disk, live, gen, drop, ledger, raced, excused, upsets>>

\* clearStaleUserState: enable USER where no stack of the target has USER any more.
ClearStale(T, u) ==
    /\ pc = "idle"
    /\ \A s \in T : ~Has(s, u)
    /\ disabled \cap (T \X {u}) # {}
    /\ disabled' = disabled \ (T \X {u})
    /\ UNCHANGED <<defs, files, manifest, live, command, excused, upsets>>

\* planUserChange, one stack: the definitions are read again, under the state not yet saved.
\* A refusal leaves everything as it was.
PlanToggle(s) ==
    /\ pc = "plan" /\ First(s, todo)
    /\ IF RenderFails(s, next) \/ ~UsersOnlyPlan(s)
       THEN Return
       ELSE /\ gen' = [gen EXCEPT ![s] = Render(s, next)]
            /\ ledger' = [ledger EXCEPT ![s] = ManifestAfter({s}, next)]
            /\ todo' = todo \ {s}
            /\ pc' = IF todo = {s} THEN "save" ELSE "plan"
            /\ UNCHANGED <<op, user, scope, next, drop, sites, raced>>
    /\ UNCHANGED <<defs, disk, live, excused, upsets>>

\* Mutated SaveState: every stack is written, not only those the toggle changes.
SaveStateAll ==
    /\ pc = "save"
    /\ disabled' = next
    /\ todo' = Stacks /\ pc' = "write"
    /\ UNCHANGED <<defs, files, manifest, live, plan, sites, raced, excused, upsets>>

\* userstate.Save
SaveState ==
    /\ pc = "save"
    /\ disabled' = next
    /\ todo' = scope /\ pc' = "write"
    /\ UNCHANGED <<defs, files, manifest, live, plan, sites, raced, excused, upsets>>

\* ApplyPlan of one stack's plan, its file first ...
ToggleWrite(s) ==
    /\ pc = "write" /\ op \in Toggles /\ First(s, todo)
    /\ files' = IF gen[s] = None THEN files ELSE [files EXCEPT ![s] = gen[s]]
    /\ pc' = "record"
    /\ UNCHANGED <<defs, disabled, manifest, live, plan, todo, sites, raced, excused, upsets>>

\* ... and its manifest second.
ToggleRecord(s) ==
    /\ pc = "record" /\ op \in Toggles /\ First(s, todo)
    /\ manifest' = ledger[s]
    /\ todo' = todo \ {s}
    /\ pc' = IF todo = {s} THEN "live" ELSE "write"
    /\ UNCHANGED <<defs, disabled, files, live, plan, sites, raced, excused, upsets>>

Before(x, y) == x.stack < y.stack \/ (x.stack = y.stack /\ x.tag <= y.tag)

\* rmu needs a client to remove and adu one to add: otherwise xray reports 0 users.
Applicable(x) ==
    /\ live[x.stack] # None
    /\ (<<x.tag, user>> \in Keys(live[x.stack])) <=> (op = "disable")

Applied(x) ==
    [live EXCEPT ![x.stack].clients[<<x.tag, user>>] =
        IF op = "disable" THEN NoCred ELSE x.cred]

Upset == upsets < MaxUpsets /\ upsets' = upsets + 1

Excuse(T, why) == [s \in Stacks |-> IF s \in T THEN excused[s] \cup why ELSE excused[s]]
Settle(s, but) == [excused EXCEPT ![s] = excused[s] \cap but]
OnDisk == {"interrupted", "raced"}      \* reasons only a restart that plans can settle
Blame(s, why) == Excuse({s}, why \cup (IF s \in raced THEN {"raced"} ELSE {}))

\* Mutated FinishSite: the first inbound ends the command.
FinishFirst(x) == x \in sites /\ Return

\* The next inbound of the user, or the end of the command.
FinishSite(x) ==
    IF sites = {x} THEN Return
    ELSE sites' = sites \ {x} /\ UNCHANGED <<pc, plan, todo, raced>>

\* applyUserChangeLive, one site: the running instance takes the change.
LiveApply(x) ==
    /\ pc = "live" /\ x \in sites /\ \A y \in sites : Before(x, y)
    /\ Applicable(x)
    /\ live' = Applied(x)
    /\ excused' = Blame(x.stack, {})
    /\ FinishSite(x)
    /\ UNCHANGED <<defs, disk, upsets>>

\* The same, failing: the instance has nothing to change, or the API is not ready, refuses, or
\* times out with or without having taken the change.  The command warns and goes on.
LiveFail(x) ==
    /\ pc = "live" /\ x \in sites /\ \A y \in sites : Before(x, y)
    /\ IF Applicable(x) THEN live' \in {live, Applied(x)} /\ Upset
                        ELSE UNCHANGED <<live, upsets>>
    /\ excused' = Blame(x.stack, {"warned"})
    /\ FinishSite(x)
    /\ UNCHANGED <<defs, disk>>

(***************************************************************************)
(* psctl start / restart / stop.                                           *)
(***************************************************************************)

\* runLifecycle up to ApplyPlan: the plan is built for stop too.  stop of one stack reaches its
\* unit even when Xray is switched off (explicitLifecycleServiceNodes).
BeginLifecycle(kind, T) ==
    /\ pc = "idle"
    /\ \A s \in T : ~RenderFails(s, disabled)
    /\ op' = kind /\ scope' = T
    /\ gen' = [s \in Stacks |-> IF s \in T THEN Render(s, disabled) ELSE None]
    /\ drop' = Deleted(T, disabled)
    /\ ledger' = [s \in Stacks |-> ManifestAfter(T, disabled)]
    /\ todo' = IF kind = "stop" /\ T = Stacks THEN {s \in T : defs[s] # None} ELSE T
    /\ todo' # {}
    /\ pc' = IF kind = "stop" THEN "act" ELSE "write"
    /\ UNCHANGED <<defs, disk, live, user, next, sites, raced, excused, upsets>>

\* psctl service start / restart / stop: the units only, nothing is generated.
BeginService(kind, T) ==
    LET on == {s \in T : defs[s] # None}
    IN  /\ pc = "idle"
        /\ op' = kind /\ scope' = T
        /\ todo' = IF kind = "stop" /\ T # Stacks THEN T ELSE on
        /\ todo' # {}
        /\ pc' = "act"
        /\ UNCHANGED <<defs, disk, live, user, next, gen, drop, ledger, sites, raced,
                        excused, upsets>>

\* ApplyPlan: the files one by one.  Nobody restarts the instance whose file is deleted here.
LifecycleWrite(s) ==
    /\ pc = "write" /\ op \in Lifecycle /\ First(s, todo)
    /\ files' = CASE s \in drop -> [files EXCEPT ![s] = None]
                  [] gen[s] # None -> [files EXCEPT ![s] = gen[s]]
                  [] OTHER -> files
    /\ todo' = todo \ {s}
    /\ pc' = IF todo = {s} THEN "record" ELSE "write"
    /\ excused' = Excuse({s} \cap drop, {"left"})
    /\ UNCHANGED <<defs, disabled, manifest, live, plan, sites, raced, upsets>>

\* ApplyPlan: the manifest last; then the services of the enabled nodes are next.
LifecycleRecord ==
    /\ pc = "record" /\ op \in Lifecycle
    /\ \E s \in scope : manifest' = ledger[s]
    /\ LET services == {s \in scope : gen[s] # None}
       IN  IF services = {} THEN Return
           ELSE todo' = services /\ pc' = "act" /\ UNCHANGED <<plan, sites, raced>>
    /\ UNCHANGED <<defs, disabled, files, live, excused, upsets>>

\* systemctl start / restart / stop of one unit of the call; start of an active unit does nothing.
Act(s) ==
    /\ pc = "act" /\ s \in todo
    /\ live' = CASE op = "stop" -> [live EXCEPT ![s] = None]
                 [] op = "restart" \/ (op = "start" /\ live[s] = None) ->
                      [live EXCEPT ![s] = files[s]]
                 [] OTHER -> live
    /\ excused' = CASE op = "stop" -> Settle(s, OnDisk)
                    [] op # "stop" /\ live'[s] = files[s] ->
                         Settle(s, IF gen[s] = None THEN OnDisk ELSE {})
                    [] OTHER -> Excuse({s}, {"left"})
    /\ IF todo = {s} THEN Return
       ELSE todo' = todo \ {s} /\ UNCHANGED <<pc, plan, sites, raced>>
    /\ UNCHANGED <<defs, disk, upsets>>

(***************************************************************************)
(* What happens around the command.                                        *)
(***************************************************************************)

\* The operator rewrites a stack file, at any moment.
Edit(s) ==
    /\ \E d \in Definitions \ {defs[s]} : defs' = [defs EXCEPT ![s] = d]
    /\ raced' = IF pc = "plan" /\ s \in todo THEN raced \cup {s} ELSE raced
    /\ UNCHANGED <<disk, live, pc, plan, todo, sites, excused>>
    /\ Upset

\* An instance exits and stays down ...
Exit(s) ==
    /\ live[s] # None
    /\ live' = [live EXCEPT ![s] = None]
    /\ UNCHANGED <<defs, disk, command, excused>>
    /\ Upset

\* ... or systemd starts it again (Restart=on-failure, or an enabled unit at boot).  What a
\* killed command did not finish is still unfinished then.
Reload(s) ==
    /\ files[s] # None
    /\ live' = [live EXCEPT ![s] = files[s]]
    /\ excused' = Settle(s, OnDisk)
    /\ UNCHANGED <<defs, disk, command>>
    /\ Upset

\* The command in progress generates a file for s or deletes it (psctl service does neither).
Rewrites(s) == op \in Toggles \/ gen[s] # None \/ s \in drop

\* psctl is killed, or returns on an I/O error: what it wrote stays, the rest is forgotten.
Interrupt ==
    /\ pc # "idle"
    /\ excused' = IF pc \in {"plan", "save"} \/ op = "stop" THEN excused
                  ELSE Excuse({s \in scope : Rewrites(s)}, {"interrupted"})
    /\ Return
    /\ UNCHANGED <<defs, disk, live>>
    /\ Upset

Init ==
    /\ defs = [s \in Stacks |-> Initial]
    /\ disabled = {}
    /\ files = [s \in Stacks |-> None]
    /\ manifest = [s \in Stacks |-> None]
    /\ live = [s \in Stacks |-> None]
    /\ pc = "idle" /\ op = None /\ user = None
    /\ scope = {} /\ todo = {} /\ next = {} /\ drop = {}
    /\ gen = [s \in Stacks |-> None]
    /\ ledger = [s \in Stacks |-> [r \in Stacks |-> None]]
    /\ sites = {} /\ raced = {}
    /\ excused = [s \in Stacks |-> {}]
    /\ upsets = 0

Next ==
    \/ \E T \in Targets, u \in Users :
         \/ \E kind \in Toggles : BeginToggle(kind, T, u)
         \/ ClearStale(T, u)
    \/ \E kind \in Lifecycle, T \in Targets :
         BeginLifecycle(kind, T) \/ BeginService(kind, T)
    \/ \E s \in Stacks :
         \/ PlanToggle(s) \/ ToggleWrite(s) \/ ToggleRecord(s)
         \/ LifecycleWrite(s) \/ Act(s)
         \/ Edit(s) \/ Exit(s) \/ Reload(s)
    \/ \E x \in sites : LiveApply(x) \/ LiveFail(x)
    \/ SaveState \/ LifecycleRecord \/ Interrupt

Spec == Init /\ [][Next]_vars

-----------------------------------------------------------------------------

SameService(a, b) == a.skel = b.skel /\ Keys(a) = Keys(b)

\* The command has changed the file of s and has still to bring its instance in line.
InFlight(s) ==
    \/ /\ op \in Toggles /\ SitesOf(s) # {}
       /\ pc \in {"write", "record", "live"}
    \/ /\ op \in {"start", "restart"} /\ gen[s] # None
       /\ pc = "record" \/ (pc = "write" /\ s \notin todo) \/ (pc = "act" /\ s \in todo)

\* A running instance serves what its generated file says, up to credentials, unless the operator
\* was told otherwise: a warned API call, an interrupted command, a start or deletion that leaves
\* the running process alone, or an edit between the two reads of one toggle.  This is what the
\* UsersOnlyPlan guard is for: a toggle must not write somebody else's pending change to disk.
NoUnannouncedDrift ==
    \A s \in Stacks :
        live[s] # None /\ excused[s] = {} /\ ~InFlight(s)
            => files[s] # None /\ SameService(live[s], files[s])

\* A user disabled.json lists as disabled is served by no inbound of a running instance, under
\* the same exceptions: user disable, restarts, reloads and edits together never let one back in.
DisabledMeansOff ==
    \A s \in Stacks, u \in Users :
        live[s] # None /\ excused[s] = {} /\ ~InFlight(s) /\ <<s, u>> \in disabled
            => \A t \in Tags : <<t, u>> \notin Keys(live[s])

\* The toggle has saved disabled.json and has still to write the file of s.
Unwritten(s) ==
    op \in Toggles /\ s \in todo /\ pc \in {"write", "record"}

\* The state file and the generated files agree between commands: runUserToggle plans first so
\* that a refusal never leaves a disabled user in a file, where the idempotent "No change" answer
\* would hide it from the next run.  Only a killed command, or an edit it raced with, can.
FilesHonourDisabled ==
    \A s \in Stacks, u \in Users :
        files[s] # None /\ excused[s] \cap {"interrupted", "raced"} = {}
        /\ ~Unwritten(s) /\ s \notin raced /\ <<s, u>> \in disabled
            => \A t \in Tags : <<t, u>> \notin Keys(files[s])

\* The manifest is the last applied result (the comment on type Manifest): between commands the
\* entry of an existing file is that file's content, so that a later plan can delete it.
ManifestRecordsLastApply ==
    \A s \in Stacks :
        pc = "idle" /\ files[s] # None /\ "interrupted" \notin excused[s]
            => manifest[s] = files[s]

\* Neither toggles nor edits nor restarts ever leave a running inbound without clients, which
\* vmess refuses and shadowsocks answers by falling back to the shared password of the inbound.
NoInboundEmptied ==
    \A s \in Stacks : live[s] # None /\ excused[s] = {} => NoEmptyInbound(live[s])

\* A file that does not exist has no old instance running behind it: the comment with which
\* UsersOnlyPlan lets every created file through.
NoFileNothingRuns ==
    \A s \in Stacks :
        pc = "idle" /\ files[s] = None /\ "interrupted" \notin excused[s] => live[s] = None

\* NoUnannouncedDrift with the credentials: the differences a toggle writes to disk are exactly
\* the clients it adds or removes (docs/cli-spec.md on psctl user, and the comment on
\* UsersOnlyPlan), so nothing else separates the instance from its file.
NoCredentialDrift ==
    \A s \in Stacks :
        live[s] # None /\ excused[s] = {} /\ ~InFlight(s) => live[s] = files[s]

\* The variables hold values of the right kind, the plans' bookkeeping included.
TypeOK ==
    /\ defs \in [Stacks -> Definitions]
    /\ disabled \subseteq Stacks \X Users
    /\ files \in [Stacks -> Maybe(Config)]
    /\ manifest \in [Stacks -> Maybe(Config)]
    /\ live \in [Stacks -> Maybe(Config)]
    /\ pc \in {"idle", "plan", "save", "write", "record", "live", "act"}
    /\ op \in Maybe(Toggles \cup Lifecycle)
    /\ user \in Maybe(Users)
    /\ scope \subseteq Stacks /\ todo \subseteq scope
    /\ next \subseteq Stacks \X Users
    /\ gen \in [Stacks -> Maybe(Config)]
    /\ drop \subseteq Stacks
    /\ ledger \in [Stacks -> [Stacks -> Maybe(Config)]]
    /\ sites \subseteq Site
    /\ raced \subseteq Stacks
    /\ excused \in [Stacks -> SUBSET Reasons]
    /\ upsets \in 0..MaxUpsets

=============================================================================
