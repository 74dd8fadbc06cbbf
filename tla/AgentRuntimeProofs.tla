------------------------- MODULE AgentRuntimeProofs -------------------------
(* What holds of psctl's runtime for any stacks, users, definitions and number of upsets:   *)
(* its types, and that the generated files honour disabled.json, which is why user disable  *)
(* and enable plan before they save.                                                        *)
EXTENDS AgentRuntime, TLAPS

USE DEF Maybe

-----------------------------------------------------------------------------
(* What BuildPlan computes is of the right kind. *)

(* A missing file is not mistaken for a config. *)
LEMMA NoneIsNoConfig == None \notin Config
  BY ValueAssumption

(* A target is made of stacks. *)
LEMMA TargetsAreStacks == \A T \in Targets : T \subseteq Stacks
  BY DEF Targets

(* The definition of a stack with Xray is rendered as a config ... *)
LEMMA RenderSome ==
    ASSUME TypeOK, NEW s \in Stacks, NEW off, defs[s] # None PROVE Render(s, off) \in Config
<1>1. defs[s] \in Config
  BY DefinitionsAssumption DEF TypeOK
<1> DEFINE C == [x \in Tags \X Users |->
                   IF <<s, x[2]>> \in off THEN NoCred ELSE defs[s].clients[x]]
<1>2. C \in [Tags \X Users -> Creds \cup {NoCred}] /\ defs[s].skel \in Skels
  BY <1>1 DEF Config
<1>3. Render(s, off) = [skel |-> defs[s].skel, clients |-> C]
  BY DEF Render
<1> HIDE DEF C
<1> QED
  BY <1>2, <1>3 DEF Config

(* ... and any other as no file at all. *)
LEMMA RenderType ==
    ASSUME TypeOK, NEW s \in Stacks, NEW off PROVE Render(s, off) \in Maybe(Config)
  BY RenderSome DEF Render

(* BuildManifest has an entry or nothing for every stack. *)
LEMMA ManifestType ==
    ASSUME TypeOK, NEW T, NEW off PROVE ManifestAfter(T, off) \in [Stacks -> Maybe(Config)]
  BY RenderType DEF ManifestAfter, TypeOK

(* A client of one inbound changed in a config leaves a config. *)
LEMMA ClientChangeType ==
    ASSUME NEW c \in Config, NEW k, NEW v \in Creds \cup {NoCred}
    PROVE  [c EXCEPT !.clients[k] = v] \in Config
  BY DEF Config

(* An API call leaves the instances with configs. *)
LEMMA AppliedType ==
    ASSUME TypeOK, NEW x \in Site, Applicable(x) PROVE Applied(x) \in [Stacks -> Maybe(Config)]
<1>1. x.stack \in Stacks /\ x.cred \in Creds
  BY DEF Site
<1>2. live[x.stack] \in Config
  BY <1>1 DEF TypeOK, Applicable
<1> DEFINE v == IF op = "disable" THEN NoCred ELSE x.cred
<1>3. [live[x.stack] EXCEPT !.clients[<<x.tag, user>>] = v] \in Config
  BY <1>1, <1>2, ClientChangeType
<1>4. Applied(x) = [live EXCEPT ![x.stack] =
                      [live[x.stack] EXCEPT !.clients[<<x.tag, user>>] = v]]
  BY <1>1 DEF Applied, TypeOK
<1> QED
  BY <1>1, <1>3, <1>4 DEF TypeOK

-----------------------------------------------------------------------------
(* Type correctness. *)

(* What an instance is excused for stays a set of reasons when a command adds to it, *)
LEMMA ExcuseType ==
    ASSUME TypeOK, NEW T, NEW why \in SUBSET Reasons
    PROVE  Excuse(T, why) \in [Stacks -> SUBSET Reasons]
  BY DEF Excuse, TypeOK

(* ... when a restart clears some of them, *)
LEMMA SettleType ==
    ASSUME TypeOK, NEW s \in Stacks, NEW but PROVE Settle(s, but) \in [Stacks -> SUBSET Reasons]
  BY DEF Settle, TypeOK

(* ... when a live change adds to them, *)
LEMMA BlameType ==
    ASSUME TypeOK, NEW s \in Stacks, NEW why \in SUBSET Reasons
    PROVE  Blame(s, why) \in [Stacks -> SUBSET Reasons]
<1> DEFINE all == why \cup (IF s \in raced THEN {"raced"} ELSE {})
<1>1. all \in SUBSET Reasons
  BY DEF Reasons
<1>2. Blame(s, why) = Excuse({s}, all)
  BY DEF Blame
<1> HIDE DEF all
<1> QED
  BY <1>1, <1>2, ExcuseType

(* ... and these are the sets that are added. *)
LEMMA ReasonSets ==
    /\ {} \in SUBSET Reasons /\ {"warned"} \in SUBSET Reasons
    /\ {"left"} \in SUBSET Reasons /\ {"interrupted"} \in SUBSET Reasons
  BY DEF Reasons

(* The upsets stay within their bound. *)
LEMMA UpsetType == TypeOK /\ Upset => upsets' \in 0..MaxUpsets
  BY BoundAssumption DEF TypeOK, Upset

(* The memory of the command in progress, and what outlives it. *)
CommandOK ==
    /\ pc \in {"idle", "plan", "save", "write", "record", "live", "act"}
    /\ op \in Maybe(Toggles \cup Lifecycle)
    /\ user \in Maybe(Users)
    /\ scope \subseteq Stacks /\ todo \subseteq scope
    /\ next \subseteq Stacks \X Users
    /\ gen \in [Stacks -> Maybe(Config)]
    /\ drop \subseteq Stacks
    /\ ledger \in [Stacks -> [Stacks -> Maybe(Config)]]
    /\ sites \subseteq Site
    /\ raced \subseteq Stacks

WorldOK ==
    /\ defs \in [Stacks -> Definitions]
    /\ disabled \subseteq Stacks \X Users
    /\ files \in [Stacks -> Maybe(Config)]
    /\ manifest \in [Stacks -> Maybe(Config)]
    /\ live \in [Stacks -> Maybe(Config)]
    /\ excused \in [Stacks -> SUBSET Reasons]
    /\ upsets \in 0..MaxUpsets

(* A command that returns leaves its memory in order. *)
LEMMA ReturnType == Return => CommandOK'
<1>1. [s \in Stacks |-> None] \in [Stacks -> Maybe(Config)]
  OBVIOUS
<1> QED
  BY <1>1 DEF Return, CommandOK

(* No step takes a variable out of its type. *)
LEMMA TypeStep == TypeOK /\ [Next]_vars => TypeOK'
<1> SUFFICES ASSUME TypeOK, [Next]_vars PROVE CommandOK' /\ WorldOK'
  BY DEF TypeOK, CommandOK, WorldOK
<1> USE DEF disk, plan, command
<1>1. ASSUME NEW T \in Targets, NEW u \in Users, NEW kind \in Toggles, BeginToggle(kind, T, u)
      PROVE  CommandOK' /\ WorldOK'
  BY <1>1, TargetsAreStacks DEF BeginToggle, UserSites, TypeOK, CommandOK, WorldOK
<1>2. ASSUME NEW T \in Targets, NEW u \in Users, ClearStale(T, u) PROVE CommandOK' /\ WorldOK'
  BY <1>2 DEF ClearStale, TypeOK, CommandOK, WorldOK
<1>3. ASSUME NEW T \in Targets, NEW kind \in Lifecycle, BeginLifecycle(kind, T)
      PROVE  CommandOK' /\ WorldOK'
  BY <1>3, TargetsAreStacks, RenderType, ManifestType
     DEF BeginLifecycle, Deleted, TypeOK, CommandOK, WorldOK
<1>4. ASSUME NEW T \in Targets, NEW kind \in Lifecycle, BeginService(kind, T)
      PROVE  CommandOK' /\ WorldOK'
  BY <1>4, TargetsAreStacks DEF BeginService, TypeOK, CommandOK, WorldOK
<1>5. ASSUME NEW s \in Stacks, PlanToggle(s) PROVE CommandOK' /\ WorldOK'
  <2>1. CASE Return
    BY <1>5, <2>1, ReturnType DEF PlanToggle, TypeOK, WorldOK
  <2>2. CASE ~Return
    <3>1. gen' \in [Stacks -> Maybe(Config)]
      BY <1>5, <2>2, RenderType DEF PlanToggle, TypeOK
    <3>2. ledger' \in [Stacks -> [Stacks -> Maybe(Config)]]
      BY <1>5, <2>2, ManifestType DEF PlanToggle, TypeOK
    <3> QED
      BY <1>5, <2>2, <3>1, <3>2 DEF PlanToggle, TypeOK, CommandOK, WorldOK
  <2> QED
    BY <2>1, <2>2
<1>6. CASE SaveState
  BY <1>6 DEF SaveState, TypeOK, CommandOK, WorldOK
<1>7. ASSUME NEW s \in Stacks, ToggleWrite(s) PROVE CommandOK' /\ WorldOK'
  BY <1>7 DEF ToggleWrite, TypeOK, CommandOK, WorldOK
<1>8. ASSUME NEW s \in Stacks, ToggleRecord(s) PROVE CommandOK' /\ WorldOK'
  BY <1>8 DEF ToggleRecord, TypeOK, CommandOK, WorldOK
<1>9. ASSUME NEW x \in sites, LiveApply(x) PROVE CommandOK' /\ WorldOK'
  <2>1. x \in Site /\ x.stack \in Stacks
    BY DEF TypeOK, Site
  <2>2. CommandOK'
    BY <1>9, ReturnType DEF LiveApply, FinishSite, TypeOK, CommandOK
  <2>3. live' \in [Stacks -> Maybe(Config)]
    BY <1>9, <2>1, AppliedType DEF LiveApply
  <2>4. excused' \in [Stacks -> SUBSET Reasons]
    BY <1>9, <2>1, BlameType, ReasonSets DEF LiveApply
  <2> QED
    BY <1>9, <2>2, <2>3, <2>4 DEF LiveApply, TypeOK, WorldOK
<1>10. ASSUME NEW x \in sites, LiveFail(x) PROVE CommandOK' /\ WorldOK'
  <2>1. x \in Site /\ x.stack \in Stacks
    BY DEF TypeOK, Site
  <2>2. CommandOK'
    BY <1>10, ReturnType DEF LiveFail, FinishSite, TypeOK, CommandOK
  <2>3. live' \in [Stacks -> Maybe(Config)] /\ upsets' \in 0..MaxUpsets
    BY <1>10, <2>1, AppliedType, UpsetType DEF LiveFail, TypeOK
  <2>4. excused' \in [Stacks -> SUBSET Reasons]
    BY <1>10, <2>1, BlameType, ReasonSets DEF LiveFail
  <2> QED
    BY <1>10, <2>2, <2>3, <2>4 DEF LiveFail, TypeOK, WorldOK
<1>11. ASSUME NEW s \in Stacks, LifecycleWrite(s) PROVE CommandOK' /\ WorldOK'
  <2>1. excused' \in [Stacks -> SUBSET Reasons]
    BY <1>11, ExcuseType, ReasonSets DEF LifecycleWrite
  <2> QED
    BY <1>11, <2>1 DEF LifecycleWrite, TypeOK, CommandOK, WorldOK
<1>12. CASE LifecycleRecord
  BY <1>12, ReturnType DEF LifecycleRecord, TypeOK, CommandOK, WorldOK
<1>13. ASSUME NEW s \in Stacks, Act(s) PROVE CommandOK' /\ WorldOK'
  <2>1. excused' \in [Stacks -> SUBSET Reasons]
    BY <1>13, ExcuseType, SettleType, ReasonSets DEF Act
  <2>2. CommandOK'
    BY <1>13, ReturnType DEF Act, TypeOK, CommandOK
  <2> QED
    BY <1>13, <2>1, <2>2 DEF Act, TypeOK, WorldOK
<1>14. ASSUME NEW s \in Stacks, Edit(s) PROVE CommandOK' /\ WorldOK'
  BY <1>14, UpsetType DEF Edit, TypeOK, CommandOK, WorldOK
<1>15. ASSUME NEW s \in Stacks, Exit(s) PROVE CommandOK' /\ WorldOK'
  BY <1>15, UpsetType DEF Exit, TypeOK, CommandOK, WorldOK
<1>16. ASSUME NEW s \in Stacks, Reload(s) PROVE CommandOK' /\ WorldOK'
  <2>1. excused' \in [Stacks -> SUBSET Reasons]
    BY <1>16, SettleType DEF Reload
  <2> QED
    BY <1>16, <2>1, UpsetType DEF Reload, TypeOK, CommandOK, WorldOK
<1>17. CASE Interrupt
  <2>1. excused' \in [Stacks -> SUBSET Reasons]
    BY <1>17, ExcuseType, ReasonSets DEF Interrupt, TypeOK
  <2> QED
    BY <1>17, <2>1, ReturnType, UpsetType DEF Interrupt, TypeOK, WorldOK
<1>18. CASE UNCHANGED vars
  BY <1>18 DEF vars, TypeOK, CommandOK, WorldOK
<1> QED
  BY <1>1, <1>2, <1>3, <1>4, <1>5, <1>6, <1>7, <1>8, <1>9, <1>10, <1>11, <1>12, <1>13, <1>14,
     <1>15, <1>16, <1>17, <1>18 DEF Next

(* A machine on which nothing was applied yet. *)
LEMMA TypeInit == Init => TypeOK
<1>1. [s \in Stacks |-> Initial] \in [Stacks -> Definitions]
  BY DefinitionsAssumption
<1>2. [s \in Stacks |-> None] \in [Stacks -> Maybe(Config)]
  OBVIOUS
<1>3. [s \in Stacks |-> [r \in Stacks |-> None]] \in [Stacks -> [Stacks -> Maybe(Config)]]
  OBVIOUS
<1>4. [s \in Stacks |-> {}] \in [Stacks -> SUBSET Reasons]
  OBVIOUS
<1>5. 0 \in 0..MaxUpsets
  BY BoundAssumption
<1> QED
  BY <1>1, <1>2, <1>3, <1>4, <1>5 DEF Init, TypeOK

\* The variables keep their types: every plan's files and manifests are configs or missing, and the
\* stacks a command has still to visit are among those it was called for.
THEOREM TypeCorrect == Spec => []TypeOK
  BY TypeInit, TypeStep, PTL DEF Spec

-----------------------------------------------------------------------------
(* The files honour disabled.json: what the command in progress remembers of them. *)

Forgetful == pc = "idle" => op = None /\ raced = {} /\ \A s \in Stacks : gen[s] = None

Phases ==
    /\ pc \in {"plan", "save", "live"} => op \in Toggles
    /\ pc = "act" => op \in Lifecycle
    /\ pc \in {"write", "record"} => op \in Toggles \cup {"start", "restart"}

Scoped ==
    /\ raced \subseteq scope /\ (raced # {} => op \in Toggles)
    /\ \A s \in Stacks : gen[s] # None => s \in scope /\ (op \in Lifecycle => s \notin drop)

\* The toggle changes the state of its own stacks only, and has saved it once it writes.
StateSaved ==
    op \in Toggles =>
        /\ pc \in {"plan", "save"} =>
             \A s \in Stacks \ scope, u \in Users : <<s, u>> \in next <=> <<s, u>> \in disabled
        /\ pc \in {"write", "record", "live"} => disabled = next

\* A stack nobody edits between the toggle's two reads gets a file.
Planned ==
    /\ op \in Toggles /\ pc = "plan" => \A s \in todo \ raced : defs[s] # None
    /\ op \in Toggles =>
         \A s \in scope \ raced : pc # "plan" \/ s \notin todo => gen[s] # None

\* Every stack of the toggle has an inbound of the user, and while its plan is carried out the
\* stack was not passed over: an edit it raced with is remembered beyond the command.
Remembered ==
    op \in Toggles =>
        /\ pc \in {"plan", "save", "write", "record"} => \A s \in scope : SitesOf(s) # {}
        /\ pc = "live" => \A s \in raced : SitesOf(s) = {} => "raced" \in excused[s]

Off == IF op \in Toggles THEN next ELSE disabled

\* c serves no user that off lists for s.
Honours(c, s, off) == \A u \in Users, t \in Tags : <<s, u>> \in off => <<t, u>> \notin Keys(c)

PlansHonour == \A s \in Stacks : gen[s] # None => Honours(gen[s], s, Off)

\* The command has written the file of s.
Written(s) ==
    \/ pc = "live"
    \/ pc \in {"write", "record"} /\ s \notin todo
    \/ pc = "record" /\ (op \in Lifecycle \/ First(s, todo))
    \/ pc = "act" /\ op # "stop"

WrittenAsPlanned == \A s \in Stacks : gen[s] # None /\ Written(s) => files[s] = gen[s]

Excused(s) == excused[s] \cap {"interrupted", "raced"} # {}

FilesHonour ==
    \A s \in Stacks :
        files[s] # None /\ ~Excused(s)
        /\ ~Unwritten(s) /\ (s \notin raced \/ pc \in {"plan", "save"})
            => Honours(files[s], s, disabled)

Honest ==
    /\ TypeOK /\ Forgetful /\ Phases /\ Scoped
    /\ StateSaved /\ Planned /\ Remembered
    /\ PlansHonour /\ WrittenAsPlanned /\ FilesHonour

(* What the command is at, and for which stacks. *)
LEMMA BookStep == Honest /\ [Next]_vars => Forgetful' /\ Phases' /\ Scoped'
<1> SUFFICES ASSUME Honest, [Next]_vars PROVE Forgetful' /\ Phases' /\ Scoped'
  OBVIOUS
<1> USE DEF Honest, Forgetful, Phases, Scoped, Return, Toggles, Lifecycle, TypeOK, disk, plan,
   command
<1>1. ASSUME NEW T \in Targets, NEW u \in Users, NEW kind \in Toggles, BeginToggle(kind, T, u)
      PROVE  Forgetful' /\ Phases' /\ Scoped'
  BY <1>1 DEF BeginToggle
<1>2. ASSUME NEW T \in Targets, NEW u \in Users, ClearStale(T, u)
      PROVE  Forgetful' /\ Phases' /\ Scoped'
  BY <1>2 DEF ClearStale
<1>3. ASSUME NEW T \in Targets, NEW kind \in Lifecycle, BeginLifecycle(kind, T)
      PROVE  Forgetful' /\ Phases' /\ Scoped'
  BY <1>3 DEF BeginLifecycle, Deleted
<1>4. ASSUME NEW T \in Targets, NEW kind \in Lifecycle, BeginService(kind, T)
      PROVE  Forgetful' /\ Phases' /\ Scoped'
  BY <1>4 DEF BeginService
<1>5. ASSUME NEW s \in Stacks, PlanToggle(s) PROVE Forgetful' /\ Phases' /\ Scoped'
  <2>1. CASE Return
    BY <2>1
  <2>2. CASE ~Return
    <3>1. Forgetful' /\ Phases'
      BY <1>5, <2>2 DEF PlanToggle
    <3>2. op \in Toggles /\ s \in scope /\ s \in Stacks
      BY <1>5 DEF PlanToggle, First
    <3>3. Scoped'
      BY <1>5, <2>2, <3>2 DEF PlanToggle
    <3> QED
      BY <3>1, <3>3
  <2> QED
    BY <2>1, <2>2
<1>6. CASE SaveState
  BY <1>6 DEF SaveState
<1>7. ASSUME NEW s \in Stacks, ToggleWrite(s) PROVE Forgetful' /\ Phases' /\ Scoped'
  BY <1>7 DEF ToggleWrite
<1>8. ASSUME NEW s \in Stacks, ToggleRecord(s) PROVE Forgetful' /\ Phases' /\ Scoped'
  BY <1>8 DEF ToggleRecord
<1>9. ASSUME NEW x \in sites, LiveApply(x) PROVE Forgetful' /\ Phases' /\ Scoped'
  BY <1>9 DEF LiveApply, FinishSite
<1>10. ASSUME NEW x \in sites, LiveFail(x) PROVE Forgetful' /\ Phases' /\ Scoped'
  BY <1>10 DEF LiveFail, FinishSite
<1>11. ASSUME NEW s \in Stacks, LifecycleWrite(s) PROVE Forgetful' /\ Phases' /\ Scoped'
  BY <1>11 DEF LifecycleWrite
<1>12. CASE LifecycleRecord
  BY <1>12 DEF LifecycleRecord
<1>13. ASSUME NEW s \in Stacks, Act(s) PROVE Forgetful' /\ Phases' /\ Scoped'
  BY <1>13 DEF Act
<1>14. ASSUME NEW s \in Stacks, Edit(s) PROVE Forgetful' /\ Phases' /\ Scoped'
  BY <1>14 DEF Edit
<1>15. ASSUME NEW s \in Stacks, Exit(s) PROVE Forgetful' /\ Phases' /\ Scoped'
  BY <1>15 DEF Exit
<1>16. ASSUME NEW s \in Stacks, Reload(s) PROVE Forgetful' /\ Phases' /\ Scoped'
  BY <1>16 DEF Reload
<1>17. CASE Interrupt
  BY <1>17 DEF Interrupt
<1>18. CASE UNCHANGED vars
  BY <1>18 DEF vars
<1> QED
  BY <1>1, <1>2, <1>3, <1>4, <1>5, <1>6, <1>7, <1>8, <1>9, <1>10, <1>11, <1>12, <1>13, <1>14,
     <1>15, <1>16, <1>17, <1>18 DEF Next

(* The state file is the toggle's own from the save on. *)
LEMMA SavedStep == Honest /\ [Next]_vars => StateSaved'
<1> SUFFICES ASSUME Honest, [Next]_vars PROVE StateSaved'
  OBVIOUS
<1> USE DEF Honest, Phases, Scoped, StateSaved, Forgetful, Return, Toggles, Lifecycle, TypeOK,
   disk, plan, command
<1>1. ASSUME NEW T \in Targets, NEW u \in Users, NEW kind \in Toggles, BeginToggle(kind, T, u)
      PROVE  StateSaved'
  BY <1>1 DEF BeginToggle
<1>2. ASSUME NEW T \in Targets, NEW u \in Users, ClearStale(T, u) PROVE StateSaved'
  BY <1>2 DEF ClearStale
<1>3. ASSUME NEW T \in Targets, NEW kind \in Lifecycle, BeginLifecycle(kind, T) PROVE StateSaved'
  BY <1>3 DEF BeginLifecycle, Deleted
<1>4. ASSUME NEW T \in Targets, NEW kind \in Lifecycle, BeginService(kind, T) PROVE StateSaved'
  BY <1>4 DEF BeginService
<1>5. ASSUME NEW s \in Stacks, PlanToggle(s) PROVE StateSaved'
  <2>1. CASE Return
    BY <2>1
  <2>2. CASE ~Return
    BY <1>5, <2>2 DEF PlanToggle
  <2> QED
    BY <2>1, <2>2
<1>6. CASE SaveState
  BY <1>6 DEF SaveState
<1>7. ASSUME NEW s \in Stacks, ToggleWrite(s) PROVE StateSaved'
  BY <1>7 DEF ToggleWrite
<1>8. ASSUME NEW s \in Stacks, ToggleRecord(s) PROVE StateSaved'
  BY <1>8 DEF ToggleRecord
<1>9. ASSUME NEW x \in sites, LiveApply(x) PROVE StateSaved'
  BY <1>9 DEF LiveApply, FinishSite
<1>10. ASSUME NEW x \in sites, LiveFail(x) PROVE StateSaved'
  BY <1>10 DEF LiveFail, FinishSite
<1>11. ASSUME NEW s \in Stacks, LifecycleWrite(s) PROVE StateSaved'
  BY <1>11 DEF LifecycleWrite
<1>12. CASE LifecycleRecord
  BY <1>12 DEF LifecycleRecord
<1>13. ASSUME NEW s \in Stacks, Act(s) PROVE StateSaved'
  BY <1>13 DEF Act
<1>14. ASSUME NEW s \in Stacks, Edit(s) PROVE StateSaved'
  BY <1>14 DEF Edit
<1>15. ASSUME NEW s \in Stacks, Exit(s) PROVE StateSaved'
  BY <1>15 DEF Exit
<1>16. ASSUME NEW s \in Stacks, Reload(s) PROVE StateSaved'
  BY <1>16 DEF Reload
<1>17. CASE Interrupt
  BY <1>17 DEF Interrupt
<1>18. CASE UNCHANGED vars
  BY <1>18 DEF vars
<1> QED
  BY <1>1, <1>2, <1>3, <1>4, <1>5, <1>6, <1>7, <1>8, <1>9, <1>10, <1>11, <1>12, <1>13, <1>14,
     <1>15, <1>16, <1>17, <1>18 DEF Next

(* Nothing is planned for a stack that is off, unless an edit raced with the toggle. *)
LEMMA PlannedStep == Honest /\ [Next]_vars => Planned'
<1> SUFFICES ASSUME Honest, [Next]_vars PROVE Planned'
  OBVIOUS
<1> USE DEF Honest, Phases, Scoped, Planned, Forgetful, Return, Toggles, Lifecycle, TypeOK, disk,
   plan, command
<1>1. ASSUME NEW T \in Targets, NEW u \in Users, NEW kind \in Toggles, BeginToggle(kind, T, u)
      PROVE  Planned'
  BY <1>1 DEF BeginToggle, Has
<1>2. ASSUME NEW T \in Targets, NEW u \in Users, ClearStale(T, u) PROVE Planned'
  BY <1>2 DEF ClearStale
<1>3. ASSUME NEW T \in Targets, NEW kind \in Lifecycle, BeginLifecycle(kind, T) PROVE Planned'
  BY <1>3 DEF BeginLifecycle, Deleted
<1>4. ASSUME NEW T \in Targets, NEW kind \in Lifecycle, BeginService(kind, T) PROVE Planned'
  BY <1>4 DEF BeginService
<1>5. ASSUME NEW s \in Stacks, PlanToggle(s) PROVE Planned'
  <2>1. CASE Return
    BY <2>1
  <2>2. CASE ~Return
    <3>1. s \notin raced => Render(s, next) # None
      BY <1>5, RenderSome, NoneIsNoConfig DEF PlanToggle, First
    <3>2. /\ pc = "plan" /\ op' = op /\ raced' = raced /\ scope' = scope /\ defs' = defs
          /\ todo' = todo \ {s} /\ gen' = [gen EXCEPT ![s] = Render(s, next)]
      BY <1>5, <2>2 DEF PlanToggle
    <3>3. \A r \in todo' \ raced' : pc' = "plan" /\ op' \in Toggles => defs'[r] # None
      BY <3>2
    <3>4. ASSUME NEW r \in scope' \ raced', op' \in Toggles, r \notin todo' PROVE gen'[r] # None
      <4>1. r \in Stacks
        BY <3>2, <3>4
      <4>2. CASE r = s
        BY <3>1, <3>2, <3>4, <4>1, <4>2
      <4>3. CASE r # s
        BY <3>2, <3>4, <4>1, <4>3
      <4> QED
        BY <4>2, <4>3
    <3>5. pc' # "plan" => todo' = {}
      BY <1>5, <2>2, <3>2 DEF PlanToggle
    <3> QED
      BY <3>3, <3>4, <3>5
  <2> QED
    BY <2>1, <2>2
<1>6. CASE SaveState
  BY <1>6 DEF SaveState
<1>7. ASSUME NEW s \in Stacks, ToggleWrite(s) PROVE Planned'
  BY <1>7 DEF ToggleWrite
<1>8. ASSUME NEW s \in Stacks, ToggleRecord(s) PROVE Planned'
  BY <1>8 DEF ToggleRecord
<1>9. ASSUME NEW x \in sites, LiveApply(x) PROVE Planned'
  BY <1>9 DEF LiveApply, FinishSite
<1>10. ASSUME NEW x \in sites, LiveFail(x) PROVE Planned'
  BY <1>10 DEF LiveFail, FinishSite
<1>11. ASSUME NEW s \in Stacks, LifecycleWrite(s) PROVE Planned'
  BY <1>11 DEF LifecycleWrite
<1>12. CASE LifecycleRecord
  BY <1>12 DEF LifecycleRecord
<1>13. ASSUME NEW s \in Stacks, Act(s) PROVE Planned'
  BY <1>13 DEF Act
<1>14. ASSUME NEW s \in Stacks, Edit(s) PROVE Planned'
  BY <1>14 DEF Edit
<1>15. ASSUME NEW s \in Stacks, Exit(s) PROVE Planned'
  BY <1>15 DEF Exit
<1>16. ASSUME NEW s \in Stacks, Reload(s) PROVE Planned'
  BY <1>16 DEF Reload
<1>17. CASE Interrupt
  BY <1>17 DEF Interrupt
<1>18. CASE UNCHANGED vars
  BY <1>18 DEF vars
<1> QED
  BY <1>1, <1>2, <1>3, <1>4, <1>5, <1>6, <1>7, <1>8, <1>9, <1>10, <1>11, <1>12, <1>13, <1>14,
     <1>15, <1>16, <1>17, <1>18 DEF Next

(* A disabled user is rendered into no inbound. *)
LEMMA RenderHonours ==
    ASSUME NEW s \in Stacks, NEW off, Render(s, off) # None
    PROVE  Honours(Render(s, off), s, off)
  BY DEF Render, Honours, Keys

(* A toggle forgets no stack that an edit raced with. *)
LEMMA RememberedStep == Honest /\ [Next]_vars => Remembered'
<1> SUFFICES ASSUME Honest, [Next]_vars PROVE Remembered'
  OBVIOUS
<1> USE DEF Honest, Phases, Scoped, Remembered, Forgetful, Return, Toggles, Lifecycle, SitesOf,
   disk, plan, command
<1>1. ASSUME NEW T \in Targets, NEW u \in Users, NEW kind \in Toggles, BeginToggle(kind, T, u)
      PROVE  Remembered'
  <2>1. pc' = "plan" /\ scope' \subseteq T /\ sites' = UserSites(scope', u)
        /\ \A r \in scope' : Has(r, u)
    BY <1>1 DEF BeginToggle
  <2>2. ASSUME NEW r \in scope' PROVE SitesOf(r)' # {}
    <3>1. r \in Stacks /\ defs[r] \in Config
      BY <2>1, TargetsAreStacks, DefinitionsAssumption DEF Has, TypeOK, Maybe
    <3>2. PICK t \in Tags : <<t, u>> \in Keys(defs[r])
      BY <2>1 DEF Has
    <3>3. defs[r].clients[<<t, u>>] \in Creds
      BY <3>1, <3>2 DEF Keys, Config
    <3> DEFINE y == [stack |-> r, tag |-> t, cred |-> defs[r].clients[<<t, u>>]]
    <3>4. y \in UserSites(scope', u)
      BY <3>1, <3>2, <3>3 DEF UserSites, Site
    <3> QED
      BY <2>1, <3>4
  <2> QED
    BY <2>1, <2>2
<1>2. ASSUME NEW T \in Targets, NEW u \in Users, ClearStale(T, u) PROVE Remembered'
  BY <1>2 DEF ClearStale
<1>3. ASSUME NEW T \in Targets, NEW kind \in Lifecycle, BeginLifecycle(kind, T) PROVE Remembered'
  BY <1>3 DEF BeginLifecycle
<1>4. ASSUME NEW T \in Targets, NEW kind \in Lifecycle, BeginService(kind, T) PROVE Remembered'
  BY <1>4 DEF BeginService
<1>5. ASSUME NEW s \in Stacks, PlanToggle(s) PROVE Remembered'
  <2>1. CASE Return
    BY <2>1
  <2>2. CASE ~Return
    BY <1>5, <2>2 DEF PlanToggle
  <2> QED
    BY <2>1, <2>2
<1>6. CASE SaveState
  BY <1>6 DEF SaveState
<1>7. ASSUME NEW s \in Stacks, ToggleWrite(s) PROVE Remembered'
  BY <1>7 DEF ToggleWrite
<1>8. ASSUME NEW s \in Stacks, ToggleRecord(s) PROVE Remembered'
  BY <1>8 DEF ToggleRecord
<1>9. ASSUME NEW x \in sites, LiveApply(x) PROVE Remembered'
  <2>1. x.stack \in Stacks
    BY DEF TypeOK, Site
  <2>2. CASE Return
    BY <2>2
  <2>3. CASE ~Return
    <3>1. sites' = sites \ {x} /\ UNCHANGED <<pc, plan, todo, raced>> /\ pc = "live"
      BY <1>9, <2>3 DEF LiveApply, FinishSite
    <3> SUFFICES ASSUME op \in Toggles, NEW r \in raced, SitesOf(r)' = {}
                 PROVE  "raced" \in excused'[r]
      BY <3>1
    <3>2. r \in Stacks
      BY DEF TypeOK
    <3>3. CASE r = x.stack
      BY <1>9, <2>1, <3>2, <3>3 DEF LiveApply, Blame, Excuse
    <3>4. CASE r # x.stack
      <4>1. SitesOf(r) = {}
        BY <3>1, <3>4
      <4>2. "raced" \in excused[r]
        BY <3>1, <4>1
      <4> QED
        BY <1>9, <3>2, <4>2 DEF LiveApply, Blame, Excuse
    <3> QED
      BY <3>3, <3>4
  <2> QED
    BY <2>2, <2>3
<1>10. ASSUME NEW x \in sites, LiveFail(x) PROVE Remembered'
  <2>1. x.stack \in Stacks
    BY DEF TypeOK, Site
  <2>2. CASE Return
    BY <2>2
  <2>3. CASE ~Return
    <3>1. sites' = sites \ {x} /\ UNCHANGED <<pc, plan, todo, raced>> /\ pc = "live"
      BY <1>10, <2>3 DEF LiveFail, FinishSite
    <3> SUFFICES ASSUME op \in Toggles, NEW r \in raced, SitesOf(r)' = {}
                 PROVE  "raced" \in excused'[r]
      BY <3>1
    <3>2. r \in Stacks
      BY DEF TypeOK
    <3>3. CASE r = x.stack
      BY <1>10, <2>1, <3>2, <3>3 DEF LiveFail, Blame, Excuse
    <3>4. CASE r # x.stack
      <4>1. SitesOf(r) = {}
        BY <3>1, <3>4
      <4>2. "raced" \in excused[r]
        BY <3>1, <4>1
      <4> QED
        BY <1>10, <3>2, <4>2 DEF LiveFail, Blame, Excuse
    <3> QED
      BY <3>3, <3>4
  <2> QED
    BY <2>2, <2>3
<1>11. ASSUME NEW s \in Stacks, LifecycleWrite(s) PROVE Remembered'
  BY <1>11 DEF LifecycleWrite, TypeOK
<1>12. CASE LifecycleRecord
  BY <1>12 DEF LifecycleRecord
<1>13. ASSUME NEW s \in Stacks, Act(s) PROVE Remembered'
  BY <1>13 DEF Act, TypeOK
<1>14. ASSUME NEW s \in Stacks, Edit(s) PROVE Remembered'
  BY <1>14 DEF Edit, TypeOK
<1>15. ASSUME NEW s \in Stacks, Exit(s) PROVE Remembered'
  BY <1>15 DEF Exit
<1>16. ASSUME NEW s \in Stacks, Reload(s) PROVE Remembered'
  BY <1>16 DEF Reload, TypeOK, Settle, OnDisk
<1>17. CASE Interrupt
  BY <1>17 DEF Interrupt
<1>18. CASE UNCHANGED vars
  BY <1>18 DEF vars
<1> QED
  BY <1>1, <1>2, <1>3, <1>4, <1>5, <1>6, <1>7, <1>8, <1>9, <1>10, <1>11, <1>12, <1>13, <1>14,
     <1>15, <1>16, <1>17, <1>18 DEF Next

(* No plan serves a user it has to leave out. *)
LEMMA PlansStep == Honest /\ [Next]_vars => PlansHonour'
<1> SUFFICES ASSUME Honest, [Next]_vars PROVE PlansHonour'
  OBVIOUS
<1> USE DEF Honest, Phases, Scoped, PlansHonour, Off, Honours, Forgetful, Return, Toggles,
   Lifecycle, disk, plan, command
<1>1. ASSUME NEW T \in Targets, NEW u \in Users, NEW kind \in Toggles, BeginToggle(kind, T, u)
      PROVE  PlansHonour'
  BY <1>1 DEF BeginToggle
<1>2. ASSUME NEW T \in Targets, NEW u \in Users, ClearStale(T, u) PROVE PlansHonour'
  BY <1>2 DEF ClearStale
<1>3. ASSUME NEW T \in Targets, NEW kind \in Lifecycle, BeginLifecycle(kind, T) PROVE PlansHonour'
  <2>1. op' \notin Toggles /\ UNCHANGED disabled
        /\ gen' = [r \in Stacks |-> IF r \in T THEN Render(r, disabled) ELSE None]
    BY <1>3 DEF BeginLifecycle
  <2> QED
    BY <2>1, RenderHonours
<1>4. ASSUME NEW T \in Targets, NEW kind \in Lifecycle, BeginService(kind, T) PROVE PlansHonour'
  BY <1>4 DEF BeginService
<1>5. ASSUME NEW s \in Stacks, PlanToggle(s) PROVE PlansHonour'
  <2>1. CASE Return
    BY <2>1
  <2>2. CASE ~Return
    <3>1. op \in Toggles /\ UNCHANGED <<op, next>> /\ gen' = [gen EXCEPT ![s] = Render(s, next)]
      BY <1>5, <2>2 DEF PlanToggle
    <3>2. gen'[s] # None => Honours(gen'[s], s, next)
      BY <3>1, RenderHonours DEF TypeOK
    <3> QED
      BY <3>1, <3>2 DEF TypeOK
  <2> QED
    BY <2>1, <2>2
<1>6. CASE SaveState
  BY <1>6 DEF SaveState
<1>7. ASSUME NEW s \in Stacks, ToggleWrite(s) PROVE PlansHonour'
  BY <1>7 DEF ToggleWrite
<1>8. ASSUME NEW s \in Stacks, ToggleRecord(s) PROVE PlansHonour'
  BY <1>8 DEF ToggleRecord
<1>9. ASSUME NEW x \in sites, LiveApply(x) PROVE PlansHonour'
  <2>1. CASE Return
    BY <2>1
  <2>2. CASE ~Return
    BY <1>9, <2>2 DEF LiveApply, FinishSite
  <2> QED
    BY <2>1, <2>2
<1>10. ASSUME NEW x \in sites, LiveFail(x) PROVE PlansHonour'
  <2>1. CASE Return
    BY <2>1
  <2>2. CASE ~Return
    BY <1>10, <2>2 DEF LiveFail, FinishSite
  <2> QED
    BY <2>1, <2>2
<1>11. ASSUME NEW s \in Stacks, LifecycleWrite(s) PROVE PlansHonour'
  BY <1>11 DEF LifecycleWrite
<1>12. CASE LifecycleRecord
  BY <1>12 DEF LifecycleRecord
<1>13. ASSUME NEW s \in Stacks, Act(s) PROVE PlansHonour'
  BY <1>13 DEF Act
<1>14. ASSUME NEW s \in Stacks, Edit(s) PROVE PlansHonour'
  BY <1>14 DEF Edit
<1>15. ASSUME NEW s \in Stacks, Exit(s) PROVE PlansHonour'
  BY <1>15 DEF Exit
<1>16. ASSUME NEW s \in Stacks, Reload(s) PROVE PlansHonour'
  BY <1>16 DEF Reload
<1>17. CASE Interrupt
  BY <1>17 DEF Interrupt
<1>18. CASE UNCHANGED vars
  BY <1>18 DEF vars
<1> QED
  BY <1>1, <1>2, <1>3, <1>4, <1>5, <1>6, <1>7, <1>8, <1>9, <1>10, <1>11, <1>12, <1>13, <1>14,
     <1>15, <1>16, <1>17, <1>18 DEF Next

(* What the command has written is what it planned. *)
LEMMA WrittenStep == Honest /\ [Next]_vars => WrittenAsPlanned'
<1> SUFFICES ASSUME Honest, [Next]_vars PROVE WrittenAsPlanned'
  OBVIOUS
<1> USE DEF Honest, Phases, Scoped, WrittenAsPlanned, Written, Forgetful, Return, Toggles,
   Lifecycle, TypeOK, disk, plan, command
<1>1. ASSUME NEW T \in Targets, NEW u \in Users, NEW kind \in Toggles, BeginToggle(kind, T, u)
      PROVE  WrittenAsPlanned'
  BY <1>1 DEF BeginToggle
<1>2. ASSUME NEW T \in Targets, NEW u \in Users, ClearStale(T, u) PROVE WrittenAsPlanned'
  BY <1>2 DEF ClearStale
<1>3. ASSUME NEW T \in Targets, NEW kind \in Lifecycle, BeginLifecycle(kind, T)
      PROVE  WrittenAsPlanned'
  BY <1>3 DEF BeginLifecycle
<1>4. ASSUME NEW T \in Targets, NEW kind \in Lifecycle, BeginService(kind, T)
      PROVE  WrittenAsPlanned'
  BY <1>4 DEF BeginService
<1>5. ASSUME NEW s \in Stacks, PlanToggle(s) PROVE WrittenAsPlanned'
  <2>1. CASE Return
    BY <2>1
  <2>2. CASE ~Return
    BY <1>5, <2>2 DEF PlanToggle
  <2> QED
    BY <2>1, <2>2
<1>6. CASE SaveState
  BY <1>6 DEF SaveState
<1>7. ASSUME NEW s \in Stacks, ToggleWrite(s) PROVE WrittenAsPlanned'
  BY <1>7, StacksAssumption DEF ToggleWrite, First
<1>8. ASSUME NEW s \in Stacks, ToggleRecord(s) PROVE WrittenAsPlanned'
  BY <1>8 DEF ToggleRecord, First
<1>9. ASSUME NEW x \in sites, LiveApply(x) PROVE WrittenAsPlanned'
  BY <1>9 DEF LiveApply, FinishSite
<1>10. ASSUME NEW x \in sites, LiveFail(x) PROVE WrittenAsPlanned'
  BY <1>10 DEF LiveFail, FinishSite
<1>11. ASSUME NEW s \in Stacks, LifecycleWrite(s) PROVE WrittenAsPlanned'
  BY <1>11 DEF LifecycleWrite, First
<1>12. CASE LifecycleRecord
  BY <1>12 DEF LifecycleRecord
<1>13. ASSUME NEW s \in Stacks, Act(s) PROVE WrittenAsPlanned'
  BY <1>13 DEF Act
<1>14. ASSUME NEW s \in Stacks, Edit(s) PROVE WrittenAsPlanned'
  BY <1>14 DEF Edit
<1>15. ASSUME NEW s \in Stacks, Exit(s) PROVE WrittenAsPlanned'
  BY <1>15 DEF Exit
<1>16. ASSUME NEW s \in Stacks, Reload(s) PROVE WrittenAsPlanned'
  BY <1>16 DEF Reload
<1>17. CASE Interrupt
  BY <1>17 DEF Interrupt
<1>18. CASE UNCHANGED vars
  BY <1>18 DEF vars
<1> QED
  BY <1>1, <1>2, <1>3, <1>4, <1>5, <1>6, <1>7, <1>8, <1>9, <1>10, <1>11, <1>12, <1>13, <1>14,
     <1>15, <1>16, <1>17, <1>18 DEF Next

(* The files keep honouring the state file. *)
LEMMA FilesStep == Honest /\ [Next]_vars => FilesHonour'
<1> SUFFICES ASSUME Honest, [Next]_vars PROVE FilesHonour'
  OBVIOUS
<1> USE DEF Honest, Forgetful, Phases, Scoped, Return, Toggles, Lifecycle, disk, plan, command
<1>1. ASSUME NEW T \in Targets, NEW u \in Users, NEW kind \in Toggles, BeginToggle(kind, T, u)
      PROVE  FilesHonour'
  BY <1>1 DEF BeginToggle, FilesHonour, Unwritten, Excused, Honours
<1>2. ASSUME NEW T \in Targets, NEW u \in Users, ClearStale(T, u) PROVE FilesHonour'
  BY <1>2 DEF ClearStale, FilesHonour, Unwritten, Excused, Honours
<1>3. ASSUME NEW T \in Targets, NEW kind \in Lifecycle, BeginLifecycle(kind, T) PROVE FilesHonour'
  BY <1>3 DEF BeginLifecycle, FilesHonour, Unwritten, Excused, Honours
<1>4. ASSUME NEW T \in Targets, NEW kind \in Lifecycle, BeginService(kind, T) PROVE FilesHonour'
  BY <1>4 DEF BeginService, FilesHonour, Unwritten, Excused, Honours
<1>5. ASSUME NEW s \in Stacks, PlanToggle(s) PROVE FilesHonour'
  BY <1>5 DEF PlanToggle, FilesHonour, Unwritten, Excused, Honours
<1>6. CASE SaveState
  BY <1>6 DEF SaveState, FilesHonour, Unwritten, Excused, Honours, StateSaved
<1>7. ASSUME NEW s \in Stacks, ToggleWrite(s) PROVE FilesHonour'
  <2> SUFFICES ASSUME NEW r \in Stacks, files'[r] # None, ~Excused(r)', ~Unwritten(r)',
                      r \notin raced' \/ pc' \in {"plan", "save"}
               PROVE  Honours(files'[r], r, disabled')
    BY DEF FilesHonour, Honours, Keys
  <2>1. r # s
    BY <1>7 DEF ToggleWrite, Unwritten, First
  <2>2. files'[r] = files[r] /\ ~Unwritten(r)
    BY <1>7, <2>1 DEF ToggleWrite, Unwritten, TypeOK
  <2> QED
    BY <1>7, <2>2 DEF ToggleWrite, FilesHonour, Excused
<1>8. ASSUME NEW s \in Stacks, ToggleRecord(s) PROVE FilesHonour'
  <2> SUFFICES ASSUME NEW r \in Stacks, files'[r] # None, ~Excused(r)', ~Unwritten(r)',
                      r \notin raced' \/ pc' \in {"plan", "save"}
               PROVE  Honours(files'[r], r, disabled')
    BY DEF FilesHonour, Honours, Keys
  <2>1. op \in Toggles /\ pc = "record" /\ First(s, todo) /\ disabled = next
        /\ UNCHANGED <<files, disabled, excused, raced>> /\ todo' = todo \ {s}
    BY <1>8 DEF ToggleRecord, StateSaved
  <2>2. r \notin raced
    BY <1>8, <2>1 DEF ToggleRecord
  <2>3. CASE r = s
    <3>1. gen[s] # None
      BY <2>1, <2>2, <2>3 DEF First, TypeOK, Planned
    <3>2. files[s] = gen[s]
      BY <2>1, <3>1 DEF WrittenAsPlanned, Written
    <3> QED
      BY <2>1, <2>3, <3>1, <3>2 DEF PlansHonour, Off
  <2>4. CASE r # s
    <3>1. ~Unwritten(r)
      BY <1>8, <2>1, <2>4 DEF ToggleRecord, Unwritten
    <3> QED
      BY <2>1, <2>2, <3>1 DEF FilesHonour, Excused
  <2> QED
    BY <2>3, <2>4
<1>9. ASSUME NEW x \in sites, LiveApply(x) PROVE FilesHonour'
  <2> SUFFICES ASSUME NEW r \in Stacks, files'[r] # None, ~Excused(r)', ~Unwritten(r)',
                      r \notin raced' \/ pc' \in {"plan", "save"}
               PROVE  Honours(files'[r], r, disabled')
    BY DEF FilesHonour, Honours, Keys
  <2>1. UNCHANGED <<files, disabled>> /\ pc = "live" /\ op \in Toggles /\ x.stack \in Stacks
    BY <1>9 DEF LiveApply, TypeOK, Site
  <2>2. ~Excused(r) /\ (r = x.stack => r \notin raced)
    BY <1>9 DEF LiveApply, Blame, Excuse, Excused, TypeOK
  <2>3. r \notin raced
    <3>1. CASE sites = {x}
      BY <2>1, <2>2, <3>1 DEF SitesOf, Remembered, Excused
    <3>2. CASE sites # {x}
      BY <1>9, <2>1, <3>2 DEF LiveApply, FinishSite
    <3> QED
      BY <3>1, <3>2
  <2> QED
    BY <2>1, <2>2, <2>3 DEF FilesHonour, Unwritten
<1>10. ASSUME NEW x \in sites, LiveFail(x) PROVE FilesHonour'
  <2> SUFFICES ASSUME NEW r \in Stacks, files'[r] # None, ~Excused(r)', ~Unwritten(r)',
                      r \notin raced' \/ pc' \in {"plan", "save"}
               PROVE  Honours(files'[r], r, disabled')
    BY DEF FilesHonour, Honours, Keys
  <2>1. UNCHANGED <<files, disabled>> /\ pc = "live" /\ op \in Toggles /\ x.stack \in Stacks
    BY <1>10 DEF LiveFail, TypeOK, Site
  <2>2. ~Excused(r) /\ (r = x.stack => r \notin raced)
    BY <1>10 DEF LiveFail, Blame, Excuse, Excused, TypeOK
  <2>3. r \notin raced
    <3>1. CASE sites = {x}
      BY <2>1, <2>2, <3>1 DEF SitesOf, Remembered, Excused
    <3>2. CASE sites # {x}
      BY <1>10, <2>1, <3>2 DEF LiveFail, FinishSite
    <3> QED
      BY <3>1, <3>2
  <2> QED
    BY <2>1, <2>2, <2>3 DEF FilesHonour, Unwritten
<1>11. ASSUME NEW s \in Stacks, LifecycleWrite(s) PROVE FilesHonour'
  <2> SUFFICES ASSUME NEW r \in Stacks, files'[r] # None, ~Excused(r)', ~Unwritten(r)',
                      r \notin raced' \/ pc' \in {"plan", "save"}
               PROVE  Honours(files'[r], r, disabled')
    BY DEF FilesHonour, Honours, Keys
  <2>1. op \notin Toggles /\ UNCHANGED <<disabled, raced, op>> /\ raced = {}
    BY <1>11 DEF LifecycleWrite
  <2>2. CASE r = s /\ gen[s] # None
    <3>1. files'[r] = gen[s]
      BY <1>11, <2>2 DEF LifecycleWrite, TypeOK
    <3> QED
      BY <2>1, <2>2, <3>1 DEF PlansHonour, Off
  <2>3. CASE r # s \/ gen[s] = None
    <3>1. files'[r] = files[r]
      BY <1>11, <2>3 DEF LifecycleWrite, TypeOK
    <3>2. ~Excused(r)
      BY <1>11 DEF LifecycleWrite, Excuse, Excused
    <3> QED
      BY <2>1, <3>1, <3>2 DEF FilesHonour, Unwritten
  <2> QED
    BY <2>2, <2>3
<1>12. CASE LifecycleRecord
  BY <1>12 DEF LifecycleRecord, FilesHonour, Unwritten, Excused, Honours
<1>13. ASSUME NEW s \in Stacks, Act(s) PROVE FilesHonour'
  <2> SUFFICES ASSUME NEW r \in Stacks, files'[r] # None, ~Excused(r)', ~Unwritten(r)',
                      r \notin raced' \/ pc' \in {"plan", "save"}
               PROVE  Honours(files'[r], r, disabled')
    BY DEF FilesHonour, Honours, Keys
  <2>1. pc = "act" /\ op \notin Toggles /\ raced = {} /\ UNCHANGED <<disabled, files>>
    BY <1>13 DEF Act
  <2>2. CASE Excused(r)
    <3>1. op # "stop" /\ gen[r] # None
      BY <1>13, <2>2 DEF Act, Settle, Excuse, Excused, OnDisk, TypeOK
    <3>2. files[r] = gen[r]
      BY <2>1, <3>1 DEF WrittenAsPlanned, Written
    <3> QED
      BY <2>1, <3>1, <3>2 DEF PlansHonour, Off
  <2>3. CASE ~Excused(r)
    BY <2>1, <2>3 DEF FilesHonour, Unwritten
  <2> QED
    BY <2>2, <2>3
<1>14. ASSUME NEW s \in Stacks, Edit(s) PROVE FilesHonour'
  BY <1>14 DEF Edit, FilesHonour, Unwritten, Excused, Honours
<1>15. ASSUME NEW s \in Stacks, Exit(s) PROVE FilesHonour'
  BY <1>15 DEF Exit, FilesHonour, Unwritten, Excused, Honours
<1>16. ASSUME NEW s \in Stacks, Reload(s) PROVE FilesHonour'
  BY <1>16 DEF Reload, FilesHonour, Unwritten, Excused, Honours, Settle, OnDisk, TypeOK
<1>17. CASE Interrupt
  <2> SUFFICES ASSUME NEW r \in Stacks, files'[r] # None, ~Excused(r)', ~Unwritten(r)',
                      r \notin raced' \/ pc' \in {"plan", "save"}
               PROVE  Honours(files'[r], r, disabled')
    BY DEF FilesHonour, Honours, Keys
  <2>1. UNCHANGED <<disabled, files>> /\ ~Excused(r)
    BY <1>17 DEF Interrupt, Excuse, Excused, TypeOK
  <2>2. CASE pc \in {"plan", "save"}
    BY <2>1, <2>2 DEF FilesHonour, Unwritten
  <2>3. CASE pc \notin {"plan", "save"} /\ op \in Toggles
    <3>1. r \notin scope
      BY <1>17, <2>3 DEF Interrupt, Excuse, Excused, Rewrites, TypeOK
    <3>2. r \notin raced /\ ~Unwritten(r)
      BY <3>1 DEF TypeOK, Unwritten
    <3> QED
      BY <2>1, <3>2 DEF FilesHonour
  <2>4. CASE op \notin Toggles
    BY <2>1, <2>4 DEF FilesHonour, Unwritten
  <2> QED
    BY <2>2, <2>3, <2>4
<1>18. CASE UNCHANGED vars
  BY <1>18 DEF vars, FilesHonour, Unwritten, Excused, Honours
<1> QED
  BY <1>1, <1>2, <1>3, <1>4, <1>5, <1>6, <1>7, <1>8, <1>9, <1>10, <1>11, <1>12, <1>13, <1>14,
     <1>15, <1>16, <1>17, <1>18 DEF Next

(* A machine on which nothing was applied yet. *)
LEMMA HonestInit == Init => Honest
<1> SUFFICES ASSUME Init PROVE Honest
  OBVIOUS
<1>1. TypeOK
  BY TypeInit
<1>2. Forgetful /\ Phases /\ Scoped /\ StateSaved /\ Planned
  BY DEF Init, Forgetful, Phases, Scoped, StateSaved, Planned
<1>3. Remembered /\ PlansHonour /\ WrittenAsPlanned /\ FilesHonour
  BY DEF Init, Remembered, PlansHonour, WrittenAsPlanned, FilesHonour
<1> QED
  BY <1>1, <1>2, <1>3 DEF Honest

(* No step leaves the invariant ... *)
LEMMA HonestStep == Honest /\ [Next]_vars => Honest'
<1> SUFFICES ASSUME Honest, [Next]_vars PROVE Honest'
  OBVIOUS
<1>1. TypeOK'
  BY TypeStep DEF Honest
<1> QED
  BY <1>1, BookStep, SavedStep, PlannedStep, RememberedStep, PlansStep, WrittenStep, FilesStep
     DEF Honest

(* ... so every reachable state satisfies it. *)
LEMMA AlwaysHonest == Spec => []Honest
  BY HonestInit, HonestStep, PTL DEF Spec

\* Between commands no generated file serves a user whom disabled.json lists, whatever toggles,
\* restarts, edits and API failures came before, unless a command was killed or an edit fell between
\* its two reads: planning before saving is enough, for any number of stacks, inbounds and users.
THEOREM FilesAgree == Spec => []FilesHonourDisabled
<1>1. Honest => FilesHonourDisabled
  BY DEF Honest, FilesHonour, FilesHonourDisabled, Excused, Honours
<1> QED
  BY <1>1, AlwaysHonest, PTL

(* The manifest of a machine with one stack: what a command remembers of it. *)

OneStack == \A r, s \in Stacks : r = s

\* What is planned for a stack is what the manifest will say of it, and a stack without a plan has
\* no entry, unless its file is to be deleted; the entry lags behind the file only in between.
Recorded ==
    /\ op \in Toggles \/ pc = "idle" => drop = {}
    /\ \A s \in Stacks :
          /\ pc # "record" /\ files[s] # None /\ "interrupted" \notin excused[s]
                => manifest[s] = files[s]
          /\ pc \in {"save", "write", "record"} =>
                /\ \A r \in Stacks : ledger[r][s] = gen[s]
                /\ gen[s] = None => manifest[s] = None \/ s \in drop
          /\ pc = "record" =>
                /\ s \in drop => files[s] = None
                /\ gen[s] = None /\ files[s] # None => "interrupted" \in excused[s]
          /\ pc = "act" /\ op # "stop" /\ gen[s] # None => manifest[s] = files[s]

(* Planning, writing and recording keep it: the one stack is all that is left to do. *)
LEMMA RecordedStep == OneStack /\ Honest /\ Recorded /\ [Next]_vars => Recorded'
<1> SUFFICES ASSUME OneStack, Honest, Recorded, [Next]_vars PROVE Recorded'
  OBVIOUS
<1> USE DEF OneStack, Recorded, Toggles, Lifecycle, disk, plan, command
<1>t. TypeOK /\ Forgetful /\ Phases /\ Scoped /\ WrittenAsPlanned
  BY DEF Honest
<1> HIDE DEF Honest
<1>1. ASSUME NEW T \in Targets, NEW u \in Users, NEW kind \in Toggles, BeginToggle(kind, T, u)
      PROVE  Recorded'
  BY <1>1, <1>t DEF BeginToggle, Forgetful
<1>2. ASSUME NEW T \in Targets, NEW u \in Users, ClearStale(T, u) PROVE Recorded'
  BY <1>2 DEF ClearStale
<1>3. ASSUME NEW T \in Targets, NEW kind \in Lifecycle, BeginLifecycle(kind, T) PROVE Recorded'
  <2>1. T = Stacks
    BY <1>3 DEF BeginLifecycle, Targets
  <2>2. ASSUME NEW s \in Stacks, NEW r \in Stacks
        PROVE  ledger'[r][s] = gen'[s] /\ (gen'[s] = None => manifest[s] = None \/ s \in drop')
    BY <1>3, <2>1 DEF BeginLifecycle, ManifestAfter, Deleted
  <2>3. UNCHANGED <<files, manifest, excused>> /\ pc = "idle" /\ op' = kind
        /\ pc' = (IF kind = "stop" THEN "act" ELSE "write")
    BY <1>3 DEF BeginLifecycle
  <2> QED
    BY <2>2, <2>3
<1>4. ASSUME NEW T \in Targets, NEW kind \in Lifecycle, BeginService(kind, T) PROVE Recorded'
  BY <1>4, <1>t DEF BeginService, Forgetful
<1>5. ASSUME NEW s \in Stacks, PlanToggle(s) PROVE Recorded'
  <2>1. pc = "plan" /\ op \in Toggles /\ drop = {} /\ UNCHANGED <<files, manifest, excused>>
    BY <1>5, <1>t DEF PlanToggle, Phases
  <2>2. CASE Return
    BY <2>1, <2>2 DEF Return
  <2>3. CASE ~Return
    <3>1. /\ ~(RenderFails(s, next) \/ ~UsersOnlyPlan(s))
          /\ gen' = [gen EXCEPT ![s] = Render(s, next)]
          /\ ledger' = [ledger EXCEPT ![s] = ManifestAfter({s}, next)]
          /\ drop' = drop /\ pc' \in {"save", "plan"}
      BY <1>5, <2>3 DEF PlanToggle
    <3>2. gen'[s] = Render(s, next) /\ ledger'[s][s] = gen'[s]
      BY <3>1, <1>t DEF ManifestAfter, TypeOK
    <3>3. gen'[s] = None => manifest[s] = None
      BY <3>1, <3>2 DEF UsersOnlyPlan, Deleted
    <3> QED
      BY <2>1, <3>1, <3>2, <3>3
  <2> QED
    BY <2>2, <2>3
<1>6. CASE SaveState
  BY <1>6 DEF SaveState
<1>7. ASSUME NEW s \in Stacks, ToggleWrite(s) PROVE Recorded'
  <2>1. /\ pc = "write" /\ pc' = "record" /\ drop = {}
        /\ files' = IF gen[s] = None THEN files ELSE [files EXCEPT ![s] = gen[s]]
        /\ UNCHANGED <<op, manifest, gen, ledger, drop, excused>>
    BY <1>7 DEF ToggleWrite
  <2> QED
    BY <2>1, <1>t DEF TypeOK
<1>8. ASSUME NEW s \in Stacks, ToggleRecord(s) PROVE Recorded'
  <2>1. /\ pc = "record" /\ op \in Toggles /\ First(s, todo) /\ drop = {} /\ manifest' = ledger[s]
        /\ pc' \in {"live", "write"}
        /\ UNCHANGED <<op, files, gen, ledger, drop, excused>>
    BY <1>8 DEF ToggleRecord
  <2>2. manifest'[s] = gen[s] /\ (gen[s] # None => files[s] = gen[s])
    BY <2>1, <1>t DEF WrittenAsPlanned, Written
  <2> QED
    BY <2>1, <2>2
<1>9. ASSUME NEW x \in sites, LiveApply(x) \/ LiveFail(x) PROVE Recorded'
  <2>1. /\ pc = "live" /\ UNCHANGED <<files, manifest>> /\ op \in Toggles
        /\ \A s \in Stacks : "interrupted" \in excused[s] => "interrupted" \in excused'[s]
    BY <1>9, <1>t DEF LiveApply, LiveFail, Blame, Excuse, Phases
  <2>2. CASE Return
    BY <2>1, <2>2 DEF Return
  <2>3. CASE UNCHANGED <<pc, plan, todo, raced>>
    BY <2>1, <2>3
  <2> QED
    BY <1>9, <2>2, <2>3 DEF LiveApply, LiveFail, FinishSite
<1>10. ASSUME NEW s \in Stacks, LifecycleWrite(s) PROVE Recorded'
  <2>1. /\ pc = "write" /\ op \in Lifecycle /\ First(s, todo)
        /\ files' = CASE s \in drop -> [files EXCEPT ![s] = None]
                      [] gen[s] # None -> [files EXCEPT ![s] = gen[s]]
                      [] OTHER -> files
        /\ pc' = (IF todo = {s} THEN "record" ELSE "write")
        /\ UNCHANGED <<op, manifest, gen, ledger, drop>>
    BY <1>10 DEF LifecycleWrite
  <2>2. todo = {s}
    BY <2>1, <1>t DEF First, TypeOK
  <2>3. \A r \in Stacks : "interrupted" \in excused[r] <=> "interrupted" \in excused'[r]
    BY <1>10 DEF LifecycleWrite, Excuse
  <2>4. gen[s] # None => s \notin drop
    BY <2>1, <1>t DEF Scoped
  <2>5. /\ s \in drop => files'[s] = None
        /\ gen[s] = None /\ s \notin drop => files'[s] = files[s]
    <3>1. files \in [Stacks -> Maybe(Config)]
      BY <1>t DEF TypeOK
    <3>2. CASE s \in drop
      BY <2>1, <2>4, <3>1, <3>2
    <3>3. CASE s \notin drop /\ gen[s] = None
      <4>1. files' = files
        BY <2>1, <3>3
      <4> QED
        BY <3>3, <4>1
    <3> QED
      BY <3>2, <3>3
  <2> QED
    BY <2>1, <2>2, <2>3, <2>4, <2>5
<1>11. CASE LifecycleRecord
  <2>1. /\ pc = "record" /\ op \in Lifecycle /\ \E s \in scope : manifest' = ledger[s]
        /\ UNCHANGED <<files, excused>>
    BY <1>11 DEF LifecycleRecord
  <2>2. \A s \in Stacks : manifest'[s] = gen[s]
    BY <2>1, <1>t DEF TypeOK
  <2>3. \A s \in Stacks : gen[s] # None => files[s] = gen[s]
    BY <2>1, <1>t DEF WrittenAsPlanned, Written
  <2>4. CASE Return
    BY <2>1, <2>2, <2>3, <2>4 DEF Return
  <2>5. CASE pc' = "act" /\ UNCHANGED plan
    BY <2>1, <2>2, <2>3, <2>5
  <2> QED
    BY <1>11, <2>4, <2>5 DEF LifecycleRecord
<1>12. ASSUME NEW s \in Stacks, Act(s) PROVE Recorded'
  <2>1. /\ pc = "act" /\ op \in Lifecycle /\ UNCHANGED <<files, manifest>>
    BY <1>12, <1>t DEF Act, Phases
  <2>2. ASSUME NEW r \in Stacks, files[r] # None, "interrupted" \notin excused'[r]
        PROVE  manifest[r] = files[r]
    <3>1. "interrupted" \notin excused[r] \/ (op # "stop" /\ gen[r] # None)
      BY <1>12, <1>t, <2>2 DEF Act, Settle, Excuse, OnDisk, TypeOK
    <3> QED
      BY <2>1, <2>2, <3>1
  <2>3. CASE Return
    BY <2>1, <2>2, <2>3 DEF Return
  <2>4. CASE UNCHANGED <<pc, plan>>
    BY <2>1, <2>2, <2>4
  <2> QED
    BY <1>12, <2>3, <2>4 DEF Act
<1>13. ASSUME NEW s \in Stacks, Edit(s) PROVE Recorded'
  BY <1>13 DEF Edit
<1>14. ASSUME NEW s \in Stacks, Exit(s) PROVE Recorded'
  BY <1>14 DEF Exit
<1>15. ASSUME NEW s \in Stacks, Reload(s) PROVE Recorded'
  <2>1. \A r \in Stacks : "interrupted" \in excused[r] => "interrupted" \in excused'[r]
    BY <1>15, <1>t DEF Reload, Settle, OnDisk, TypeOK
  <2>2. UNCHANGED <<disk, command>>
    BY <1>15 DEF Reload
  <2> QED
    BY <2>1, <2>2
<1>16. CASE Interrupt
  <2>1. Return /\ UNCHANGED <<files, manifest>> /\ pc # "idle"
    BY <1>16 DEF Interrupt
  <2>2. ASSUME NEW s \in Stacks, files[s] # None, "interrupted" \notin excused'[s]
        PROVE  manifest[s] = files[s]
    <3>1. "interrupted" \notin excused[s]
      BY <1>16, <2>2 DEF Interrupt, Excuse
    <3>2. CASE pc # "record"
      BY <2>2, <3>1, <3>2
    <3>3. CASE pc = "record"
      <4>1. gen[s] # None /\ op # "stop"
        BY <2>1, <2>2, <3>1, <3>3, <1>t DEF Phases
      <4>2. s \in scope /\ Rewrites(s)
        BY <4>1, <1>t DEF Scoped, Rewrites
      <4>3. excused' = Excuse({r \in scope : Rewrites(r)}, {"interrupted"})
        BY <1>16, <3>3, <4>1 DEF Interrupt
      <4> QED
        BY <2>2, <4>2, <4>3 DEF Excuse
    <3> QED
      BY <3>2, <3>3
  <2> QED
    BY <2>1, <2>2 DEF Return
<1>17. CASE UNCHANGED vars
  BY <1>17 DEF vars
<1> QED
  BY <1>1, <1>2, <1>3, <1>4, <1>5, <1>6, <1>7, <1>8, <1>9, <1>10, <1>11, <1>12, <1>13, <1>14,
     <1>15, <1>16, <1>17 DEF Next

\* With one stack the manifest is the last applied result, whatever toggles, restarts, edits and
\* kills came before: only a toggle of several stacks can lose an entry (planUserChange builds each
\* manifest from the one before the command).
THEOREM OneManifestRecords ==
    ASSUME OneStack
    PROVE  Spec => []ManifestRecordsLastApply
<1>1. Init => Recorded
  BY DEF Init, Recorded
<1>2. Recorded => ManifestRecordsLastApply
  BY DEF Recorded, ManifestRecordsLastApply
<1>3. Honest /\ Recorded /\ [Next]_vars => Recorded'
  BY RecordedStep
<1> QED
  BY <1>1, <1>2, <1>3, AlwaysHonest, PTL DEF Spec

=============================================================================
