-------------------------- MODULE AgentDriftProofs --------------------------
(* A running instance serves its file, a disabled user nowhere, and no inbound without users: *)
(* what the guard of user disable / enable, the warnings and the restarts together come to.   *)
EXTENDS AgentRuntimeProofs

Toggling == op \in Toggles /\ pc \in {"plan", "save", "write", "record", "live"}

\* What the toggle is about: one user, its own stacks, and their state as it is to become.
Aim ==
    Toggling =>
        /\ user \in Users
        /\ \A x \in sites : x.stack \in scope
        /\ \A s \in scope : <<s, user>> \in next <=> op = "disable"

\* A stack that is still to be planned, and was not edited, has the user where the toggle saw it.
Seen ==
    Toggling /\ pc = "plan" =>
        \A s \in todo \ raced : Expected(s) \subseteq Keys(defs[s])

PlannedFor(s) == s \in scope /\ (pc # "plan" \/ s \notin todo)

\* The clients k once the toggle has changed those of E.
After(k, E) == IF op = "disable" THEN k \ E ELSE k \cup E

\* Whatever the plan of a stack is made from, it has the toggle in it.
PlansToggle ==
    Toggling =>
        \A s \in Stacks : PlannedFor(s) /\ s \notin raced =>
            Keys(gen[s]) = After(Keys(gen[s]), Expected(s))

\* UsersOnlyPlan was checked against the file that the plan will replace.
PlansChecked ==
    Toggling =>
        \A s \in Stacks : PlannedFor(s) /\ ~Written(s) /\ gen[s] # None /\ files[s] # None =>
            \/ files[s] = gen[s]
            \/ UsersOnlyChange(files[s], gen[s], Expected(s))

\* No file and no plan has an inbound without users.
Full ==
    \A s \in Stacks :
        /\ gen[s] # None => NoEmptyInbound(gen[s])
        /\ files[s] # None => NoEmptyInbound(files[s])

Answerable(s) == live[s] # None /\ excused[s] = {}

\* The toggle has written the file of s.
Toggled(s) == Toggling /\ s \in scope /\ Written(s)

\* A start or restart has written the file of s and has not come to its unit.
Lagging(s) ==
    /\ op \in {"start", "restart"} /\ gen[s] # None
    /\ pc = "record" \/ (pc = "write" /\ s \notin todo) \/ (pc = "act" /\ s \in todo)

Even(s) == files[s] # None /\ SameService(live[s], files[s])

\* What separates the instance from its file are the clients the toggle has still to change.
Behind(s) ==
    /\ files[s] # None /\ live[s].skel = files[s].skel
    /\ Keys(files[s]) = After(Keys(live[s]), Expected(s))

\* An instance lags behind its file only where the command in progress is at work.
InLine ==
    \A s \in Stacks : Answerable(s) =>
        /\ ~Toggled(s) /\ ~Lagging(s) => Even(s)
        /\ Toggled(s) /\ s \notin raced => Behind(s)

Steady ==
    /\ Honest /\ Aim /\ Seen /\ PlansToggle /\ PlansChecked
    /\ Full /\ InLine /\ NoInboundEmptied

-----------------------------------------------------------------------------
(* What a toggle plans. *)

(* A definition is rendered with the clients that are not switched off. *)
LEMMA RenderKeys ==
    ASSUME TypeOK, NEW s \in Stacks, NEW off, defs[s] # None
    PROVE  Keys(Render(s, off)) = {x \in Keys(defs[s]) : <<s, x[2]>> \notin off}
  BY DEF Render, Keys

(* A toggle expects changes of its own user's clients only. *)
LEMMA ExpectedKeys == ASSUME NEW s, NEW k \in Expected(s) PROVE k = <<k[1], k[2]>> /\ k[2] = user
  BY DEF Expected

(* The toggle keeps to its user and its stacks. *)
LEMMA AimStep == Steady /\ [Next]_vars => Aim'
<1> SUFFICES ASSUME Steady, [Next]_vars PROVE Aim'
  OBVIOUS
<1> USE DEF Steady, Honest, Forgetful, Phases, Scoped, Toggling, Return, Toggles, Lifecycle, disk,
   plan, command, Aim
<1>1. ASSUME NEW T \in Targets, NEW u \in Users, NEW kind \in Toggles, BeginToggle(kind, T, u)
      PROVE  Aim'
  BY <1>1 DEF BeginToggle, UserSites
<1>2. ASSUME NEW T \in Targets, NEW u \in Users, ClearStale(T, u) PROVE Aim'
  BY <1>2 DEF ClearStale
<1>3. ASSUME NEW T \in Targets, NEW kind \in Lifecycle, BeginLifecycle(kind, T) PROVE Aim'
  BY <1>3 DEF BeginLifecycle
<1>4. ASSUME NEW T \in Targets, NEW kind \in Lifecycle, BeginService(kind, T) PROVE Aim'
  BY <1>4 DEF BeginService
<1>5. ASSUME NEW s \in Stacks, PlanToggle(s) PROVE Aim'
  <2>1. CASE Return
    BY <2>1
  <2>2. CASE ~Return
    BY <1>5, <2>2 DEF PlanToggle
  <2> QED
    BY <2>1, <2>2
<1>6. CASE SaveState
  BY <1>6 DEF SaveState
<1>7. ASSUME NEW s \in Stacks, ToggleWrite(s) PROVE Aim'
  BY <1>7 DEF ToggleWrite
<1>8. ASSUME NEW s \in Stacks, ToggleRecord(s) PROVE Aim'
  BY <1>8 DEF ToggleRecord
<1>9. ASSUME NEW x \in sites, LiveApply(x) PROVE Aim'
  BY <1>9 DEF LiveApply, FinishSite
<1>10. ASSUME NEW x \in sites, LiveFail(x) PROVE Aim'
  BY <1>10 DEF LiveFail, FinishSite
<1>11. ASSUME NEW s \in Stacks, LifecycleWrite(s) PROVE Aim'
  BY <1>11 DEF LifecycleWrite
<1>12. CASE LifecycleRecord
  BY <1>12 DEF LifecycleRecord
<1>13. ASSUME NEW s \in Stacks, Act(s) PROVE Aim'
  BY <1>13 DEF Act
<1>14. ASSUME NEW s \in Stacks, Edit(s) PROVE Aim'
  BY <1>14 DEF Edit
<1>15. ASSUME NEW s \in Stacks, Exit(s) PROVE Aim'
  BY <1>15 DEF Exit
<1>16. ASSUME NEW s \in Stacks, Reload(s) PROVE Aim'
  BY <1>16 DEF Reload
<1>17. CASE Interrupt
  BY <1>17 DEF Interrupt
<1>18. CASE UNCHANGED vars
  BY <1>18 DEF vars
<1> QED
  BY <1>1, <1>2, <1>3, <1>4, <1>5, <1>6, <1>7, <1>8, <1>9, <1>10, <1>11, <1>12, <1>13, <1>14,
     <1>15, <1>16, <1>17, <1>18 DEF Next

(* A stack that loses the user before it is planned is one the toggle raced with. *)
LEMMA SeenStep == Steady /\ [Next]_vars => Seen'
<1> SUFFICES ASSUME Steady, [Next]_vars PROVE Seen'
  OBVIOUS
<1> USE DEF Steady, Honest, Forgetful, Phases, Scoped, Toggling, Return, Toggles, Lifecycle, disk,
   plan, command, Seen, Expected, SitesOf
<1>1. ASSUME NEW T \in Targets, NEW u \in Users, NEW kind \in Toggles, BeginToggle(kind, T, u)
      PROVE  Seen'
  <2>1. UNCHANGED defs /\ sites' = UserSites(scope', u) /\ user' = u /\ todo' = scope'
    BY <1>1 DEF BeginToggle
  <2>2. ASSUME NEW s \in Stacks, NEW k \in Expected(s)' PROVE k \in Keys(defs[s])
    <3>1. PICK x \in UserSites(scope', u) : x.stack = s /\ k = <<x.tag, u>>
      BY <2>1, <2>2
    <3> QED
      BY <3>1 DEF UserSites
  <2> QED
    BY <2>1, <2>2, TypeStep DEF TypeOK
<1>2. ASSUME NEW T \in Targets, NEW u \in Users, ClearStale(T, u) PROVE Seen'
  BY <1>2 DEF ClearStale
<1>3. ASSUME NEW T \in Targets, NEW kind \in Lifecycle, BeginLifecycle(kind, T) PROVE Seen'
  BY <1>3 DEF BeginLifecycle
<1>4. ASSUME NEW T \in Targets, NEW kind \in Lifecycle, BeginService(kind, T) PROVE Seen'
  BY <1>4 DEF BeginService
<1>5. ASSUME NEW s \in Stacks, PlanToggle(s) PROVE Seen'
  <2>1. CASE Return
    BY <2>1
  <2>2. CASE ~Return
    BY <1>5, <2>2 DEF PlanToggle
  <2> QED
    BY <2>1, <2>2
<1>6. CASE SaveState
  BY <1>6 DEF SaveState
<1>7. ASSUME NEW s \in Stacks, ToggleWrite(s) PROVE Seen'
  BY <1>7 DEF ToggleWrite
<1>8. ASSUME NEW s \in Stacks, ToggleRecord(s) PROVE Seen'
  BY <1>8 DEF ToggleRecord
<1>9. ASSUME NEW x \in sites, LiveApply(x) PROVE Seen'
  BY <1>9 DEF LiveApply, FinishSite
<1>10. ASSUME NEW x \in sites, LiveFail(x) PROVE Seen'
  BY <1>10 DEF LiveFail, FinishSite
<1>11. ASSUME NEW s \in Stacks, LifecycleWrite(s) PROVE Seen'
  BY <1>11 DEF LifecycleWrite
<1>12. CASE LifecycleRecord
  BY <1>12 DEF LifecycleRecord
<1>13. ASSUME NEW s \in Stacks, Act(s) PROVE Seen'
  BY <1>13 DEF Act
<1>14. ASSUME NEW s \in Stacks, Edit(s) PROVE Seen'
  BY <1>14 DEF Edit, TypeOK
<1>15. ASSUME NEW s \in Stacks, Exit(s) PROVE Seen'
  BY <1>15 DEF Exit
<1>16. ASSUME NEW s \in Stacks, Reload(s) PROVE Seen'
  BY <1>16 DEF Reload
<1>17. CASE Interrupt
  BY <1>17 DEF Interrupt
<1>18. CASE UNCHANGED vars
  BY <1>18 DEF vars
<1> QED
  BY <1>1, <1>2, <1>3, <1>4, <1>5, <1>6, <1>7, <1>8, <1>9, <1>10, <1>11, <1>12, <1>13, <1>14,
     <1>15, <1>16, <1>17, <1>18 DEF Next

(* Every plan has the toggle in it. *)
LEMMA PlansToggleStep == Steady /\ [Next]_vars => PlansToggle'
<1> SUFFICES ASSUME Steady, [Next]_vars PROVE PlansToggle'
  OBVIOUS
<1>0. ASSUME UNCHANGED <<pc, op, user, scope, todo, gen, sites>>, raced \subseteq raced'
      PROVE  PlansToggle'
  <2>1. \A s \in Stacks : Expected(s)' = Expected(s) /\ (PlannedFor(s)' <=> PlannedFor(s))
    BY <1>0 DEF Expected, SitesOf, PlannedFor
  <2> QED
    BY <1>0, <2>1 DEF Steady, PlansToggle, Toggling, After
<1> USE DEF Steady, Honest, Forgetful, Phases, Scoped, Toggling, Return, Toggles, Lifecycle, disk,
   plan, command
<1>1. ASSUME NEW T \in Targets, NEW u \in Users, NEW kind \in Toggles, BeginToggle(kind, T, u)
      PROVE  PlansToggle'
  BY <1>1 DEF BeginToggle, PlansToggle, PlannedFor, After, Expected, SitesOf
<1>2. ASSUME NEW T \in Targets, NEW u \in Users, ClearStale(T, u) PROVE PlansToggle'
  BY <1>2 DEF ClearStale, PlansToggle, PlannedFor, After, Expected, SitesOf
<1>3. ASSUME NEW T \in Targets, NEW kind \in Lifecycle, BeginLifecycle(kind, T) PROVE PlansToggle'
  BY <1>3 DEF BeginLifecycle, PlansToggle, PlannedFor, After, Expected, SitesOf
<1>4. ASSUME NEW T \in Targets, NEW kind \in Lifecycle, BeginService(kind, T) PROVE PlansToggle'
  BY <1>4 DEF BeginService, PlansToggle, PlannedFor, After, Expected, SitesOf
<1>5. ASSUME NEW s \in Stacks, PlanToggle(s) PROVE PlansToggle'
  <2>1. CASE Return
    BY <1>5, <2>1 DEF PlansToggle, PlanToggle
  <2>2. CASE ~Return
    <3>1. /\ Toggling /\ pc = "plan" /\ s \in todo /\ s \in scope /\ UNCHANGED <<op, user, sites, next, raced, scope>>
          /\ gen' = [gen EXCEPT ![s] = Render(s, next)] /\ todo' = todo \ {s}
          /\ pc' = IF todo = {s} THEN "save" ELSE "plan"
      BY <1>5, <2>2 DEF PlanToggle, First, TypeOK
    <3>2. ASSUME s \notin raced
          PROVE  Keys(Render(s, next)) = After(Keys(Render(s, next)), Expected(s))
      <4>1. defs[s] # None /\ Expected(s) \subseteq Keys(defs[s])
        BY <3>1, <3>2 DEF Planned, Seen
      <4>2. Keys(Render(s, next)) = {k \in Keys(defs[s]) : <<s, k[2]>> \notin next}
        BY <4>1, RenderKeys
      <4>3. <<s, user>> \in next <=> op = "disable"
        BY <3>1 DEF Aim
      <4> QED
        BY <4>1, <4>2, <4>3, ExpectedKeys DEF After
    <3>3. \A r \in Stacks : gen'[r] = IF r = s THEN Render(s, next) ELSE gen[r]
      BY <3>1 DEF TypeOK
    <3>4. \A r \in Stacks : Expected(r)' = Expected(r)
      BY <3>1 DEF Expected, SitesOf
    <3>5. \A r \in Stacks \ {s} : PlannedFor(r)' => PlannedFor(r)
      BY <3>1 DEF PlannedFor
    <3> QED
      BY <3>1, <3>2, <3>3, <3>4, <3>5 DEF PlansToggle, After
  <2> QED
    BY <2>1, <2>2
<1>6. CASE SaveState
  BY <1>6 DEF SaveState, PlansToggle, PlannedFor, After, Expected, SitesOf
<1>7. ASSUME NEW s \in Stacks, ToggleWrite(s) PROVE PlansToggle'
  <2>1. UNCHANGED <<op, user, scope, gen, sites, raced>> /\ pc # "plan"
    BY <1>7 DEF ToggleWrite
  <2>2. \A r \in Stacks : PlannedFor(r)' => PlannedFor(r)
    BY <2>1 DEF PlannedFor
  <2>3. CASE Toggling
    <3>1. \A r \in Stacks : Expected(r)' = Expected(r)
      BY <2>1 DEF Expected, SitesOf
    <3> QED
      BY <2>1, <2>2, <2>3, <3>1 DEF PlansToggle, After
  <2>4. CASE ~Toggling
    BY <1>7, <2>1, <2>4 DEF ToggleWrite, PlansToggle
  <2> QED
    BY <2>3, <2>4
<1>8. ASSUME NEW s \in Stacks, ToggleRecord(s) PROVE PlansToggle'
  <2>1. UNCHANGED <<op, user, scope, gen, sites, raced>> /\ pc # "plan"
    BY <1>8 DEF ToggleRecord
  <2>2. \A r \in Stacks : PlannedFor(r)' => PlannedFor(r)
    BY <2>1 DEF PlannedFor
  <2>3. CASE Toggling
    <3>1. \A r \in Stacks : Expected(r)' = Expected(r)
      BY <2>1 DEF Expected, SitesOf
    <3> QED
      BY <2>1, <2>2, <2>3, <3>1 DEF PlansToggle, After
  <2>4. CASE ~Toggling
    BY <1>8, <2>1, <2>4 DEF ToggleRecord, PlansToggle
  <2> QED
    BY <2>3, <2>4
<1>9. ASSUME NEW x \in sites, LiveApply(x) PROVE PlansToggle'
  <2>1. CASE Return
    BY <2>1 DEF PlansToggle
  <2>2. CASE ~Return
    <3>1. UNCHANGED <<pc, op, user, scope, todo, gen, raced>> /\ sites' \subseteq sites
      BY <1>9, <2>2 DEF LiveApply, FinishSite
    <3>2. \A r \in Stacks : Expected(r)' \subseteq Expected(r)
      BY <3>1 DEF Expected, SitesOf
    <3> QED
      BY <3>1, <3>2 DEF PlansToggle, PlannedFor, After
  <2> QED
    BY <2>1, <2>2
<1>10. ASSUME NEW x \in sites, LiveFail(x) PROVE PlansToggle'
  <2>1. CASE Return
    BY <2>1 DEF PlansToggle
  <2>2. CASE ~Return
    <3>1. UNCHANGED <<pc, op, user, scope, todo, gen, raced>> /\ sites' \subseteq sites
      BY <1>10, <2>2 DEF LiveFail, FinishSite
    <3>2. \A r \in Stacks : Expected(r)' \subseteq Expected(r)
      BY <3>1 DEF Expected, SitesOf
    <3> QED
      BY <3>1, <3>2 DEF PlansToggle, PlannedFor, After
  <2> QED
    BY <2>1, <2>2
<1>11. ASSUME NEW s \in Stacks, LifecycleWrite(s) PROVE PlansToggle'
  BY <1>11 DEF LifecycleWrite, PlansToggle, PlannedFor, After, Expected, SitesOf
<1>12. CASE LifecycleRecord
  BY <1>12 DEF LifecycleRecord, PlansToggle, PlannedFor, After, Expected, SitesOf
<1>13. ASSUME NEW s \in Stacks, Act(s) PROVE PlansToggle'
  BY <1>13 DEF Act, PlansToggle, PlannedFor, After, Expected, SitesOf
<1>14. ASSUME NEW s \in Stacks, Edit(s) PROVE PlansToggle'
  BY <1>0, <1>14 DEF Edit
<1>15. ASSUME NEW s \in Stacks, Exit(s) PROVE PlansToggle'
  BY <1>0, <1>15 DEF Exit
<1>16. ASSUME NEW s \in Stacks, Reload(s) PROVE PlansToggle'
  BY <1>0, <1>16 DEF Reload
<1>17. CASE Interrupt
  BY <1>17 DEF Interrupt, PlansToggle, PlannedFor, After, Expected, SitesOf
<1>18. CASE UNCHANGED vars
  BY <1>0, <1>18 DEF vars
<1> QED
  BY <1>1, <1>2, <1>3, <1>4, <1>5, <1>6, <1>7, <1>8, <1>9, <1>10, <1>11, <1>12, <1>13, <1>14,
     <1>15, <1>16, <1>17, <1>18 DEF Next

(* A plan stays what the guard compared with the file. *)
LEMMA PlansCheckedStep == Steady /\ [Next]_vars => PlansChecked'
<1> SUFFICES ASSUME Steady, [Next]_vars PROVE PlansChecked'
  OBVIOUS
<1> USE DEF Steady, Honest, Forgetful, Phases, Scoped, Toggling, Return, Toggles, Lifecycle, disk,
   plan, command
<1>1. ASSUME NEW T \in Targets, NEW u \in Users, NEW kind \in Toggles, BeginToggle(kind, T, u)
      PROVE  PlansChecked'
  BY <1>1 DEF BeginToggle, PlansChecked, PlannedFor, Written, Expected, SitesOf, UsersOnlyChange
<1>2. ASSUME NEW T \in Targets, NEW u \in Users, ClearStale(T, u) PROVE PlansChecked'
  BY <1>2 DEF ClearStale, PlansChecked, PlannedFor, Written, Expected, SitesOf, UsersOnlyChange
<1>3. ASSUME NEW T \in Targets, NEW kind \in Lifecycle, BeginLifecycle(kind, T)
      PROVE  PlansChecked'
  BY <1>3 DEF BeginLifecycle, PlansChecked, PlannedFor, Written, Expected, SitesOf, UsersOnlyChange
<1>4. ASSUME NEW T \in Targets, NEW kind \in Lifecycle, BeginService(kind, T) PROVE PlansChecked'
  BY <1>4 DEF BeginService, PlansChecked, PlannedFor, Written, Expected, SitesOf, UsersOnlyChange
<1>5. ASSUME NEW s \in Stacks, PlanToggle(s) PROVE PlansChecked'
  <2>1. CASE Return
    BY <1>5, <2>1 DEF PlansChecked, PlanToggle
  <2>2. CASE ~Return
    <3>1. /\ Toggling /\ pc = "plan" /\ s \in todo /\ UNCHANGED <<op, user, sites, scope, files>>
          /\ gen' = [gen EXCEPT ![s] = Render(s, next)] /\ todo' = todo \ {s} /\ UsersOnlyPlan(s)
          /\ pc' = IF todo = {s} THEN "save" ELSE "plan"
      BY <1>5, <2>2 DEF PlanToggle, First, TypeOK
    <3>2. \A r \in Stacks : gen'[r] = IF r = s THEN Render(s, next) ELSE gen[r]
      BY <3>1 DEF TypeOK
    <3>3. \A r \in Stacks : Expected(r)' = Expected(r)
      BY <3>1 DEF Expected, SitesOf
    <3>4. \A r \in Stacks \ {s} : PlannedFor(r)' => PlannedFor(r)
      BY <3>1 DEF PlannedFor
    <3>5. \A r \in Stacks : ~Written(r)
      BY <3>1 DEF Written
    <3>6. Render(s, next) # None /\ files[s] # None =>
             \/ files[s] = Render(s, next)
             \/ UsersOnlyChange(files[s], Render(s, next), Expected(s))
      BY <3>1 DEF UsersOnlyPlan
    <3> QED
      BY <3>1, <3>2, <3>3, <3>4, <3>5, <3>6 DEF PlansChecked, UsersOnlyChange
  <2> QED
    BY <2>1, <2>2
<1>6. CASE SaveState
  BY <1>6 DEF SaveState, PlansChecked, PlannedFor, Written, Expected, SitesOf, UsersOnlyChange
<1>7. ASSUME NEW s \in Stacks, ToggleWrite(s) PROVE PlansChecked'
  <2>1. UNCHANGED <<op, user, sites, scope, gen, todo, raced>> /\ pc = "write" /\ pc' = "record"
        /\ First(s, todo) /\ \A r \in Stacks \ {s} : files'[r] = files[r]
    BY <1>7 DEF ToggleWrite, TypeOK
  <2>2. Written(s)'
    BY <2>1 DEF Written, First
  <2>3. \A r \in Stacks : ~Written(r)' => ~Written(r)
    BY <2>1 DEF Written
  <2> QED
    BY <2>1, <2>2, <2>3 DEF PlansChecked, PlannedFor, UsersOnlyChange, Expected, SitesOf
<1>8. ASSUME NEW s \in Stacks, ToggleRecord(s) PROVE PlansChecked'
  <2>1. UNCHANGED <<op, user, sites, scope, gen, files>> /\ Toggling /\ pc = "record"
        /\ First(s, todo) /\ todo' = todo \ {s} /\ pc' \in {"live", "write"}
    BY <1>8 DEF ToggleRecord
  <2>2. \A r \in Stacks : ~Written(r)' => ~Written(r)
    BY <2>1, StacksAssumption DEF Written, First
  <2>3. \A r \in Stacks : PlannedFor(r)' => PlannedFor(r)
    BY <2>1 DEF PlannedFor
  <2> QED
    BY <2>1, <2>2, <2>3 DEF PlansChecked, UsersOnlyChange, Expected, SitesOf
<1>9. ASSUME NEW x \in sites, LiveApply(x) PROVE PlansChecked'
  BY <1>9 DEF LiveApply, PlansChecked, PlannedFor, Written, Expected, SitesOf, UsersOnlyChange,
     FinishSite
<1>10. ASSUME NEW x \in sites, LiveFail(x) PROVE PlansChecked'
  BY <1>10 DEF LiveFail, PlansChecked, PlannedFor, Written, Expected, SitesOf, UsersOnlyChange,
     FinishSite
<1>11. ASSUME NEW s \in Stacks, LifecycleWrite(s) PROVE PlansChecked'
  BY <1>11 DEF LifecycleWrite, PlansChecked, PlannedFor, Written, Expected, SitesOf, UsersOnlyChange
<1>12. CASE LifecycleRecord
  BY <1>12 DEF LifecycleRecord, PlansChecked, PlannedFor, Written, Expected, SitesOf,
     UsersOnlyChange
<1>13. ASSUME NEW s \in Stacks, Act(s) PROVE PlansChecked'
  BY <1>13 DEF Act, PlansChecked, PlannedFor, Written, Expected, SitesOf, UsersOnlyChange
<1>14. ASSUME NEW s \in Stacks, Edit(s) PROVE PlansChecked'
  BY <1>14 DEF Edit, PlansChecked, PlannedFor, Written, Expected, SitesOf, UsersOnlyChange
<1>15. ASSUME NEW s \in Stacks, Exit(s) PROVE PlansChecked'
  BY <1>15 DEF Exit, PlansChecked, PlannedFor, Written, Expected, SitesOf, UsersOnlyChange
<1>16. ASSUME NEW s \in Stacks, Reload(s) PROVE PlansChecked'
  BY <1>16 DEF Reload, PlansChecked, PlannedFor, Written, Expected, SitesOf, UsersOnlyChange
<1>17. CASE Interrupt
  BY <1>17 DEF Interrupt, PlansChecked, PlannedFor, Written, Expected, SitesOf, UsersOnlyChange
<1>18. CASE UNCHANGED vars
  BY <1>18 DEF vars, PlansChecked, PlannedFor, Written, Expected, SitesOf, UsersOnlyChange
<1> QED
  BY <1>1, <1>2, <1>3, <1>4, <1>5, <1>6, <1>7, <1>8, <1>9, <1>10, <1>11, <1>12, <1>13, <1>14,
     <1>15, <1>16, <1>17, <1>18 DEF Next

(* Nothing without users is planned or written. *)
LEMMA FullStep == Steady /\ [Next]_vars => Full'
<1> SUFFICES ASSUME Steady, [Next]_vars PROVE Full'
  OBVIOUS
<1> USE DEF Steady, Honest, Forgetful, Phases, Scoped, Toggling, Return, Toggles, Lifecycle, disk,
   plan, command
<1>1. ASSUME NEW T \in Targets, NEW u \in Users, NEW kind \in Toggles, BeginToggle(kind, T, u)
      PROVE  Full'
  BY <1>1 DEF BeginToggle, Full
<1>2. ASSUME NEW T \in Targets, NEW u \in Users, ClearStale(T, u) PROVE Full'
  BY <1>2 DEF ClearStale, Full
<1>3. ASSUME NEW T \in Targets, NEW kind \in Lifecycle, BeginLifecycle(kind, T) PROVE Full'
  <2>1. UNCHANGED files /\ \A r \in Stacks : gen'[r] \in {None} \/ (r \in T /\ gen'[r] = Render(r, disabled))
    BY <1>3 DEF BeginLifecycle
  <2>2. \A r \in T : Render(r, disabled) # None => NoEmptyInbound(Render(r, disabled))
    BY <1>3 DEF BeginLifecycle, RenderFails, Render
  <2> QED
    BY <2>1, <2>2 DEF Full
<1>4. ASSUME NEW T \in Targets, NEW kind \in Lifecycle, BeginService(kind, T) PROVE Full'
  BY <1>4 DEF BeginService, Full
<1>5. ASSUME NEW s \in Stacks, PlanToggle(s) PROVE Full'
  <2>1. CASE Return
    BY <1>5, <2>1 DEF Full, PlanToggle
  <2>2. CASE ~Return
    <3>1. /\ UNCHANGED files /\ ~RenderFails(s, next)
          /\ \A r \in Stacks : gen'[r] = IF r = s THEN Render(s, next) ELSE gen[r]
      BY <1>5, <2>2 DEF PlanToggle, TypeOK
    <3>2. Render(s, next) # None => NoEmptyInbound(Render(s, next))
      BY <3>1 DEF RenderFails, Render
    <3> QED
      BY <3>1, <3>2 DEF Full
  <2> QED
    BY <2>1, <2>2
<1>6. CASE SaveState
  BY <1>6 DEF SaveState, Full
<1>7. ASSUME NEW s \in Stacks, ToggleWrite(s) PROVE Full'
  <2>1. UNCHANGED gen /\ \A r \in Stacks : files'[r] \in {files[r], gen[r]}
    BY <1>7 DEF ToggleWrite, TypeOK
  <2> QED
    BY <2>1 DEF Full
<1>8. ASSUME NEW s \in Stacks, ToggleRecord(s) PROVE Full'
  BY <1>8 DEF ToggleRecord, Full
<1>9. ASSUME NEW x \in sites, LiveApply(x) PROVE Full'
  BY <1>9 DEF LiveApply, Full, FinishSite
<1>10. ASSUME NEW x \in sites, LiveFail(x) PROVE Full'
  BY <1>10 DEF LiveFail, Full, FinishSite
<1>11. ASSUME NEW s \in Stacks, LifecycleWrite(s) PROVE Full'
  <2>1. UNCHANGED gen /\ \A r \in Stacks : files'[r] \in {files[r], gen[r], None}
    BY <1>11 DEF LifecycleWrite, TypeOK
  <2> QED
    BY <2>1 DEF Full
<1>12. CASE LifecycleRecord
  BY <1>12 DEF LifecycleRecord, Full
<1>13. ASSUME NEW s \in Stacks, Act(s) PROVE Full'
  BY <1>13 DEF Act, Full
<1>14. ASSUME NEW s \in Stacks, Edit(s) PROVE Full'
  BY <1>14 DEF Edit, Full
<1>15. ASSUME NEW s \in Stacks, Exit(s) PROVE Full'
  BY <1>15 DEF Exit, Full
<1>16. ASSUME NEW s \in Stacks, Reload(s) PROVE Full'
  BY <1>16 DEF Reload, Full
<1>17. CASE Interrupt
  BY <1>17 DEF Interrupt, Full
<1>18. CASE UNCHANGED vars
  BY <1>18 DEF vars, Full
<1> QED
  BY <1>1, <1>2, <1>3, <1>4, <1>5, <1>6, <1>7, <1>8, <1>9, <1>10, <1>11, <1>12, <1>13, <1>14,
     <1>15, <1>16, <1>17, <1>18 DEF Next

-----------------------------------------------------------------------------
(* What an instance serves. *)

(* rmu and adu change one client and nothing else. *)
LEMMA AppliedKeys ==
    ASSUME TypeOK, NEW x \in Site, Applicable(x), user \in Users
    PROVE  /\ \A r \in Stacks \ {x.stack} : Applied(x)[r] = live[r]
           /\ Applied(x)[x.stack].skel = live[x.stack].skel
           /\ Keys(Applied(x)[x.stack]) = After(Keys(live[x.stack]), {<<x.tag, user>>})
<1>1. x.stack \in Stacks /\ x.tag \in Tags /\ x.cred \in Creds /\ x.cred # NoCred
  BY ValueAssumption DEF Site
<1>2. live[x.stack] \in Config
  BY <1>1 DEF TypeOK, Applicable, Maybe
<1> DEFINE v == IF op = "disable" THEN NoCred ELSE x.cred
           new == [live[x.stack] EXCEPT !.clients[<<x.tag, user>>] = v]
<1>3. Applied(x) = [live EXCEPT ![x.stack] = new]
  BY <1>1 DEF Applied, TypeOK
<1>4. Applied(x)[x.stack] = new /\ \A r \in Stacks \ {x.stack} : Applied(x)[r] = live[r]
  BY <1>1, <1>3 DEF TypeOK
<1>5. new.skel = live[x.stack].skel
      /\ \A k \in Tags \X Users :
           new.clients[k] = IF k = <<x.tag, user>> THEN v ELSE live[x.stack].clients[k]
  BY <1>1, <1>2 DEF Config
<1>6. v = NoCred <=> op = "disable"
  BY <1>1
<1> HIDE DEF v, new
<1>7. Keys(new) = After(Keys(live[x.stack]), {<<x.tag, user>>})
  BY <1>1, <1>5, <1>6 DEF Keys, After
<1> QED
  BY <1>4, <1>5, <1>7

(* No instance loses all users of an inbound: disabling brings it closer to a file that has some. *)
LEMMA LiveStep == Steady /\ [Next]_vars => NoInboundEmptied'
<1> SUFFICES ASSUME Steady, [Next]_vars PROVE NoInboundEmptied'
  OBVIOUS
<1> USE DEF Steady, Honest, Forgetful, Phases, Scoped, Toggling, Return, Toggles, Lifecycle, disk,
   plan, command
<1>1. ASSUME NEW T \in Targets, NEW u \in Users, NEW kind \in Toggles, BeginToggle(kind, T, u)
      PROVE  NoInboundEmptied'
  BY <1>1 DEF BeginToggle, NoInboundEmptied
<1>2. ASSUME NEW T \in Targets, NEW u \in Users, ClearStale(T, u) PROVE NoInboundEmptied'
  BY <1>2 DEF ClearStale, NoInboundEmptied
<1>3. ASSUME NEW T \in Targets, NEW kind \in Lifecycle, BeginLifecycle(kind, T)
      PROVE  NoInboundEmptied'
  BY <1>3 DEF BeginLifecycle, NoInboundEmptied
<1>4. ASSUME NEW T \in Targets, NEW kind \in Lifecycle, BeginService(kind, T)
      PROVE  NoInboundEmptied'
  BY <1>4 DEF BeginService, NoInboundEmptied
<1>5. ASSUME NEW s \in Stacks, PlanToggle(s) PROVE NoInboundEmptied'
  BY <1>5 DEF PlanToggle, NoInboundEmptied
<1>6. CASE SaveState
  BY <1>6 DEF SaveState, NoInboundEmptied
<1>7. ASSUME NEW s \in Stacks, ToggleWrite(s) PROVE NoInboundEmptied'
  BY <1>7 DEF ToggleWrite, NoInboundEmptied
<1>8. ASSUME NEW s \in Stacks, ToggleRecord(s) PROVE NoInboundEmptied'
  BY <1>8 DEF ToggleRecord, NoInboundEmptied
<1>9. ASSUME NEW x \in sites, LiveApply(x) PROVE NoInboundEmptied'
  <2> SUFFICES ASSUME NEW r \in Stacks, live'[r] # None, excused'[r] = {}
               PROVE  NoEmptyInbound(live'[r])
    BY DEF NoInboundEmptied
  <2>1. Toggling /\ pc = "live" /\ x \in Site /\ x.stack \in scope /\ user \in Users
    BY <1>9 DEF LiveApply, Aim, TypeOK
  <2>2. Applicable(x) /\ live' = Applied(x) /\ excused' = Blame(x.stack, {})
    BY <1>9 DEF LiveApply
  <2>3. excused[r] = {} /\ (r = x.stack => r \notin raced)
    BY <2>2 DEF Blame, Excuse, TypeOK
  <2>4. CASE r # x.stack
    BY <2>1, <2>2, <2>3, <2>4, AppliedKeys DEF NoInboundEmptied
  <2>5. CASE r = x.stack
    <3>1. live[r] # None /\ NoEmptyInbound(live[r])
      BY <2>2, <2>3, <2>5 DEF Applicable, NoInboundEmptied
    <3>2. files[r] # None /\ Keys(files[r]) = After(Keys(live[r]), Expected(r))
      BY <2>1, <2>3, <2>5, <3>1 DEF InLine, Answerable, Toggled, Behind, Written
    <3>3. NoEmptyInbound(files[r])
      BY <3>2 DEF Full
    <3>4. <<x.tag, user>> \in Expected(r)
      BY <2>5 DEF Expected, SitesOf
    <3>5. Keys(live'[r]) = After(Keys(live[r]), {<<x.tag, user>>})
      BY <2>1, <2>2, <2>5, AppliedKeys
    <3>6. Keys(live[r]) \subseteq Keys(live'[r]) \/ Keys(files[r]) \subseteq Keys(live'[r])
      BY <3>2, <3>4, <3>5 DEF After
    <3> QED
      BY <3>1, <3>3, <3>6 DEF NoEmptyInbound
  <2> QED
    BY <2>4, <2>5
<1>10. ASSUME NEW x \in sites, LiveFail(x) PROVE NoInboundEmptied'
  <2>1. x \in Site /\ user \in Users
    BY <1>10 DEF LiveFail, Aim, TypeOK
  <2>2. excused'[x.stack] # {} /\ \A r \in Stacks \ {x.stack} : excused'[r] = excused[r]
    BY <1>10, <2>1 DEF LiveFail, Blame, Excuse, Site
  <2>3. \A r \in Stacks \ {x.stack} : live'[r] = live[r]
    BY <1>10, <2>1, AppliedKeys DEF LiveFail
  <2> QED
    BY <2>2, <2>3 DEF NoInboundEmptied
<1>11. ASSUME NEW s \in Stacks, LifecycleWrite(s) PROVE NoInboundEmptied'
  <2>1. UNCHANGED live /\ \A r \in Stacks : excused[r] \subseteq excused'[r]
    BY <1>11 DEF LifecycleWrite, Excuse, TypeOK
  <2> QED
    BY <2>1 DEF NoInboundEmptied
<1>12. CASE LifecycleRecord
  BY <1>12 DEF LifecycleRecord, NoInboundEmptied
<1>13. ASSUME NEW s \in Stacks, Act(s) PROVE NoInboundEmptied'
  <2>1. \A r \in Stacks \ {s} : live'[r] = live[r] /\ excused'[r] = excused[r]
    BY <1>13 DEF Act, Settle, Excuse, TypeOK
  <2>2. live'[s] # None /\ excused'[s] = {} => live'[s] = files[s]
    <3>1. CASE op = "stop"
      BY <1>13, <3>1 DEF Act, TypeOK
    <3>2. CASE op # "stop" /\ live'[s] # files[s]
      <4>1. excused' = Excuse({s}, {"left"})
        BY <1>13, <3>2 DEF Act
      <4> QED
        BY <4>1 DEF Excuse
    <3> QED
      BY <3>1, <3>2
  <2> QED
    BY <2>1, <2>2 DEF NoInboundEmptied, Full
<1>14. ASSUME NEW s \in Stacks, Edit(s) PROVE NoInboundEmptied'
  BY <1>14 DEF Edit, NoInboundEmptied
<1>15. ASSUME NEW s \in Stacks, Exit(s) PROVE NoInboundEmptied'
  BY <1>15 DEF Exit, NoInboundEmptied, TypeOK
<1>16. ASSUME NEW s \in Stacks, Reload(s) PROVE NoInboundEmptied'
  <2>1. live'[s] = files[s] /\ \A r \in Stacks \ {s} : live'[r] = live[r] /\ excused'[r] = excused[r]
    BY <1>16 DEF Reload, Settle, TypeOK
  <2> QED
    BY <2>1 DEF NoInboundEmptied, Full
<1>17. CASE Interrupt
  <2>1. UNCHANGED live /\ \A r \in Stacks : excused[r] \subseteq excused'[r]
    BY <1>17 DEF Interrupt, Excuse, TypeOK
  <2> QED
    BY <2>1 DEF NoInboundEmptied
<1>18. CASE UNCHANGED vars
  BY <1>18 DEF vars, NoInboundEmptied
<1> QED
  BY <1>1, <1>2, <1>3, <1>4, <1>5, <1>6, <1>7, <1>8, <1>9, <1>10, <1>11, <1>12, <1>13, <1>14,
     <1>15, <1>16, <1>17, <1>18 DEF Next

(* What an instance lacks of its file is what the command in progress has still to do. *)
LEMMA InLineStep == Steady /\ [Next]_vars => InLine'
<1> SUFFICES ASSUME Steady, [Next]_vars PROVE InLine'
  OBVIOUS
<1> USE DEF Steady, Honest, Forgetful, Phases, Scoped, Toggling, Return, Toggles, Lifecycle, disk,
   plan, command
<1>1. ASSUME NEW T \in Targets, NEW u \in Users, NEW kind \in Toggles, BeginToggle(kind, T, u)
      PROVE  InLine'
  <2> SUFFICES ASSUME NEW r \in Stacks, Answerable(r)'
               PROVE  /\ ~Toggled(r)' /\ ~Lagging(r)' => Even(r)'
                      /\ Toggled(r)' /\ r \notin raced' => Behind(r)'
    BY DEF InLine
  <2>1. UNCHANGED <<live, files, excused>> /\ ~Toggled(r) /\ ~Lagging(r) /\ ~Toggled(r)'
    BY <1>1 DEF BeginToggle, Toggled, Lagging, Written
  <2>2. Even(r)
    BY <2>1 DEF InLine, Answerable
  <2> QED
    BY <2>1, <2>2 DEF Even
<1>2. ASSUME NEW T \in Targets, NEW u \in Users, ClearStale(T, u) PROVE InLine'
  <2> SUFFICES ASSUME NEW r \in Stacks, Answerable(r)'
               PROVE  /\ ~Toggled(r)' /\ ~Lagging(r)' => Even(r)'
                      /\ Toggled(r)' /\ r \notin raced' => Behind(r)'
    BY DEF InLine
  <2>1. UNCHANGED <<live, files, excused>> /\ ~Toggled(r) /\ ~Lagging(r) /\ ~Toggled(r)'
    BY <1>2 DEF ClearStale, Toggled, Lagging, Written
  <2>2. Even(r)
    BY <2>1 DEF InLine, Answerable
  <2> QED
    BY <2>1, <2>2 DEF Even
<1>3. ASSUME NEW T \in Targets, NEW kind \in Lifecycle, BeginLifecycle(kind, T) PROVE InLine'
  <2> SUFFICES ASSUME NEW r \in Stacks, Answerable(r)'
               PROVE  /\ ~Toggled(r)' /\ ~Lagging(r)' => Even(r)'
                      /\ Toggled(r)' /\ r \notin raced' => Behind(r)'
    BY DEF InLine
  <2>1. UNCHANGED <<live, files, excused>> /\ ~Toggled(r) /\ ~Lagging(r) /\ ~Toggled(r)'
    BY <1>3 DEF BeginLifecycle, Toggled, Lagging, Written
  <2>2. Even(r)
    BY <2>1 DEF InLine, Answerable
  <2> QED
    BY <2>1, <2>2 DEF Even
<1>4. ASSUME NEW T \in Targets, NEW kind \in Lifecycle, BeginService(kind, T) PROVE InLine'
  <2> SUFFICES ASSUME NEW r \in Stacks, Answerable(r)'
               PROVE  /\ ~Toggled(r)' /\ ~Lagging(r)' => Even(r)'
                      /\ Toggled(r)' /\ r \notin raced' => Behind(r)'
    BY DEF InLine
  <2>1. UNCHANGED <<live, files, excused>> /\ ~Toggled(r) /\ ~Lagging(r) /\ ~Toggled(r)'
    BY <1>4 DEF BeginService, Toggled, Lagging, Written
  <2>2. Even(r)
    BY <2>1 DEF InLine, Answerable
  <2> QED
    BY <2>1, <2>2 DEF Even
<1>5. ASSUME NEW s \in Stacks, PlanToggle(s) PROVE InLine'
  <2> SUFFICES ASSUME NEW r \in Stacks, Answerable(r)'
               PROVE  /\ ~Toggled(r)' /\ ~Lagging(r)' => Even(r)'
                      /\ Toggled(r)' /\ r \notin raced' => Behind(r)'
    BY DEF InLine
  <2>1. UNCHANGED <<live, files, excused>> /\ ~Toggled(r) /\ ~Lagging(r) /\ ~Toggled(r)'
    <3>1. CASE Return
      BY <1>5, <3>1 DEF PlanToggle, Toggled, Lagging, Written
    <3>2. CASE ~Return
      BY <1>5, <3>2 DEF PlanToggle, Toggled, Lagging, Written
    <3> QED
      BY <3>1, <3>2
  <2>2. Even(r)
    BY <2>1 DEF InLine, Answerable
  <2> QED
    BY <2>1, <2>2 DEF Even
<1>6. CASE SaveState
  <2> SUFFICES ASSUME NEW r \in Stacks, Answerable(r)'
               PROVE  /\ ~Toggled(r)' /\ ~Lagging(r)' => Even(r)'
                      /\ Toggled(r)' /\ r \notin raced' => Behind(r)'
    BY DEF InLine
  <2>1. UNCHANGED <<live, files, excused>> /\ ~Toggled(r) /\ ~Lagging(r) /\ ~Toggled(r)'
    BY <1>6 DEF SaveState, Toggled, Lagging, Written
  <2>2. Even(r)
    BY <2>1 DEF InLine, Answerable
  <2> QED
    BY <2>1, <2>2 DEF Even
<1>7. ASSUME NEW s \in Stacks, ToggleWrite(s) PROVE InLine'
  <2> SUFFICES ASSUME NEW r \in Stacks, Answerable(r)'
               PROVE  /\ ~Toggled(r)' /\ ~Lagging(r)' => Even(r)'
                      /\ Toggled(r)' /\ r \notin raced' => Behind(r)'
    BY DEF InLine
  <2>1. /\ UNCHANGED <<op, user, live, excused, sites, scope, gen, todo, raced>> /\ Toggling /\ Toggling'
        /\ pc = "write" /\ pc' = "record" /\ First(s, todo) /\ s \in scope
    BY <1>7 DEF ToggleWrite, First, TypeOK
  <2>2. ~Lagging(r) /\ (Toggled(r)' => Toggled(r) \/ r = s) /\ (Toggled(r) => Toggled(r)')
    BY <2>1, StacksAssumption DEF Lagging, Toggled, Written, First
  <2>3. Expected(r)' = Expected(r)
    BY <2>1 DEF Expected, SitesOf
  <2>4. CASE r # s
    <3>1. files'[r] = files[r]
      BY <1>7, <2>4 DEF ToggleWrite, TypeOK
    <3> QED
      BY <2>1, <2>2, <2>3, <2>4, <3>1 DEF InLine, Answerable, Even, Behind, After
  <2>5. CASE r = s
    <3>1. Toggled(r)' /\ ~Toggled(r) /\ ~Written(r)
      BY <2>1, <2>5 DEF Toggled, Written, First
    <3>2. Even(r)
      BY <2>1, <2>2, <3>1 DEF InLine, Answerable
    <3> SUFFICES ASSUME r \notin raced PROVE Behind(r)'
      BY <2>1, <3>1
    <3>3. gen[r] # None /\ PlannedFor(r)
      BY <2>1, <2>5 DEF Planned, PlannedFor
    <3>4. files'[r] = gen[r]
      BY <1>7, <2>5, <3>3 DEF ToggleWrite, TypeOK
    <3>5. Keys(gen[r]) = After(Keys(gen[r]), Expected(r))
      BY <2>1, <3>3 DEF PlansToggle
    <3>6. CASE files[r] = gen[r]
      BY <2>1, <2>3, <3>2, <3>3, <3>4, <3>5, <3>6 DEF Behind, Even, SameService, After
    <3>7. CASE UsersOnlyChange(files[r], gen[r], Expected(r))
      <4>1. files[r].skel = gen[r].skel /\ Keys(gen[r]) = After(Keys(files[r]), Expected(r))
        BY <2>1, <3>7 DEF UsersOnlyChange, After
      <4> QED
        BY <2>1, <2>3, <3>2, <3>3, <3>4, <4>1 DEF Behind, Even, SameService, After
    <3> QED
      BY <2>1, <3>1, <3>2, <3>3, <3>6, <3>7 DEF PlansChecked, Even
  <2> QED
    BY <2>4, <2>5
<1>8. ASSUME NEW s \in Stacks, ToggleRecord(s) PROVE InLine'
  <2> SUFFICES ASSUME NEW r \in Stacks, Answerable(r)'
               PROVE  /\ ~Toggled(r)' /\ ~Lagging(r)' => Even(r)'
                      /\ Toggled(r)' /\ r \notin raced' => Behind(r)'
    BY DEF InLine
  <2>1. /\ UNCHANGED <<op, user, files, live, excused, sites, scope, raced>> /\ Toggling /\ Toggling'
        /\ pc = "record" /\ pc' = (IF todo = {s} THEN "live" ELSE "write")
        /\ First(s, todo) /\ todo' = todo \ {s}
    BY <1>8 DEF ToggleRecord
  <2>2. ~Lagging(r) /\ (Toggled(r)' <=> Toggled(r))
    BY <2>1, StacksAssumption DEF Lagging, Toggled, Written, First
  <2>3. Expected(r)' = Expected(r)
    BY <2>1 DEF Expected, SitesOf
  <2> QED
    BY <2>1, <2>2, <2>3 DEF InLine, Answerable, Even, Behind, After
<1>9. ASSUME NEW x \in sites, LiveApply(x) PROVE InLine'
  <2> SUFFICES ASSUME NEW r \in Stacks, Answerable(r)'
               PROVE  /\ ~Toggled(r)' /\ ~Lagging(r)' => Even(r)'
                      /\ Toggled(r)' /\ r \notin raced' => Behind(r)'
    BY DEF InLine
  <2>1. /\ Toggling /\ pc = "live" /\ x \in Site /\ x.stack \in scope /\ user \in Users
        /\ UNCHANGED files
    BY <1>9 DEF LiveApply, Aim, TypeOK
  <2>2. Applicable(x) /\ live' = Applied(x) /\ excused' = Blame(x.stack, {})
    BY <1>9 DEF LiveApply
  <2>3. excused[r] = {} /\ (r = x.stack => r \notin raced)
    BY <2>2 DEF Blame, Excuse, Answerable, TypeOK
  <2>4. live[r] # None /\ ~Lagging(r)
    <3>1. CASE r = x.stack
      BY <2>1, <2>2, <3>1 DEF Applicable, Lagging
    <3>2. CASE r # x.stack
      BY <2>1, <2>2, <3>2, AppliedKeys DEF Answerable, Lagging
    <3> QED
      BY <3>1, <3>2
  <2>5. Toggled(r) <=> r \in scope
    BY <2>1 DEF Toggled, Written
  <2> DEFINE rest == {<<y.tag, user>> : y \in {z \in sites \ {x} : z.stack = r}}
  <2>6. live'[r].skel = live[r].skel
        /\ (r \in scope => After(Keys(live'[r]), rest) = After(Keys(live[r]), Expected(r)))
        /\ (r \notin scope => live'[r] = live[r])
    <3>1. CASE r = x.stack
      <4>1. Keys(live'[r]) = After(Keys(live[r]), {<<x.tag, user>>}) /\ live'[r].skel = live[r].skel
        BY <2>1, <2>2, <3>1, AppliedKeys
      <4>2. Expected(r) = rest \cup {<<x.tag, user>>}
        BY <3>1 DEF Expected, SitesOf
      <4> HIDE DEF rest
      <4> QED
        BY <2>1, <3>1, <4>1, <4>2 DEF After
    <3>2. CASE r # x.stack
      <4>1. rest = Expected(r)
        BY <3>2 DEF Expected, SitesOf
      <4> HIDE DEF rest
      <4> QED
        BY <2>1, <2>2, <3>2, <4>1, AppliedKeys
    <3> QED
      BY <3>1, <3>2
  <2>7. r \notin scope => Even(r)
    BY <2>3, <2>4, <2>5 DEF InLine, Answerable
  <2>8. r \in scope \ raced => Behind(r)
    BY <2>3, <2>4, <2>5 DEF InLine, Answerable
  <2>9. CASE sites # {x}
    <3>1. UNCHANGED <<pc, op, user, scope, todo, raced>> /\ sites' = sites \ {x}
      BY <1>9, <2>9 DEF LiveApply, FinishSite
    <3>2. Expected(r)' = rest /\ (Toggled(r)' <=> r \in scope)
      BY <2>1, <3>1 DEF Expected, SitesOf, Toggled, Written
    <3> HIDE DEF rest
    <3> QED
      BY <2>1, <2>6, <2>7, <2>8, <3>1, <3>2 DEF Even, Behind, After
  <2>10. CASE sites = {x}
    <3>1. ~Toggled(r)'
      BY <1>9, <2>10 DEF LiveApply, FinishSite, Toggled
    <3>2. r \notin raced
      BY <2>1, <2>3, <2>10 DEF Remembered, SitesOf
    <3>3. rest = {}
      BY <2>10
    <3> HIDE DEF rest
    <3>4. r \in scope => SameService(live'[r], files[r]) /\ files[r] # None
      BY <2>6, <2>8, <3>2, <3>3 DEF Behind, After, SameService
    <3> QED
      BY <2>1, <2>6, <2>7, <3>1, <3>4 DEF Even
  <2> QED
    BY <2>9, <2>10
<1>10. ASSUME NEW x \in sites, LiveFail(x) PROVE InLine'
  <2> SUFFICES ASSUME NEW r \in Stacks, Answerable(r)'
               PROVE  /\ ~Toggled(r)' /\ ~Lagging(r)' => Even(r)'
                      /\ Toggled(r)' /\ r \notin raced' => Behind(r)'
    BY DEF InLine
  <2>1. /\ Toggling /\ pc = "live" /\ x \in Site /\ x.stack \in scope /\ user \in Users
        /\ UNCHANGED files
    BY <1>10 DEF LiveFail, Aim, TypeOK
  <2>2. r # x.stack
    BY <1>10 DEF LiveFail, Blame, Excuse, Answerable
  <2>3. live'[r] = live[r] /\ excused'[r] = excused[r]
    BY <1>10, <2>1, <2>2, AppliedKeys DEF LiveFail, Blame, Excuse
  <2>4. ~Lagging(r) /\ (Toggled(r) <=> r \in scope)
    BY <2>1 DEF Lagging, Toggled, Written
  <2>5. CASE sites # {x}
    <3>1. UNCHANGED <<pc, op, user, scope, todo, raced>> /\ sites' = sites \ {x}
      BY <1>10, <2>5 DEF LiveFail, FinishSite
    <3>2. Expected(r)' = Expected(r) /\ (Toggled(r)' <=> r \in scope)
      BY <2>1, <2>2, <3>1 DEF Expected, SitesOf, Toggled, Written
    <3> QED
      BY <2>1, <2>3, <2>4, <3>1, <3>2 DEF InLine, Answerable, Even, Behind, After
  <2>6. CASE sites = {x}
    <3>1. ~Toggled(r)'
      BY <1>10, <2>6 DEF LiveFail, FinishSite, Toggled
    <3>2. r \notin raced
      BY <2>1, <2>2, <2>3, <2>6 DEF Remembered, SitesOf, Answerable
    <3>3. Expected(r) = {}
      BY <2>2, <2>6 DEF Expected, SitesOf
    <3>4. Even(r) \/ Behind(r)
      BY <2>3, <2>4, <3>2 DEF InLine, Answerable
    <3> QED
      BY <2>1, <2>3, <3>1, <3>3, <3>4 DEF Even, Behind, After, SameService
  <2> QED
    BY <2>5, <2>6
<1>11. ASSUME NEW s \in Stacks, LifecycleWrite(s) PROVE InLine'
  <2> SUFFICES ASSUME NEW r \in Stacks, Answerable(r)'
               PROVE  /\ ~Toggled(r)' /\ ~Lagging(r)' => Even(r)'
                      /\ Toggled(r)' /\ r \notin raced' => Behind(r)'
    BY DEF InLine
  <2>1. UNCHANGED <<op, gen, scope, live>> /\ op \in {"start", "restart"} /\ pc = "write" /\ s \in todo
        /\ todo' = todo \ {s} /\ pc' = IF todo = {s} THEN "record" ELSE "write"
    BY <1>11 DEF LifecycleWrite, First
  <2>2. ~Toggled(r)' /\ ~Toggled(r) /\ excused[r] = {}
    BY <1>11, <2>1 DEF LifecycleWrite, Toggled, Excuse, Answerable
  <2> SUFFICES ASSUME ~Lagging(r)' PROVE Even(r)'
    BY <2>2
  <2>3. ~Lagging(r)
    BY <2>1 DEF Lagging
  <2>4. files'[r] = files[r]
    <3>1. CASE r = s
      <4>1. gen[s] = None
        BY <2>1, <3>1 DEF Lagging
      <4>2. s \notin drop
        BY <1>11, <3>1 DEF LifecycleWrite, Excuse, Answerable
      <4> QED
        BY <1>11, <4>1, <4>2 DEF LifecycleWrite
    <3>2. CASE r # s
      BY <1>11, <3>2 DEF LifecycleWrite, TypeOK
    <3> QED
      BY <3>1, <3>2
  <2> QED
    BY <2>1, <2>2, <2>3, <2>4 DEF InLine, Answerable, Even
<1>12. CASE LifecycleRecord
  <2> SUFFICES ASSUME NEW r \in Stacks, Answerable(r)'
               PROVE  /\ ~Toggled(r)' /\ ~Lagging(r)' => Even(r)'
                      /\ Toggled(r)' /\ r \notin raced' => Behind(r)'
    BY DEF InLine
  <2>1. UNCHANGED <<files, live, excused>> /\ op \in {"start", "restart"} /\ pc = "record"
    BY <1>12 DEF LifecycleRecord
  <2>2. ~Toggled(r)' /\ ~Toggled(r)
    BY <1>12, <2>1 DEF LifecycleRecord, Toggled
  <2>3. Lagging(r) => Lagging(r)'
    <3>1. CASE {q \in scope : gen[q] # None} = {}
      BY <3>1 DEF Lagging
    <3>2. CASE {q \in scope : gen[q] # None} # {}
      BY <1>12, <2>1, <3>2 DEF LifecycleRecord, Lagging
    <3> QED
      BY <3>1, <3>2
  <2> QED
    BY <2>1, <2>2, <2>3 DEF InLine, Answerable, Even
<1>13. ASSUME NEW s \in Stacks, Act(s) PROVE InLine'
  <2> SUFFICES ASSUME NEW r \in Stacks, Answerable(r)'
               PROVE  /\ ~Toggled(r)' /\ ~Lagging(r)' => Even(r)'
                      /\ Toggled(r)' /\ r \notin raced' => Behind(r)'
    BY DEF InLine
  <2>1. UNCHANGED files /\ op \in Lifecycle /\ pc = "act"
    BY <1>13 DEF Act
  <2>2. ~Toggled(r)' /\ ~Toggled(r)
    BY <1>13, <2>1 DEF Act, Toggled
  <2>3. CASE r = s
    <3>1. op # "stop"
      <4>1. CASE op = "stop"
        <5>1. live'[s] = None
          BY <1>13, <4>1 DEF Act, TypeOK
        <5> QED
          BY <2>3, <5>1 DEF Answerable
      <4> QED
        BY <4>1
    <3>2. live'[s] = files[s]
      <4>1. CASE live'[s] # files[s]
        <5>1. excused' = Excuse({s}, {"left"})
          BY <1>13, <3>1, <4>1 DEF Act
        <5> QED
          BY <2>3, <5>1 DEF Excuse, Answerable
      <4> QED
        BY <4>1
    <3> QED
      BY <2>1, <2>2, <2>3, <3>2 DEF Even, SameService, Answerable
  <2>4. CASE r # s
    <3>1. live'[r] = live[r] /\ excused'[r] = excused[r]
      BY <1>13, <2>4 DEF Act, Settle, Excuse, TypeOK
    <3>2. Lagging(r) => Lagging(r)'
      <4>1. CASE todo = {s}
        BY <2>1, <2>4, <4>1 DEF Lagging
      <4>2. CASE todo # {s}
        BY <1>13, <2>1, <2>4, <4>2 DEF Act, Lagging
      <4> QED
        BY <4>1, <4>2
    <3> QED
      BY <2>1, <2>2, <3>1, <3>2 DEF InLine, Answerable, Even
  <2> QED
    BY <2>3, <2>4
<1>14. ASSUME NEW s \in Stacks, Edit(s) PROVE InLine'
  <2> SUFFICES ASSUME NEW r \in Stacks, Answerable(r)'
               PROVE  /\ ~Toggled(r)' /\ ~Lagging(r)' => Even(r)'
                      /\ Toggled(r)' /\ r \notin raced' => Behind(r)'
    BY DEF InLine
  <2>1. UNCHANGED <<files, live, excused>> /\ raced \subseteq raced'
        /\ (Toggled(r)' <=> Toggled(r)) /\ (Lagging(r)' <=> Lagging(r))
    BY <1>14 DEF Edit, Toggled, Lagging, Written, First
  <2>2. Behind(r) => Behind(r)'
    BY <1>14, <2>1 DEF Edit, Behind, After, Expected, SitesOf
  <2> QED
    BY <2>1, <2>2 DEF InLine, Answerable, Even
<1>15. ASSUME NEW s \in Stacks, Exit(s) PROVE InLine'
  <2> SUFFICES ASSUME NEW r \in Stacks, Answerable(r)'
               PROVE  /\ ~Toggled(r)' /\ ~Lagging(r)' => Even(r)'
                      /\ Toggled(r)' /\ r \notin raced' => Behind(r)'
    BY DEF InLine
  <2>1. /\ UNCHANGED <<files, raced>>
        /\ (Toggled(r)' <=> Toggled(r)) /\ (Lagging(r)' <=> Lagging(r)) /\ Expected(r)' = Expected(r)
    BY <1>15 DEF Exit, Toggled, Lagging, Written, First, Expected, SitesOf
  <2>2. live'[r] = live[r] /\ excused'[r] = excused[r]
    BY <1>15 DEF Exit, Answerable, TypeOK
  <2> QED
    BY <1>15, <2>1, <2>2 DEF Exit, InLine, Answerable, Even, Behind, After
<1>16. ASSUME NEW s \in Stacks, Reload(s) PROVE InLine'
  <2> SUFFICES ASSUME NEW r \in Stacks, Answerable(r)'
               PROVE  /\ ~Toggled(r)' /\ ~Lagging(r)' => Even(r)'
                      /\ Toggled(r)' /\ r \notin raced' => Behind(r)'
    BY DEF InLine
  <2>1. /\ UNCHANGED <<files, raced>>
        /\ (Toggled(r)' <=> Toggled(r)) /\ (Lagging(r)' <=> Lagging(r)) /\ Expected(r)' = Expected(r)
    BY <1>16 DEF Reload, Toggled, Lagging, Written, First, Expected, SitesOf
  <2>2. CASE r # s
    <3>1. live'[r] = live[r] /\ excused'[r] = excused[r]
      BY <1>16, <2>2 DEF Reload, Settle, TypeOK
    <3> QED
      BY <1>16, <2>1, <3>1 DEF Reload, InLine, Answerable, Even, Behind, After
  <2>3. CASE r = s
    <3>1. live'[r] = files[r] /\ files[r] # None
      BY <1>16, <2>3 DEF Reload, TypeOK
    <3>2. Even(r)'
      BY <2>1, <3>1 DEF Even, SameService
    <3>3. ASSUME Toggled(r), r \notin raced PROVE Keys(files[r]) = After(Keys(files[r]), Expected(r))
      <4>1. PlannedFor(r) /\ gen[r] # None
        BY <3>3 DEF Toggled, Written, Planned, PlannedFor
      <4>2. files[r] = gen[r]
        BY <3>3, <4>1 DEF Toggled, WrittenAsPlanned
      <4> QED
        BY <3>3, <4>1, <4>2 DEF Toggled, PlansToggle
    <3> QED
      BY <1>16, <2>1, <3>1, <3>2, <3>3 DEF Reload, Behind, After
  <2> QED
    BY <2>2, <2>3
<1>17. CASE Interrupt
  <2> SUFFICES ASSUME NEW r \in Stacks, Answerable(r)'
               PROVE  /\ ~Toggled(r)' /\ ~Lagging(r)' => Even(r)'
                      /\ Toggled(r)' /\ r \notin raced' => Behind(r)'
    BY DEF InLine
  <2>1. UNCHANGED <<files, live>> /\ excused[r] = {} /\ ~Toggled(r)'
    BY <1>17 DEF Interrupt, Excuse, Answerable, Toggled, TypeOK
  <2>2. ~Toggled(r)
    BY <1>17 DEF Interrupt, Excuse, Answerable, Toggled, Written, Rewrites
  <2>3. ~Lagging(r)
    BY <1>17 DEF Interrupt, Excuse, Answerable, Lagging, Rewrites
  <2> QED
    BY <2>1, <2>2, <2>3 DEF InLine, Answerable, Even
<1>18. CASE UNCHANGED vars
  <2> SUFFICES ASSUME NEW r \in Stacks, Answerable(r)'
               PROVE  /\ ~Toggled(r)' /\ ~Lagging(r)' => Even(r)'
                      /\ Toggled(r)' /\ r \notin raced' => Behind(r)'
    BY DEF InLine
  <2>1. UNCHANGED <<files, live, excused>> /\ raced \subseteq raced'
        /\ (Toggled(r)' <=> Toggled(r)) /\ (Lagging(r)' <=> Lagging(r))
    BY <1>18 DEF vars, Toggled, Lagging, Written, First
  <2>2. Behind(r) => Behind(r)'
    BY <1>18, <2>1 DEF vars, Behind, After, Expected, SitesOf
  <2> QED
    BY <2>1, <2>2 DEF InLine, Answerable, Even
<1> QED
  BY <1>1, <1>2, <1>3, <1>4, <1>5, <1>6, <1>7, <1>8, <1>9, <1>10, <1>11, <1>12, <1>13, <1>14,
     <1>15, <1>16, <1>17, <1>18 DEF Next

(* A machine on which nothing was applied yet. *)
LEMMA SteadyInit == Init => Steady
<1> SUFFICES ASSUME Init PROVE Steady
  OBVIOUS
<1>1. Honest
  BY HonestInit
<1>2. Aim /\ Seen /\ PlansToggle /\ PlansChecked
  BY DEF Init, Toggling, Aim, Seen, PlansToggle, PlansChecked
<1>3. Full /\ InLine /\ NoInboundEmptied
  BY DEF Init, Full, InLine, Answerable, NoInboundEmptied
<1> QED
  BY <1>1, <1>2, <1>3 DEF Steady

(* No step leaves the invariant ... *)
LEMMA SteadyStep == Steady /\ [Next]_vars => Steady'
<1> SUFFICES ASSUME Steady, [Next]_vars PROVE Steady'
  OBVIOUS
<1>1. Honest'
  BY HonestStep DEF Steady
<1> QED
  BY <1>1, AimStep, SeenStep, PlansToggleStep, PlansCheckedStep, FullStep, LiveStep, InLineStep
     DEF Steady

(* ... so every reachable state satisfies it. *)
LEMMA AlwaysSteady == Spec => []Steady
  BY SteadyInit, SteadyStep, PTL DEF Spec

(* With no command at work on its stack, an instance is even with its file. *)
LEMMA EvenWhenDone ==
    ASSUME Steady, NEW s \in Stacks, Answerable(s), ~InFlight(s) PROVE Even(s)
<1>1. ~Lagging(s)
  BY DEF InFlight, Lagging
<1>2. CASE ~Toggled(s)
  BY <1>1, <1>2 DEF Steady, InLine
<1>3. CASE Toggled(s)
  <2>1. op \in Toggles /\ s \in scope /\ pc \in {"write", "record", "live"}
    BY <1>3 DEF Toggled, Toggling, Written
  <2>2. SitesOf(s) = {} /\ pc = "live"
    BY <2>1 DEF InFlight, Steady, Honest, Remembered
  <2>3. s \notin raced
    BY <2>1, <2>2 DEF Steady, Honest, Remembered, Answerable
  <2>4. Behind(s) /\ Expected(s) = {}
    BY <1>3, <2>2, <2>3 DEF Steady, InLine, Expected
  <2> QED
    BY <2>4 DEF Behind, Even, After, SameService
<1> QED
  BY <1>2, <1>3

\* However many stacks, inbounds and users there are, an instance that differs from its file by more
\* than credentials was announced: UsersOnlyPlan keeps every pending edit out of a toggle's files, and
\* the live changes complete exactly what the toggle wrote.
THEOREM DriftIsAnnounced == Spec => []NoUnannouncedDrift
<1>1. Steady => NoUnannouncedDrift
  BY EvenWhenDone DEF NoUnannouncedDrift, Answerable, Even
<1> QED
  BY <1>1, AlwaysSteady, PTL

\* A disabled user stays off: no sequence of toggles, restarts, reloads and edits lets the user back
\* into a running instance without a warning.
THEOREM DisabledStaysOff == Spec => []DisabledMeansOff
<1>1. Steady => DisabledMeansOff
  <2> SUFFICES ASSUME Steady, NEW s \in Stacks, NEW u \in Users, Answerable(s), ~InFlight(s),
                      <<s, u>> \in disabled
               PROVE  \A t \in Tags : <<t, u>> \notin Keys(live[s])
    BY DEF DisabledMeansOff, Answerable
  <2>1. files[s] # None /\ Keys(live[s]) = Keys(files[s])
    BY EvenWhenDone DEF Even, SameService
  <2>2. ~Unwritten(s)
    BY DEF Unwritten, InFlight, Steady, Honest, TypeOK, Remembered
  <2>3. s \notin raced \/ pc \in {"plan", "save"}
    <3> SUFFICES ASSUME s \in raced, pc \notin {"plan", "save"} PROVE FALSE
      OBVIOUS
    <3>1. op \in Toggles /\ s \in scope
      BY DEF Steady, Honest, Scoped
    <3>2. pc \in {"write", "record", "live"}
      BY <3>1 DEF Steady, Honest, Forgetful, Phases, TypeOK, Toggles, Lifecycle
    <3>3. SitesOf(s) = {}
      BY <3>1, <3>2 DEF InFlight
    <3> QED
      BY <3>1, <3>2, <3>3 DEF Steady, Honest, Remembered, Answerable
  <2>4. Honours(files[s], s, disabled)
    BY <2>1, <2>2, <2>3 DEF Steady, Honest, FilesHonour, Excused, Answerable
  <2> QED
    BY <2>1, <2>4 DEF Honours
<1> QED
  BY <1>1, AlwaysSteady, PTL

\* No running inbound loses all its users: validation, the refusal of ensureInboundKeepsUser and the
\* failure of applyDisabledUsers leave no way to it.
THEOREM InboundsKeepUsers == Spec => []NoInboundEmptied
  BY AlwaysSteady, PTL DEF Steady

=============================================================================
