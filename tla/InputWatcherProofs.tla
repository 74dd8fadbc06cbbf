------------------------- MODULE InputWatcherProofs -------------------------
(* InputWatcher loses no change unnoticed, for any number of files, versions and starts. *)
EXTENDS InputWatcher, TLAPS

-----------------------------------------------------------------------------
(* Type correctness. *)

(* An empty directory is a listing like any other. *)
LEMMA EmptyListing == Empty \in Listing
  BY DEF Empty, Listing

(* No step takes a variable out of its type. *)
LEMMA TypeStep == TypeOK /\ [Next]_vars => TypeOK'
<1> USE BoundsAssumption, SentinelAssumption DEF TypeOK, Listing, Empty, Absent, Versions, Scan
<1> SUFFICES ASSUME TypeOK, [Next]_vars PROVE TypeOK'
  OBVIOUS
<1>1. CASE Boot
  BY <1>1 DEF Boot, directory, watcher, state, load
<1>2. CASE Exit
  BY <1>2 DEF Exit, directory
<1>3. CASE List
  BY <1>3 DEF List, Refuse, Listed, directory, watcher, state, load
<1>4. ASSUME NEW f \in Files, Read(f) PROVE TypeOK'
  BY <1>4 DEF Read, Refuse, directory, watcher, state, load
<1>5. CASE Merge
  BY <1>5 DEF Merge, Refuse, directory, watcher, load
<1>6. CASE Attach
  BY <1>6 DEF Attach, state, load
<1>7. CASE Rescan
  BY <1>7 DEF Rescan, directory, state, load
<1>8. CASE TakeEvent
  BY <1>8 DEF TakeEvent, directory, state, load
<1>9. CASE Tick
  BY <1>9 DEF Tick, directory, state, load
<1>10. CASE Fire
  BY <1>10 DEF Fire, directory, state, load
<1>11. ASSUME NEW f \in Files, Write(f) PROVE TypeOK'
  BY <1>11 DEF Write, Change, Stamp, state, load
<1>12. ASSUME NEW f \in Files, Remove(f) PROVE TypeOK'
  BY <1>12 DEF Remove, Change, state, load
<1>13. CASE MoveAside
  <2>1. Scan \in Listing
    BY EmptyListing
  <2>2. backup' \in Listing /\ inputs' = Gone
    BY <1>13, <2>1 DEF MoveAside, Change
  <2>3. event' \in BOOLEAN /\ version' \in Versions /\ missed' \in BOOLEAN
    BY <1>13 DEF MoveAside, Change, Stamp, Blind
  <2> QED
    BY <1>13, <2>2, <2>3 DEF MoveAside, state, load
<1>14. CASE MoveIn
  <2>1. version + 1 \in Versions /\ version' = version + 1
    BY <1>14 DEF MoveIn, Stamp
  <2>2. inputs' \in Listing
    BY <1>14, <2>1 DEF MoveIn, Change
  <2>3. missed' \in BOOLEAN
    BY <1>14 DEF MoveIn, Change, Blind
  <2> QED
    BY <1>14, <2>1, <2>2, <2>3 DEF MoveIn, state, load
<1>15. CASE MoveBack
  BY <1>15 DEF MoveBack, Change, state, load
<1>16. CASE Abandon
  BY <1>16 DEF Abandon, watcher, state, load
<1>17. CASE UNCHANGED vars
  BY <1>17 DEF vars, directory, watcher, state, load
<1> QED
  BY <1>1, <1>2, <1>3, <1>4, <1>5, <1>6, <1>7, <1>8, <1>9, <1>10, <1>11, <1>12, <1>13,
     <1>14, <1>15, <1>16, <1>17 DEF Next, Server

(* The initial values are of their types. *)
LEMMA TypeInit == Init => TypeOK
<1> USE BoundsAssumption, SentinelAssumption DEF TypeOK, Listing, Empty, Absent, Versions, Scan
<1>0. Empty \in Listing /\ 1 \in Versions /\ [f \in Files |-> 1] \in Listing
  OBVIOUS
<1> SUFFICES ASSUME Init PROVE TypeOK
  OBVIOUS
<1>1. inputs \in Listing /\ backup \in {Gone} /\ version \in Versions
  BY <1>0 DEF Init
<1>2. got \in Listing /\ snapshot \in Listing
  BY <1>0 DEF Init
<1>3. starts \in 0..MaxStarts
  BY DEF Init
<1> HIDE DEF Listing, Empty, Versions, Scan
<1> QED
  BY <1>1, <1>2, <1>3 DEF Init

\* The variables keep their types: in particular the snapshot of scanSnapshot is always a listing,
\* also while the directory is gone, and versions are never handed out beyond the bound.
THEOREM TypeCorrect == Spec => []TypeOK
  BY TypeInit, TypeStep, PTL DEF Spec

-----------------------------------------------------------------------------
(* Why a loop at rest is up to date: what it served when it took the snapshot. *)

\* The last load had the outcome that directory d calls for.
FreshFor(d) ==
    \/ ~Mergeable(d) /\ lastError
    \/ Mergeable(d) /\ index = d /\ ~lastError
    \/ d = Empty /\ lastError

\* No event is on its way and no change escaped: what was seen is still there.
Undisturbed == ~event /\ ~missed

ReadSoFar ==
    pc = "read" /\ Undisturbed =>
        /\ inputs # Gone
        /\ \A f \in names : inputs[f] # Absent
        /\ \A f \in Files \ names : got[f] = inputs[f]

Loaded == pc = "attach" /\ Undisturbed => inputs # Gone /\ FreshFor(inputs)
Reloaded == pc = "rescan" /\ Undisturbed => FreshFor(Scan)
Rested == pc = "select" /\ Undisturbed /\ ~timer => FreshFor(snapshot)
TimerSelects == timer => pc = "select"
Serving == booted \/ pc = "attach" => index # None /\ Mergeable(index)

Watched ==
    /\ TypeOK /\ ReadSoFar /\ Loaded /\ Reloaded /\ Rested
    /\ TimerSelects /\ Serving

(* The commands: whatever they change while the server reads is an event or is missed. *)
LEMMA ChangeStep ==
    ASSUME NEW d, Watched, TypeOK', Change(d), event => event',
           UNCHANGED <<snapshot, timer, state, load, pc, booted>>
    PROVE  Watched'
<1>1. event' \in BOOLEAN /\ missed' \in BOOLEAN /\ event \in BOOLEAN /\ missed \in BOOLEAN
  BY DEF Watched, TypeOK
<1>2. Undisturbed' => Undisturbed /\ ~Blind
  BY <1>1 DEF Change, Undisturbed
<1>3. ReadSoFar' /\ Loaded' /\ Reloaded'
  BY <1>2 DEF ReadSoFar, Loaded, Reloaded, Blind
<1>4. Rested'
  BY <1>2 DEF Watched, Rested, FreshFor, Mergeable, state
<1>5. TimerSelects' /\ Serving'
  BY DEF Watched, TimerSelects, Serving, Mergeable, state
<1> QED
  BY <1>3, <1>4, <1>5 DEF Watched

(* Only a load that succeeds replaces the index, and only the end of the process gives it up. *)
LEMMA ServingStep == Watched /\ [Next]_vars => Serving'
<1> SUFFICES ASSUME Watched, [Next]_vars PROVE Serving'
  OBVIOUS
<1>1. Serving /\ None \notin Listing /\ got \in Listing
  BY SentinelAssumption DEF Watched, TypeOK
<1>2. CASE Merge
  <2>1. CASE Mergeable(got)
    BY <1>1, <1>2, <2>1 DEF Merge, Serving, Mergeable
  <2>2. CASE ~Mergeable(got)
    <3>1. index' = index /\ pc' # "attach" /\ booted' = booted
      BY <1>2, <2>2 DEF Merge, Refuse
    <3> QED
      BY <1>1, <3>1 DEF Serving, Mergeable
  <2> QED
    BY <2>1, <2>2
<1>3. CASE Exit
  BY <1>3 DEF Exit, Serving
<1>4. CASE Attach
  BY <1>1, <1>4 DEF Attach, Serving, Mergeable, state
<1>5. ASSUME ~Merge, ~Exit, ~Attach
      PROVE  index' = index /\ booted' = booted /\ (pc' = "attach" => pc = "attach")
  BY <1>5 DEF Next, Server, Boot, List, Read, Refuse, Rescan, TakeEvent, Tick, Fire, Write,
     Remove, MoveAside, MoveIn, MoveBack, Abandon, state, vars
<1> QED
  BY <1>1, <1>2, <1>3, <1>4, <1>5 DEF Serving, Mergeable

(* Every step keeps what the server has seen in line with the directory. *)
LEMMA WatchedStep == Watched /\ [Next]_vars => Watched'
<1> SUFFICES ASSUME Watched, [Next]_vars PROVE Watched'
  OBVIOUS
<1>0. TypeOK /\ TypeOK' /\ Serving'
  BY TypeStep, ServingStep DEF Watched
<1> USE <1>0
<1>1. CASE Boot
  BY <1>1 DEF Boot, Watched, ReadSoFar, Loaded, Reloaded, Rested, TimerSelects,
     Mergeable, watcher, load
<1>2. CASE Exit
  BY <1>2 DEF Exit, Watched, ReadSoFar, Loaded, Reloaded, Rested, TimerSelects,
     Mergeable, Empty
<1>3. CASE List
  <2>1. TimerSelects' /\ pc' # "select" /\ pc' # "attach"
    BY <1>3 DEF List, Refuse, Watched, TimerSelects, watcher
  <2>2. CASE inputs = Gone
    <3>1. lastError' /\ Scan' = Empty /\ pc' \in {"rescan", "failed"} /\ UNCHANGED load
      BY <1>3, <2>2 DEF List, Refuse, Scan, directory
    <3> QED
      BY <2>1, <3>1 DEF Watched, ReadSoFar, Loaded, Reloaded, Rested, Mergeable,
         FreshFor, load
  <2>3. CASE inputs # Gone
    <3>1. pc' = "read" /\ names' = Listed(inputs) /\ got' = Empty /\ inputs' = inputs
      BY <1>3, <2>3 DEF List, directory
    <3>2. ReadSoFar'
      BY <3>1, <2>3 DEF ReadSoFar, Listed, Empty
    <3> QED
      BY <2>1, <3>1, <3>2 DEF Watched, Loaded, Reloaded, Rested
  <2> QED
    BY <2>2, <2>3
<1>4. ASSUME NEW f \in Files, Read(f) PROVE Watched'
  <2>1. TimerSelects' /\ Undisturbed' = Undisturbed /\ inputs' = inputs
    BY <1>4 DEF Read, Refuse, Watched, TimerSelects, Undisturbed, directory, watcher
  <2>2. CASE inputs = Gone \/ Scan[f] \in Bad \cup {Absent}
    <3>1. lastError' /\ UNCHANGED load /\ pc' \in {"rescan", "failed"}
      BY <1>4, <2>2 DEF Read, Refuse
    <3>2. ASSUME Undisturbed PROVE ~Mergeable(inputs)
      <4>1. inputs # Gone /\ inputs[f] # Absent
        BY <1>4, <3>2 DEF Read, Watched, ReadSoFar
      <4> QED
        BY <4>1, <2>2 DEF Scan, Mergeable
    <3>3. Undisturbed => inputs # Gone
      BY <1>4 DEF Read, Watched, ReadSoFar
    <3>4. Reloaded'
      BY <2>1, <3>1, <3>2, <3>3 DEF Reloaded, FreshFor, Scan, Mergeable
    <3> QED
      BY <2>1, <3>1, <3>4 DEF Watched, ReadSoFar, Loaded, Rested, Mergeable, load
  <2>3. CASE inputs # Gone /\ Scan[f] \notin Bad \cup {Absent}
    <3>1. /\ names' = names \ {f} /\ got' = [got EXCEPT ![f] = inputs[f]]
          /\ pc' = "read" /\ inputs[f] \notin Bad
      BY <1>4, <2>3 DEF Read, Scan
    <3>2. got \in [Files -> Versions \cup {Absent}]
      BY DEF TypeOK, Listing
    <3>3. ReadSoFar'
      BY <1>4, <2>1, <2>3, <3>1, <3>2 DEF Read, Watched, ReadSoFar
    <3> QED
      BY <2>1, <3>1, <3>3 DEF Watched, Loaded, Reloaded, Rested
  <2> QED
    BY <2>2, <2>3
<1>5. CASE Merge
  <2>1. TimerSelects' /\ Undisturbed' = Undisturbed /\ inputs' = inputs
    BY <1>5 DEF Merge, Watched, TimerSelects, Undisturbed, directory, watcher
  <2>2. ASSUME Undisturbed PROVE inputs # Gone /\ got = inputs
    <3>1. inputs # Gone /\ \A f \in Files : got[f] = inputs[f]
      BY <1>5, <2>2 DEF Merge, Watched, ReadSoFar
    <3>2. got \in [Files -> Versions \cup {Absent}] /\ inputs \in [Files -> Versions \cup {Absent}]
      BY <3>1 DEF TypeOK, Listing
    <3> QED
      BY <3>1, <3>2
  <2>3. pc' \in {"rescan", "attach", "failed"} /\ (pc' = "attach" => Mergeable(got))
    BY <1>5 DEF Merge, Refuse
  <2>4. IF Mergeable(got) THEN index' = got /\ ~lastError' ELSE lastError'
    BY <1>5 DEF Merge, Refuse
  <2>5. Undisturbed => inputs' # Gone /\ FreshFor(inputs)'
    BY <2>1, <2>2, <2>4 DEF FreshFor, Mergeable
  <2>6. Loaded' /\ Reloaded'
    BY <2>1, <2>5 DEF Loaded, Reloaded, Scan
  <2> QED
    BY <2>1, <2>3, <2>6 DEF Watched, ReadSoFar, Rested
<1>6. CASE Attach
  <2>1. pc = "attach" /\ pc' = "rescan" /\ UNCHANGED <<event, missed, timer, state, load>>
    BY <1>6 DEF Attach
  <2>2. Undisturbed' => inputs # Gone /\ FreshFor(inputs)
    BY <2>1 DEF Undisturbed, Watched, Loaded
  <2>3. inputs # Gone => Scan' = inputs
    BY <1>6 DEF Attach, Scan
  <2>4. Reloaded'
    BY <2>1, <2>2, <2>3 DEF Reloaded, FreshFor, Mergeable, state
  <2> QED
    BY <2>1, <2>4 DEF Watched, ReadSoFar, Loaded, Rested, TimerSelects, Mergeable,
       load
<1>7. CASE Rescan
  <2>1. /\ pc = "rescan" /\ pc' = "select" /\ snapshot' = Scan
        /\ UNCHANGED <<event, missed, timer, state, load>>
    BY <1>7 DEF Rescan
  <2>2. Rested'
    BY <2>1 DEF Watched, Reloaded, Rested, Undisturbed, FreshFor, Mergeable, state
  <2> QED
    BY <2>1, <2>2 DEF Watched, ReadSoFar, Loaded, Reloaded, TimerSelects,
       Mergeable, load
<1>8. CASE TakeEvent
  BY <1>8 DEF TakeEvent, Watched, ReadSoFar, Loaded, Reloaded, Rested, TimerSelects,
     Mergeable, load
<1>9. CASE Tick
  BY <1>9 DEF Tick, Watched, ReadSoFar, Loaded, Reloaded, Rested, TimerSelects,
     Mergeable, load
<1>10. CASE Fire
  BY <1>10 DEF Fire, Watched, ReadSoFar, Loaded, Reloaded, Rested, TimerSelects,
     Mergeable, load
<1>11. ASSUME NEW f \in Files, Write(f) PROVE Watched'
  BY <1>11, ChangeStep DEF Write
<1>12. ASSUME NEW f \in Files, Remove(f) PROVE Watched'
  BY <1>12, ChangeStep DEF Remove
<1>13. CASE MoveAside
  <2>1. Change(Gone) /\ UNCHANGED <<snapshot, timer, state, load, pc, booted>>
    BY <1>13 DEF MoveAside
  <2>2. event => event'
    BY <1>13, Zenon DEF MoveAside
  <2> QED
    BY <2>1, <2>2, ChangeStep
<1>14. CASE MoveIn
  <2>1. UNCHANGED <<snapshot, timer, state, load, pc, booted>>
    BY <1>14 DEF MoveIn
  <2>2. PICK d : Change(d)
    BY <1>14 DEF MoveIn
  <2>3. event => event'
    BY <1>14, Zenon DEF MoveIn
  <2> QED
    BY <2>1, <2>2, <2>3, ChangeStep
<1>15. CASE MoveBack
  BY <1>15, ChangeStep DEF MoveBack
<1>16. CASE Abandon
  BY <1>16 DEF Abandon, Watched, ReadSoFar, Loaded, Reloaded, Rested, TimerSelects,
     Serving, Undisturbed, FreshFor, Mergeable, Scan, watcher, state, load
<1>17. CASE UNCHANGED vars
  BY <1>17 DEF vars, Watched, ReadSoFar, Loaded, Reloaded, Rested, TimerSelects,
     Serving, Undisturbed, FreshFor, Mergeable, Scan, directory, watcher, state, load
<1> QED
  BY <1>1, <1>2, <1>3, <1>4, <1>5, <1>6, <1>7, <1>8, <1>9, <1>10, <1>11, <1>12, <1>13,
     <1>14, <1>15, <1>16, <1>17 DEF Next, Server

(* The starting state has seen nothing and served nothing. *)
LEMMA WatchedInit == Init /\ TypeOK => Watched
  BY DEF Init, Watched, ReadSoFar, Loaded, Reloaded, Rested, TimerSelects,
     Serving, Mergeable, Empty

(* The invariant holds in every reachable state. *)
LEMMA AlwaysWatched == Spec => []Watched
<1>1. Init => TypeOK
  BY TypeInit
<1>2. Init => Watched
  BY <1>1, WatchedInit
<1> QED
  BY <1>2, WatchedStep, PTL DEF Spec

\* A loop at rest serves the directory, or /health admits that it does not, unless a change fell
\* between the read of a load and the snapshot after it: fsnotify and polling lose no other one,
\* whichever way import swaps the directory and whatever fsnotify delivers of it.
THEOREM RestMeansFresh == Spec => []QuietIsFresh
<1>1. Watched => QuietIsFresh
  <2> SUFFICES ASSUME Watched, Quiet, ~missed PROVE Fresh
    BY DEF QuietIsFresh
  <2>1. FreshFor(snapshot) /\ snapshot = Scan
    BY DEF Watched, Rested, Quiet, Undisturbed
  <2> QED
    BY <2>1 DEF FreshFor, Fresh, Scan
<1> QED
  BY <1>1, AlwaysWatched, PTL

\* Whoever asks a server that has started gets an answer from an index the merge accepted, through
\* every failed reload: /health may say error, but no request sees an index that is gone.
THEOREM AnswersAlways == Spec => []AlwaysServes
<1>1. Watched => AlwaysServes
  BY DEF Watched, Serving, AlwaysServes
<1> QED
  BY <1>1, AlwaysWatched, PTL

=============================================================================
