---------------------------- MODULE InputWatcher ----------------------------
(***************************************************************************)
(* pssub serve: the index in memory, the goroutine that watches the inputs *)
(* directory and reloads it, and the pssub commands that change it from    *)
(* another process, one file at a time (input edit, clone, set-host,       *)
(* remove) or by swapping the whole directory (import).                    *)
(*                                                                         *)
(* A reload lists the directory and then reads one file after the other,   *)
(* and the snapshot the next poll is compared with is taken only after it: *)
(* changes may fall between any two of these steps.                        *)
(*                                                                         *)
(* Every write gets a fresh version, which stands for the content and for  *)
(* the modification time; Bad are the versions that cannot be parsed, and  *)
(* Clashes the sets of versions that cannot be merged with one another.    *)
(***************************************************************************)
EXTENDS Naturals

CONSTANTS
    Files,       \* input file names, as numbers: they are read in sorted order
    Bad,         \* versions that fail to parse
    Clashes,     \* sets of versions that repeat a node id or a proxy name
    Gone,        \* the inputs directory does not exist
    None,        \* no index was loaded yet
    MaxVersion,  \* bound on writes and renames of the directory together
    MaxStarts    \* bound on starts of the server

Absent == 0
Versions == 1..MaxVersion
Listing == [Files -> Versions \cup {Absent}]
Empty == [f \in Files |-> Absent]

ASSUME FilesAssumption == Files \subseteq Nat
ASSUME BoundsAssumption == MaxVersion \in Nat \ {0} /\ MaxStarts \in Nat
ASSUME BadAssumption == Bad \subseteq Versions
ASSUME ClashAssumption == Clashes \subseteq (SUBSET Versions) \ {{}}
ASSUME SentinelAssumption == Gone \notin Listing /\ None \notin Listing

VARIABLES
    inputs,     \* the inputs directory
    backup,     \* what import moved aside; Gone: nothing
    version,    \* versions handed out
    watching,   \* fsnotify watches the directory that is there now
    event,      \* an fsnotify event waits to be read
    pc,         \* where the server is
    booted,     \* State.Load is over, further loads are reloads
    names,      \* files listed and not read yet
    got,        \* what was read of this load
    snapshot,   \* lastSnapshot
    timer,      \* the debounce timer runs
    index,      \* the index requests are answered from
    lastError,  \* the last load failed
    starts,     \* starts so far
    missed      \* history: a change fell where neither events nor polling look

directory == <<inputs, backup, version>>
watcher == <<watching, event, snapshot, timer>>
state == <<index, lastError>>
load == <<names, got>>
vars == <<directory, watcher, state, load, pc, booted, starts, missed>>

\* LoadInputs and MergeInputs accept the directory.
Mergeable(d) ==
    /\ \A f \in Files : d[f] \notin Bad
    /\ \A C \in Clashes : \E v \in C : \A f \in Files : d[f] # v
Listed(d) == {f \in Files : d[f] # Absent}
\* scanSnapshot: name to mtime; a directory that cannot be read is an empty one.
Scan == IF inputs = Gone THEN Empty ELSE inputs

(***************************************************************************)
(* The server.                                                             *)
(***************************************************************************)

\* pssub serve starts, or is started again.
Boot ==
    /\ pc = "down" /\ starts < MaxStarts
    /\ pc' = "list" /\ starts' = starts + 1
    /\ UNCHANGED <<directory, watcher, state, load, booted, missed>>

\* Mutated Refuse: a failed reload leaves the server without an index.
RefuseAndDrop ==
    /\ lastError' = TRUE
    /\ pc' = IF booted THEN "rescan" ELSE "failed"
    /\ index' = None

\* A load that fails: State.Load ends the server, Reload keeps the index it has.
Refuse ==
    /\ lastError' = TRUE
    /\ pc' = IF booted THEN "rescan" ELSE "failed"
    /\ UNCHANGED index

\* ScanInputFiles
List ==
    /\ pc = "list"
    /\ missed' = FALSE
    /\ IF inputs = Gone
       THEN Refuse /\ UNCHANGED load
       ELSE /\ names' = Listed(inputs) /\ got' = Empty
            /\ pc' = "read"
            /\ UNCHANGED state
    /\ UNCHANGED <<directory, watcher, booted, starts>>

\* LoadInputs: the next file by name, as it is by now.
Read(f) ==
    /\ pc = "read" /\ f \in names /\ \A g \in names : f <= g
    /\ IF inputs = Gone \/ Scan[f] \in Bad \cup {Absent}
       THEN Refuse /\ UNCHANGED load
       ELSE /\ names' = names \ {f} /\ got' = [got EXCEPT ![f] = inputs[f]]
            /\ UNCHANGED <<pc, state>>
    /\ UNCHANGED <<directory, watcher, booted, starts, missed>>

\* MergeInputs, and the swap of the index under the lock.
Merge ==
    /\ pc = "read" /\ names = {}
    /\ IF Mergeable(got)
       THEN /\ index' = got /\ lastError' = FALSE
            /\ pc' = IF booted THEN "rescan" ELSE "attach"
       ELSE Refuse
    /\ UNCHANGED <<directory, watcher, load, booted, starts, missed>>

\* Watcher.Start: the directory is created if need be; polling alone remains if fsnotify fails.
Attach ==
    /\ pc = "attach"
    /\ inputs' = Scan
    /\ watching' \in BOOLEAN
    /\ pc' = "rescan" /\ booted' = TRUE
    /\ UNCHANGED <<backup, version, event, snapshot, timer, state, load, starts, missed>>

\* Mutated Rescan: the directory is taken to exist.
RescanUnchecked ==
    /\ pc = "rescan"
    /\ snapshot' = inputs
    /\ pc' = "select"
    /\ UNCHANGED <<directory, watching, event, timer, state, load, booted, starts, missed>>

\* lastSnapshot = scanSnapshot, when run starts and after every reload.
Rescan ==
    /\ pc = "rescan"
    /\ snapshot' = Scan
    /\ pc' = "select"
    /\ UNCHANGED <<directory, watching, event, timer, state, load, booted, starts, missed>>

\* Mutated TakeEvent: the event is read and no reload is scheduled.
TakeEventOnly ==
    /\ pc = "select" /\ event
    /\ event' = FALSE
    /\ UNCHANGED <<directory, watching, snapshot, timer, state, load, pc, booted, starts, missed>>

\* Mutated Tick: fsnotify alone, without polling.
TickNever == FALSE

\* The select loop: an event, a tick that finds a difference, the debounce timer.
TakeEvent ==
    /\ pc = "select" /\ event
    /\ event' = FALSE /\ timer' = TRUE
    /\ UNCHANGED <<directory, watching, snapshot, state, load, pc, booted, starts, missed>>

Tick ==
    /\ pc = "select" /\ snapshot # Scan
    /\ snapshot' = Scan /\ timer' = TRUE
    /\ UNCHANGED <<directory, watching, event, state, load, pc, booted, starts, missed>>

Fire ==
    /\ pc = "select" /\ timer
    /\ timer' = FALSE /\ pc' = "list"
    /\ UNCHANGED <<directory, watching, event, snapshot, state, load, booted, starts, missed>>

\* The process ends, by Stop or by a signal, and with it all it had in memory.
Exit ==
    /\ pc # "down"
    /\ pc' = "down" /\ booted' = FALSE
    /\ watching' = FALSE /\ event' = FALSE /\ timer' = FALSE /\ snapshot' = Empty
    /\ index' = None /\ lastError' = FALSE
    /\ names' = {} /\ got' = Empty /\ missed' = FALSE
    /\ UNCHANGED <<directory, starts>>

(***************************************************************************)
(* The commands, in processes of their own.                                *)
(***************************************************************************)

\* The server has begun to read and has not taken the snapshot of afterwards.
Blind == pc \in {"read", "attach", "rescan"}

Change(d) ==
    /\ inputs' = d
    /\ missed' = (missed \/ (Blind /\ ~event'))

Stamp == version < MaxVersion /\ version' = version + 1

\* A file is created or replaced by rename: input edit, clone, set-host, or a copy by hand.
Write(f) ==
    /\ inputs # Gone
    /\ event' = (event \/ watching)
    /\ Change([inputs EXCEPT ![f] = version + 1])
    /\ Stamp
    /\ UNCHANGED <<backup, watching, snapshot, timer, state, load, pc, booted, starts>>

\* input remove
Remove(f) ==
    /\ inputs # Gone /\ inputs[f] # Absent
    /\ event' = (event \/ watching)
    /\ Change([inputs EXCEPT ![f] = Absent])
    /\ UNCHANGED <<backup, version, watching, snapshot, timer, state, load, pc, booted, starts>>

\* import, swapDirectory: the directory is moved aside.  The watch goes with it; whether events of
\* the old directory still arrive is up to fsnotify.
MoveAside ==
    /\ backup = Gone
    /\ backup' = Scan
    /\ watching' = FALSE
    /\ event' \in {event, event \/ watching}
    /\ Change(Gone)
    /\ Stamp
    /\ UNCHANGED <<snapshot, timer, state, load, pc, booted, starts>>

\* ... the staged directory, which was merged to validate it, takes its name, and the old one is
\* deleted, which the watch may still report ...
MoveIn ==
    /\ backup # Gone /\ Scan = Empty
    /\ event' \in {event, event \/ booted}
    /\ \E F \in (SUBSET Files) \ {{}} :
         LET staged == [f \in Files |-> IF f \in F THEN version + 1 ELSE Absent]
         IN  Mergeable(staged) /\ Change(staged)
    /\ watching' = FALSE
    /\ backup' = Gone
    /\ Stamp
    /\ UNCHANGED <<snapshot, timer, state, load, pc, booted, starts>>

\* ... or cannot, and the old directory is moved back, with its watch or without.
MoveBack ==
    /\ backup # Gone /\ Scan = Empty
    /\ UNCHANGED event
    /\ Change(backup)
    /\ watching' \in {FALSE, booted}
    /\ backup' = Gone
    /\ UNCHANGED <<version, snapshot, timer, state, load, pc, booted, starts>>

\* ... or import is killed here, or neither rename works: what it moved aside stays aside.
Abandon ==
    /\ backup # Gone
    /\ backup' = Gone
    /\ UNCHANGED <<inputs, version, watcher, state, load, pc, booted, starts, missed>>

Init ==
    /\ inputs \in {Empty, [f \in Files |-> 1]} /\ version = 1
    /\ backup = Gone
    /\ watching = FALSE /\ event = FALSE /\ snapshot = Empty /\ timer = FALSE
    /\ index = None /\ lastError = FALSE
    /\ names = {} /\ got = Empty
    /\ pc = "down" /\ booted = FALSE /\ starts = 0 /\ missed = FALSE

Server ==
    \/ List \/ Merge \/ Attach \/ Rescan \/ TakeEvent \/ Tick \/ Fire
    \/ \E f \in Files : Read(f)

Next ==
    \/ Server \/ Boot \/ Exit
    \/ \E f \in Files : Write(f) \/ Remove(f)
    \/ MoveAside \/ MoveIn \/ MoveBack \/ Abandon

\* The goroutine is scheduled and its channels are served; nobody has to issue a command.
Spec == Init /\ [][Next]_vars /\ WF_vars(Server)

-----------------------------------------------------------------------------

\* What the server answers from agrees with the directory, or /health says that it does not.  An
\* error about a missing directory may outlive it: an empty one has the same snapshot.
Fresh ==
    \/ inputs = Gone
    \/ (~Mergeable(inputs) /\ lastError)
    \/ (Mergeable(inputs) /\ index = inputs /\ ~lastError)
    \/ (inputs = Empty /\ lastError)

\* Nothing the loop waits for will come by itself.
Quiet == pc = "select" /\ ~event /\ ~timer /\ snapshot = Scan

\* When the loop has come to rest, the index is the directory: fsnotify and polling together lose
\* no change, but for one that falls while nothing is watched, between the read of a load and the
\* snapshot after it.
QuietIsFresh == Quiet => missed \/ Fresh

\* Every change is reloaded after the debounce (docs/http-subserver-spec.md, section 8).
EveryChangeReloads == Quiet => Fresh

\* When the commands stop, a server that runs ends up serving what they left, whatever the order
\* in which events, ticks and the timer were taken; it is never busy forever.
ComesToRest == <>[](pc \in {"down", "failed"} \/ (Quiet /\ (missed \/ Fresh)))

\* A server that answers requests has an index, and one the merge accepted, whatever the directory
\* went through since: failed reloads take nothing away (docs/http-subserver-spec.md, section 3),
\* and the 503 index_unavailable of subscriptionHandler is never sent.
AlwaysServes == booted => index # None /\ Mergeable(index)

\* The variables hold values of the right kind.
TypeOK ==
    /\ inputs \in Listing \cup {Gone} /\ backup \in Listing \cup {Gone}
    /\ version \in Versions
    /\ watching \in BOOLEAN /\ event \in BOOLEAN /\ timer \in BOOLEAN
    /\ pc \in {"down", "failed", "list", "read", "attach", "rescan", "select"}
    /\ booted \in BOOLEAN
    /\ names \subseteq Files /\ got \in Listing /\ snapshot \in Listing
    /\ index \in Listing \cup {None}
    /\ lastError \in BOOLEAN /\ missed \in BOOLEAN
    /\ starts \in 0..MaxStarts
=============================================================================
