----------------------------- MODULE AtomicStore -----------------------------
(***************************************************************************)
(* What the commands of psctl promise about the two things an operator     *)
(* edits, config.yaml and the stacks directory, when they are looked at    *)
(* between commands: a command writes config.yaml, or writes or drops one  *)
(* stack; only a restore changes both, at once, to what one export saw,    *)
(* and a restore that fails once has changed nothing.  A crash, or a       *)
(* second failure while the first is undone, can take either away.         *)
(***************************************************************************)
EXTENDS Integers

CONSTANT Names  \* the names a stack can have

VARIABLES
    config,   \* config.yaml: <<content>>, or <<>> if there is none
    files,    \* function from the stacks that have a file to their documents
    backup,   \* what the last export wrote: {[config, files]}, {} if there was none
    faults,   \* renames that failed
    crashes   \* crashes in the middle of a restore

mishaps == <<faults, crashes>>
vars == <<config, files, backup, mishaps>>

Without(n, fn) == [m \in DOMAIN fn \ {n} |-> fn[m]]

Init == backup = {} /\ faults = 0 /\ crashes = 0

WriteConfig == config' # <<>> /\ UNCHANGED <<files, backup, mishaps>>

ChangeStack(n) ==
    Without(n, files') = Without(n, files) /\ UNCHANGED <<config, backup, mishaps>>

Export ==
    /\ config # <<>>
    /\ backup' = {[config |-> config, files |-> files]}
    /\ UNCHANGED <<config, files, mishaps>>

Restore ==
    /\ \E b \in backup : config' = b.config /\ files' = b.files
    /\ UNCHANGED <<backup, mishaps>>

RestoreFails == faults' = faults + 1 /\ UNCHANGED <<config, files, backup, crashes>>

\* The config is the old one, that of the backup, or gone; the stacks are the old ones or gone.
Tear ==
    /\ \/ crashes' = crashes + 1 /\ UNCHANGED faults
       \/ faults' > faults + 1 /\ UNCHANGED crashes
    /\ config' \in {config, <<>>} \cup {b.config : b \in backup}
    /\ files' \in {files, <<>>}
    /\ UNCHANGED backup

Next ==
    \/ WriteConfig \/ Export \/ Restore \/ RestoreFails \/ Tear
    \/ \E n \in Names : ChangeStack(n)

Spec == Init /\ [][Next]_vars
=============================================================================
