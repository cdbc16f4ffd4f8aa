----------------------------- MODULE RuntimeStore -----------------------------
(***************************************************************************)
(* runtime_install.rs: the versions of the runtime on disk and the two     *)
(* pointers to them, with processes that install, activate, roll back and  *)
(* clean up at the same time, are killed at any step, and a power loss     *)
(* that takes back what no directory was synced for.  The commands of the  *)
(* CLI hold the lifecycle lock around all of this; SetupTransaction has    *)
(* what they do with it.  A version is published with one image:           *)
(* SetupAdvice has releases that reuse a number.                           *)
(***************************************************************************)
EXTENDS FiniteSets

CONSTANTS
    Processes,      \* processes that use a RuntimeInstaller
    Versions        \* versions of the runtime

VARIABLES
    disk,           \* the files in the directory of each version
    synced,         \* the versions whose publication survives a power loss
    pointers,       \* the version that each pointer names
    survivors,      \* what each pointer may name after a power loss
    staging,        \* the files in the staging directory of each process
    procs,          \* what each process is doing
    hurried         \* history: versions taken up before their publication was synced

vars == <<disk, synced, pointers, survivors, staging, procs, hurried>>
published == <<disk, synced>>
links == <<pointers, survivors>>

None == "none"
Absent == {"no directory"}       \* comparable with the sets of files
Files == {"executable", "install.json"}
Pointers == {"current", "previous"}
Idle == [step |-> "idle", version |-> None, prior |-> None]

At(p, step) == procs[p].step = step
Goto(p, step) == procs' = [procs EXCEPT ![p].step = step]
Stop(p) == procs' = [procs EXCEPT ![p] = Idle]

\* read_installed: the metadata and the executable with its checksum
ReadInstalled(v) == disk[v] = Files

Init ==
    /\ disk = [v \in Versions |-> Absent] /\ synced = {}
    /\ pointers = [n \in Pointers |-> None] /\ survivors = [n \in Pointers |-> {None}]
    /\ staging = [p \in Processes |-> Absent] /\ procs = [p \in Processes |-> Idle]
    /\ hurried = {}

Begin(p, step, v) == procs' = [procs EXCEPT ![p] = [step |-> step, version |-> v, prior |-> None]]
TakeUp(v) == hurried' = hurried \cup ({v} \ synced)

(* install_verified and install_bundled                                     *)
\* A version that is there already is activated, one that is not is staged.
Install(p, v) ==
    /\ At(p, "idle")
    /\ \/ /\ disk[v] = Absent
          /\ Begin(p, "executable", v) /\ staging' = [staging EXCEPT ![p] = {}]
          /\ UNCHANGED hurried
       \/ ReadInstalled(v) /\ Begin(p, "read", v) /\ TakeUp(v) /\ UNCHANGED staging
    /\ UNCHANGED <<published, links>>

Write(p, file, next) ==
    /\ At(p, file) /\ staging[p] # Absent
    /\ staging' = [staging EXCEPT ![p] = @ \cup {file}]
    /\ Goto(p, next)
    /\ UNCHANGED <<published, links, hurried>>

\* The rename takes the place of an empty directory, and of no other; who is about to read
\* the empty one has taken up a publication that is not synced.
Publish(p) ==
    LET v == procs[p].version IN
    /\ At(p, "publish") /\ staging[p] # Absent /\ disk[v] \in {Absent, {}}
    /\ disk' = [disk EXCEPT ![v] = staging[p]] /\ synced' = synced \ {v}
    /\ staging' = [staging EXCEPT ![p] = Absent]
    /\ Goto(p, "sync")
    /\ hurried' = IF \E q \in Processes : At(q, "read") /\ procs[q].version = v
                  THEN hurried \cup {v} ELSE hurried
    /\ UNCHANGED links

\* Variant of SyncVersions: left to the file system.
SyncNothing(p) ==
    /\ At(p, "sync") /\ Goto(p, "read")
    /\ UNCHANGED <<published, links, staging, hurried>>

SyncVersions(p) ==
    /\ At(p, "sync") /\ Goto(p, "read")
    /\ synced' = {v \in Versions : disk[v] # Absent}
    /\ hurried' = hurried \ {v \in synced' : ReadInstalled(v)}
    /\ UNCHANGED <<disk, links, staging>>

(* activate, and the pointers                                               *)
\* rollback_to, and rollback_to_previous
RollBack(p, v) ==
    /\ At(p, "idle") /\ ReadInstalled(v) /\ Begin(p, "read", v) /\ TakeUp(v)
    /\ UNCHANGED <<published, links, staging>>

\* replace_pointer, reject_non_pointer_path: a link of another name takes the pointer's.
Replace(name, v) ==
    /\ pointers' = [pointers EXCEPT ![name] = v]
    /\ survivors' = [survivors EXCEPT ![name] = @ \cup {v}]

\* read_pointer: a pointer at nothing is an error, which only a reinstallation of its
\* version mends.
Readable(name) == pointers[name] # None => disk[pointers[name]] # Absent

ReadCurrent(p) ==
    LET v == procs[p].version
        active == pointers["current"] IN
    /\ At(p, "read") /\ ReadInstalled(v) /\ Readable("current")
    /\ IF active = v THEN Stop(p)
       ELSE procs' = [procs EXCEPT ![p].step = "switch", ![p].prior = active]
    /\ UNCHANGED <<published, links, staging, hurried>>

SwitchCurrent(p) ==
    /\ At(p, "switch") /\ Replace("current", procs[p].version)
    /\ Goto(p, IF procs[p].prior = None THEN "flush" ELSE "keep")
    /\ UNCHANGED <<published, staging, hurried>>

KeepPrevious(p) ==
    /\ At(p, "keep") /\ Replace("previous", procs[p].prior) /\ Goto(p, "flush")
    /\ UNCHANGED <<published, staging, hurried>>

\* Where the rollback state cannot be kept, the old pointer is put back.
KeepFails(p) ==
    /\ At(p, "keep") /\ Replace("current", procs[p].prior) /\ Stop(p)
    /\ UNCHANGED <<published, staging, hurried>>

Flush(p) ==
    /\ At(p, "flush") /\ Stop(p)
    /\ survivors' = [n \in Pointers |-> {pointers[n]}]
    /\ UNCHANGED <<published, pointers, staging, hurried>>

\* restore_active_version and restore_previous_version
Restore(p, name, v) ==
    /\ At(p, "idle") /\ Replace(name, v) /\ Begin(p, "flush", None)
    /\ IF v = None THEN UNCHANGED hurried ELSE ReadInstalled(v) /\ TakeUp(v)
    /\ UNCHANGED <<published, staging>>

(* What may happen meanwhile                                                *)
\* An operation fails, with StagingGuard, or its process is killed.
Fail(p) ==
    /\ ~At(p, "idle") /\ Stop(p)
    /\ staging' = [staging EXCEPT ![p] = Absent]
    /\ UNCHANGED <<published, links, hurried>>

\* clean_staging of any process goes through the directory of p.
CleanStaging(p) ==
    /\ \/ \E file \in Files \cap staging[p] : staging' = [staging EXCEPT ![p] = @ \ {file}]
       \/ staging[p] = {} /\ staging' = [staging EXCEPT ![p] = Absent]
    /\ UNCHANGED <<published, links, procs, hurried>>

PowerLoss ==
    /\ \E lost \in SUBSET (Versions \ synced) :
          disk' = [v \in Versions |-> IF v \in lost THEN Absent ELSE disk[v]]
    /\ \E active \in survivors["current"], prior \in survivors["previous"] :
          pointers' = [current |-> active, previous |-> prior]
    /\ synced' = {v \in Versions : disk'[v] # Absent}
    /\ survivors' = [n \in Pointers |-> {pointers'[n]}]
    /\ staging' = [p \in Processes |-> Absent] /\ procs' = [p \in Processes |-> Idle]
    /\ hurried' = hurried \ {v \in synced' : ReadInstalled(v)}

Next ==
    \/ \E p \in Processes, v \in Versions : Install(p, v) \/ RollBack(p, v)
    \/ \E p \in Processes :
          \/ Write(p, "executable", "install.json") \/ Write(p, "install.json", "publish")
          \/ Publish(p) \/ SyncVersions(p)
          \/ ReadCurrent(p) \/ SwitchCurrent(p) \/ KeepPrevious(p) \/ KeepFails(p) \/ Flush(p)
          \/ Fail(p) \/ CleanStaging(p)
    \/ \E p \in Processes, n \in Pointers, v \in Versions \cup {None} : Restore(p, n, v)
    \/ PowerLoss

Spec == Init /\ [][Next]_vars

-----------------------------------------------------------------------------
(* Properties.                                                             *)

TypeOK ==
    /\ disk \in [Versions -> {Absent} \cup SUBSET Files] /\ synced \subseteq Versions
    /\ pointers \in [Pointers -> Versions \cup {None}]
    /\ survivors \in [Pointers -> SUBSET (Versions \cup {None})]
    /\ staging \in [Processes -> {Absent} \cup SUBSET Files]
    /\ hurried \subseteq Versions

\* `current` and `previous` name versions that are whole, whatever is installed, rolled
\* back, restored and swept at the same time, and wherever it is interrupted.  A power
\* loss may leave a pointer at nothing only where a version was taken up that another
\* install had published and not yet synced: Install does not sync a version it finds.
PointersNameWholeVersions ==
    \A n \in Pointers :
        pointers[n] # None => ReadInstalled(pointers[n]) \/ pointers[n] \in hurried
=============================================================================
