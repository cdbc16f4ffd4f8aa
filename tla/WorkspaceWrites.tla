--------------------------- MODULE WorkspaceWrites ---------------------------
(***************************************************************************)
(* One job that writes to a workspace (loomex-core/local_capabilities.rs): *)
(* fs.apply_patch, which commits a patch of several files or rolls it      *)
(* back, and fs.write and file.write_many, which write file after file.    *)
(* A file is written beside its target and renamed over it, after its      *)
(* identity and that of its directory were compared with what they were    *)
(* when it was read.  Every file access is a step; in between, other       *)
(* processes of the user edit the same workspace.                          *)
(*                                                                         *)
(* The identity of a file or directory holds the time of its last change,  *)
(* by a clock that ticks; every new, removed or renamed entry changes the  *)
(* directory it is in.  An edit of a file shows in its identity (length,   *)
(* inode and time), unless it keeps the length and comes within the tick   *)
(* of the last change or puts the time back.                               *)
(***************************************************************************)
EXTENDS Naturals

CONSTANTS
    N,          \* the number of files of the job, in its order
    Dirs,
    Dir,        \* the directory of each file
    MaxTicks,   \* bound: ticks of the clock
    MaxEdits,   \* bound: changes by other processes
    MaxFaults   \* bound: failed file operations and crashes

Files == 1..N

ASSUME WriteAssumption ==
    /\ N \in Nat \ {0}
    /\ Dir \in [Files -> Dirs]
    /\ MaxTicks \in Nat /\ MaxEdits \in Nat /\ MaxFaults \in Nat

VARIABLES
    op,         \* patch, or write (one file or many)
    pc, i,      \* the next file operation, and the file it is for
    read,       \* the content of each file as it was read
    seen,       \* the time of each file's directory as it was then
    same,       \* the files whose identity did not change since
    temps,      \* the files with a copy of their new content beside them
    copies,     \* the files with a copy of their old content beside them
    conflict,   \* the patch does not apply to what was read
    file,       \* the content of each file
    changed,    \* the time of each directory's last change
    now,
    gap,        \* history: the files that changed since they were validated
    blind,      \* history: the files that changed since they were read, with an
                \* identity that did not
    edits, faults

job == <<op, pc, i, read, seen, same, temps, copies, conflict>>
workspace == <<file, changed, now>>
vars == <<job, workspace, gap, blind, edits, faults>>

\* A symlink or a directory is "other".
Regular == {"old", "new", "foreign"}
Contents == Regular \cup {"absent", "other"}

Steps == {"snapshot", "read", "temp", "copy", "validate", "rename", "verify", "clean",
          "untemp", "check", "restore", "uncopy"}
Ends == {"applied", "conflict", "failed", "rollbackFailed", "crashed"}

JobTypeOK ==
    /\ op \in {"patch", "write"}
    /\ pc \in Steps \cup Ends
    /\ i \in 1..(N + 1)
    /\ read \in [Files -> Contents]
    /\ seen \in [Files -> 0..MaxTicks]
    /\ same \subseteq Files
    /\ temps \subseteq Files /\ copies \subseteq Files
    /\ conflict \in BOOLEAN

WorkspaceTypeOK ==
    /\ file \in [Files -> Contents]
    /\ changed \in [Dirs -> 0..MaxTicks]
    /\ now \in 0..MaxTicks

TypeOK ==
    /\ JobTypeOK
    /\ WorkspaceTypeOK
    /\ gap \subseteq Files /\ blind \subseteq Files
    /\ edits \in 0..MaxEdits /\ faults \in 0..MaxFaults

Init ==
    /\ op \in {"patch", "write"} /\ pc = "snapshot" /\ i = 1
    /\ read = [f \in Files |-> "absent"] /\ seen = [f \in Files |-> 0]
    /\ same = {} /\ temps = {} /\ copies = {} /\ conflict = FALSE
    /\ file \in [Files -> {"old", "absent"}]
    /\ changed = [d \in Dirs |-> 0] /\ now = 0
    /\ gap = {} /\ blind = {} /\ edits = 0 /\ faults = 0

-----------------------------------------------------------------------------
(* Building blocks *)

Goto(step, f) == pc' = step /\ i' = f

Fault == faults < MaxFaults /\ faults' = faults + 1

\* The entries of these files' directories change.
Enter(files) ==
    changed' = [d \in Dirs |-> IF \E f \in files : Dir[f] = d THEN now ELSE changed[d]]

\* A step of the job that changes nothing in the workspace.
Looks == UNCHANGED <<workspace, temps, copies, faults>>

\* A step that writes or removes copies.
Copies == UNCHANGED <<op, read, seen, same, conflict, file, now, gap, blind, edits, faults>>

-----------------------------------------------------------------------------
(* Reading: fs_apply_patch, fs_write *)

\* write_snapshot: a file that is created may be missing, and is then not read.
Snapshot ==
    /\ pc = "snapshot"
    /\ seen' = [seen EXCEPT ![i] = changed[Dir[i]]]
    /\ same' = same \cup {i}
    /\ \/ file[i] \in Regular /\ Goto("read", i)
       \/ op = "write" /\ file[i] = "absent" /\ Goto("temp", i)
       \/ (op = "write" \/ file[i] \notin Regular) /\ Goto("failed", i)
    /\ blind' = blind \ {i}
    /\ Looks /\ UNCHANGED <<op, read, conflict, gap, edits>>

\* The next file of a patch is looked at before anything is written.
NextOfPatch(refused) ==
    IF i < N THEN Goto("snapshot", i + 1)
    ELSE IF refused THEN Goto("conflict", i) ELSE Goto("temp", 1)

\* The content is read after the identity was taken, through a symlink that is there by
\* now.  Hunks or a digest that do not fit an edited file are a conflict of the patch;
\* a digest that does not fit, or a file that was to be created, is the end of a write.
Read ==
    /\ pc = "read"
    /\ read' = [read EXCEPT ![i] = file[i]]
    /\ \/ /\ op = "patch" /\ file[i] # "absent"
          /\ \E refused \in {conflict, conflict \/ file[i] # "old"} :
                 conflict' = refused /\ NextOfPatch(refused)
       \/ /\ op = "write" /\ file[i] # "absent"
          /\ Goto("temp", i) /\ UNCHANGED conflict
       \/ /\ op = "write" \/ file[i] \notin Regular
          /\ Goto("failed", i) /\ UNCHANGED conflict
    /\ blind' = blind \ {i}
    /\ Looks /\ UNCHANGED <<op, seen, same, gap, edits>>

-----------------------------------------------------------------------------
(* Writing: commit_patch_changes, atomic_write_checked *)

\* prepare_atomic_write of the new content.
PrepareTemp ==
    /\ pc = "temp"
    /\ temps' = temps \cup {i}
    /\ Enter({i})
    /\ Goto(IF op = "patch" THEN "copy" ELSE "validate", i)
    /\ UNCHANGED copies /\ Copies

\* ... and of the old content, for a rollback.
PrepareCopy ==
    /\ pc = "copy"
    /\ copies' = copies \cup {i}
    /\ Enter({i})
    /\ IF i < N THEN Goto("temp", i + 1) ELSE Goto("validate", 1)
    /\ UNCHANGED temps /\ Copies

\* It fails: what was prepared before is removed, a part of this copy may stay.
PrepareFails ==
    /\ pc \in {"temp", "copy"}
    /\ Fault
    /\ \E part \in {{}, {i}} :
           /\ temps' = IF pc = "temp" THEN part ELSE {}
           /\ copies' = IF pc = "copy" THEN part ELSE {}
    /\ Enter(temps \cup copies \cup {i})
    /\ Goto("failed", i)
    /\ UNCHANGED <<op, read, seen, same, conflict, file, now, gap, blind, edits>>

\* validate_snapshot: neither the file nor its directory changed since it was read.
Unchanged(f) == f \in same /\ changed[Dir[f]] = seen[f]

\* Variant of Validate: the identity of the directory is compared, not the file's.
ValidateParent ==
    /\ pc = "validate" /\ changed[Dir[i]] = seen[i]
    /\ Goto("rename", i) /\ gap' = gap \ {i}
    /\ Looks /\ UNCHANGED <<op, read, seen, same, conflict, blind, edits>>

Validate ==
    /\ pc = "validate" /\ Unchanged(i)
    /\ Goto("rename", i) /\ gap' = gap \ {i}
    /\ Looks /\ UNCHANGED <<op, read, seen, same, conflict, blind, edits>>

\* FS_WRITE_PATH_CHANGED, FS_WRITE_CONFLICT
ValidateFails ==
    /\ pc = "validate" /\ ~Unchanged(i)
    /\ Goto("untemp", i)
    /\ Looks /\ UNCHANGED <<op, read, seen, same, conflict, gap, blind, edits>>

\* The new content replaces whatever is there by now, unless that is a directory.
Rename ==
    /\ pc = "rename"
    /\ file' = [file EXCEPT ![i] = "new"]
    /\ temps' = temps \ {i}
    /\ Enter({i})
    /\ IF op = "write" THEN Goto("verify", i)
       ELSE IF i < N THEN Goto("validate", i + 1) ELSE Goto("clean", N + 1)
    /\ UNCHANGED <<op, read, seen, same, copies, conflict, now, gap, blind, edits, faults>>

RenameFails ==
    /\ pc = "rename"
    /\ \/ file[i] = "other" /\ UNCHANGED faults
       \/ Fault
    /\ Goto("untemp", i)
    /\ UNCHANGED <<op, read, seen, same, temps, copies, conflict, workspace, gap, blind, edits>>

\* fs_write reads back what it has written; file.write_many goes on.
Verify ==
    /\ pc = "verify"
    /\ \/ /\ file[i] # "absent"
          /\ IF i < N THEN Goto("snapshot", i + 1) ELSE Goto("applied", i)
       \/ file[i] \notin Regular /\ Goto("failed", i)
    /\ Looks /\ UNCHANGED <<op, read, seen, same, conflict, gap, blind, edits>>

\* The patch is committed: the copies for a rollback go.
Clean ==
    /\ pc = "clean"
    /\ IF copies = {} THEN Goto("applied", i) /\ UNCHANGED <<copies, changed>>
       ELSE \E f \in copies : copies' = copies \ {f} /\ Enter({f}) /\ UNCHANGED <<pc, i>>
    /\ UNCHANGED temps /\ Copies

-----------------------------------------------------------------------------
(* Undoing: rollback_patch_changes *)

\* Variant of RemoveTemps: the copies for the rollback are removed as well.
RemoveAll ==
    /\ pc = "untemp"
    /\ temps' = {} /\ copies' = {}
    /\ Enter(temps \cup copies)
    /\ IF op = "write" THEN Goto("failed", i)
       ELSE IF i > 1 THEN Goto("check", i - 1) ELSE Goto("uncopy", i)
    /\ Copies

\* cleanup_patch_temps; then the files renamed so far, the last one first.
RemoveTemps ==
    /\ pc = "untemp"
    /\ temps' = {}
    /\ Enter(temps)
    /\ IF op = "write" THEN Goto("failed", i)
       ELSE IF i > 1 THEN Goto("check", i - 1) ELSE Goto("uncopy", i)
    /\ UNCHANGED copies /\ Copies

\* A target that is no longer a file ends the rollback: PATCH_ROLLBACK_FAILED.
Check ==
    /\ pc = "check"
    /\ IF file[i] \in Regular THEN Goto("restore", i) ELSE Goto("rollbackFailed", i)
    /\ Looks /\ UNCHANGED <<op, read, seen, same, conflict, gap, blind, edits>>

\* Variant of Restore: the files before the last renamed one stay as they are.
RestoreLast ==
    /\ pc = "restore"
    /\ file' = [file EXCEPT ![i] = read[i]]
    /\ copies' = copies \ {i}
    /\ Enter({i})
    /\ Goto("uncopy", i)
    /\ UNCHANGED <<op, read, seen, same, temps, conflict, now, gap, blind, edits, faults>>

Restore ==
    /\ pc = "restore"
    /\ file' = [file EXCEPT ![i] = read[i]]
    /\ copies' = copies \ {i}
    /\ Enter({i})
    /\ IF i > 1 THEN Goto("check", i - 1) ELSE Goto("uncopy", i)
    /\ UNCHANGED <<op, read, seen, same, temps, conflict, now, gap, blind, edits, faults>>

RollbackFails ==
    /\ \/ pc = "restore" /\ file[i] = "other" /\ UNCHANGED faults
       \/ pc \in {"check", "restore"} /\ Fault
    /\ Goto("rollbackFailed", i)
    /\ UNCHANGED <<op, read, seen, same, temps, copies, conflict, workspace, gap, blind, edits>>

\* cleanup_patch_journal
RemoveCopies ==
    /\ pc = "uncopy"
    /\ copies' = {}
    /\ Enter(copies)
    /\ Goto("failed", i)
    /\ UNCHANGED temps /\ Copies

\* The process dies.
Crash ==
    /\ pc \in Steps /\ Fault
    /\ pc' = "crashed"
    /\ UNCHANGED <<op, i, read, seen, same, temps, copies, conflict, workspace, gap, blind, edits>>

-----------------------------------------------------------------------------
(* The other processes of the user, and the clock *)

Foreign == edits < MaxEdits /\ edits' = edits + 1

\* A file is edited in place; or it is replaced, removed or made something else,
\* which changes its directory.  FileIdentity is length, modification time, device and
\* inode: the edit of a file that is still one may leave all of them as they were.
Edit(f) ==
    /\ Foreign
    /\ \/ /\ file[f] \in Regular
          /\ file' = [file EXCEPT ![f] = "foreign"] /\ UNCHANGED changed
       \/ /\ \E content \in {"foreign", "absent", "other"} \ {file[f]} :
                 file' = [file EXCEPT ![f] = content]
          /\ Enter({f})
    /\ \/ same' = same \ {f} /\ UNCHANGED blind
       \/ {file[f], file'[f]} \subseteq Regular /\ blind' = blind \cup {f} /\ UNCHANGED same
    /\ gap' = gap \cup {f}
    /\ UNCHANGED <<op, pc, i, read, seen, temps, copies, conflict, now, faults>>

\* Something else in a directory comes or goes.
TouchDirectory(d) ==
    /\ Foreign
    /\ changed' = [changed EXCEPT ![d] = now]
    /\ UNCHANGED <<job, file, now, gap, blind, faults>>

Tick ==
    /\ now < MaxTicks
    /\ now' = now + 1
    /\ UNCHANGED <<job, file, changed, gap, blind, edits, faults>>

-----------------------------------------------------------------------------

Reading == Snapshot \/ Read

Writing ==
    \/ PrepareTemp \/ PrepareCopy \/ PrepareFails
    \/ Validate \/ ValidateFails \/ Rename \/ RenameFails
    \/ Verify \/ Clean

Undoing == RemoveTemps \/ Check \/ Restore \/ RollbackFails \/ RemoveCopies

Others == (\E f \in Files : Edit(f)) \/ (\E d \in Dirs : TouchDirectory(d)) \/ Tick

Next == Reading \/ Writing \/ Undoing \/ Crash \/ Others

Spec == Init /\ [][Next]_vars

-----------------------------------------------------------------------------

\* Until all files of a patch are renamed, every one that is has the copy of its old
\* content beside it, be the job at work, killed or stuck in its rollback: nothing
\* the user had is lost by a patch that ended half-way.
PatchIsReversible ==
    op = "patch" /\ i <= N => \A f \in Files : file[f] = "new" => f \in copies

\* A patch that reports a conflict, or an error other than PATCH_ROLLBACK_FAILED, has
\* left new content nowhere, and no copies unless a file operation failed.
FailedPatchLeavesNothing ==
    op = "patch" /\ pc \in {"failed", "conflict"} =>
        /\ \A f \in Files : file[f] # "new"
        /\ temps \cup copies # {} => faults > 0

\* New content replaces the content it was made from: an edit before the last look at
\* the file is a conflict and stays.  Two edits escape that look: one that comes after
\* it, and one that leaves length, time, device and inode of the file as they were.
ReplacesOnlyWhatWasRead ==
    [][Rename => file[i] = read[i] \/ i \in gap \/ i \in blind]_vars

\* A file of the same identity still has the content that was read, unless an edit kept
\* the identity: of a patch the files not yet renamed, of a write the one at work.
SameIsRead ==
    \A f \in same :
        \/ f >= i /\ pc \in {"snapshot", "read"}
        \/ f < i /\ op = "write"
        \/ f < i /\ pc \in {"validate", "rename"}
        \/ pc \in Ends \cup {"clean", "untemp", "check", "restore", "uncopy", "verify"}
        \/ pc = "rename" /\ f = i
        \/ file[f] = read[f] \/ f \in blind

\* Where a patch is, what of it can be seen in the workspace: no new content before the
\* first rename, then that of the files before i, until the rollback is through.
PatchFits ==
    op = "patch" =>
        /\ pc # "verify"
        /\ \A f \in Files : read[f] # "new"
        /\ pc \in {"snapshot", "read", "conflict"} => temps \cup copies = {}
        /\ pc \in {"check", "restore", "uncopy"} => temps = {}
        /\ pc \in {"snapshot", "read", "conflict", "temp", "copy", "uncopy", "failed"} =>
               \A f \in Files : file[f] # "new"
        /\ pc \in {"temp", "copy"} => \A f \in Files : f < i => f \in copies
        /\ pc \in {"validate", "rename", "untemp"} =>
               copies = Files /\ \A f \in Files : f >= i => file[f] # "new"
        /\ pc \in {"check", "restore"} =>
               \A f \in Files : IF f <= i THEN f \in copies ELSE file[f] # "new"
        /\ IF pc \in {"clean", "applied"} THEN i = N + 1 ELSE i <= N \/ pc = "crashed"

\* A write goes from file to file and creates those that are absent.
WriteFits ==
    op = "write" =>
        /\ pc \notin {"copy", "clean", "check", "restore", "uncopy", "conflict"}
        /\ i <= N
        /\ \A f \in same : f <= i
        /\ \A f \in Files : f > i => read[f] = "absent"
        /\ pc \in {"snapshot", "read"} => read[i] = "absent"

\* What a rename replaces was read, or came after the last look at the file or unseen.
RenamesWhatWasRead == pc = "rename" => file[i] = read[i] \/ i \in gap \/ i \in blind

\* The inductive invariant.
IInv ==
    /\ TypeOK
    /\ PatchIsReversible
    /\ FailedPatchLeavesNothing
    /\ PatchFits
    /\ WriteFits
    /\ SameIsRead
    /\ RenamesWhatWasRead

\* "assert!(output.applied)": a patch of files that are all there fails only if another
\* process or the file system interferes.
UndisturbedPatchSucceeds ==
    op = "patch" /\ pc = "failed" /\ edits = 0 /\ faults = 0 =>
        \E f \in Files : file[f] = "absent"

=============================================================================
