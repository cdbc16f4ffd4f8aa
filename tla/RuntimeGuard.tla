---------------------------- MODULE RuntimeGuard ----------------------------
(***************************************************************************)
(* The lock file of a runner scope (loomex-core/runtime_guard.rs): one     *)
(* path, created exclusively, that names the surface and the process id of *)
(* the runner core that holds it.  A process that finds the file judges by *)
(* the process id whether its owner is alive, unlinks it if not and tries  *)
(* once more.  Every access to the file system is a step of its own.       *)
(*                                                                         *)
(* A process of this module lives once and is its own process id; the id   *)
(* of a dead one may be taken by an unrelated process (`reused`).          *)
(***************************************************************************)
EXTENDS Naturals, FiniteSets

CONSTANTS
    Services,   \* processes of surface loomex-service: `runner service run`
    Starters,   \* processes of surface loomex-cli: `runner start`
    Stoppers,   \* processes of surface loomex-cli: `runner stop`
    NoFile      \* no file is at the path

Procs == Services \cup Starters \cup Stoppers

ASSUME GuardAssumption ==
    /\ NoFile \notin Procs
    /\ Services \cap Starters = {}
    /\ Services \cap Stoppers = {}
    /\ Starters \cap Stoppers = {}

VARIABLES
    at,         \* where a process is
    lock,       \* the process that created the file at the path
    written,    \* the processes that wrote the content of the file they created
    reused,     \* the dead processes whose id an unrelated process got
    exposed,    \* history: the processes that created the file and had not filled it
                \* while some process had decided to unlink what is at the path
    crossed     \* history: the processes between two of whose accesses, of which the
                \* second relies on the first, another one created or removed the file

files == <<lock, written, reused>>
vars == <<at, lock, written, reused, exposed, crossed>>

\* unborn; create .. recreate: acquire_runner_runtime_guard; holding; release,
\* unlinkOwn: release_runner_runtime_guard_owned; stop, unlinkStopped:
\* release_runner_runtime_guard_for_surface; refused: an error; dead: ended,
\* with or without a crash.
Busy == {"create", "write", "inspect", "cleanup", "cleanupRead", "unlink", "recreate",
         "release", "unlinkOwn", "stop", "unlinkStopped"}
Unlinking == {"unlink", "unlinkOwn", "unlinkStopped"}
Relying == {"cleanupRead", "recreate"}

TypeOK ==
    /\ at \in [Procs -> Busy \cup {"unborn", "holding", "refused", "dead"}]
    /\ lock \in Procs \cup {NoFile}
    /\ written \subseteq Procs
    /\ reused \subseteq Procs
    /\ exposed \subseteq Procs
    /\ crossed \subseteq Procs

Init ==
    /\ at = [p \in Procs |-> "unborn"]
    /\ lock = NoFile /\ written = {} /\ reused = {}
    /\ exposed = {} /\ crossed = {}

-----------------------------------------------------------------------------

Surface(p) == IF p \in Services THEN "loomex-service" ELSE "loomex-cli"

\* process_is_alive, asked by process `reader`
Alive(reader, p) == at[p] \notin {"unborn", "dead"} \/ p \in reused

\* read_runner_runtime_guard returns the owner: there is a file, and its content
\* is complete.
Readable == lock # NoFile /\ lock \in written

Goto(p, location) == at' = [at EXCEPT ![p] = location]

\* A process begins an operation on the guard.
Begin(p, from, location) ==
    /\ at[p] = from
    /\ Goto(p, location)
    /\ UNCHANGED files

Acquire(p) == p \in Services \cup Starters /\ Begin(p, "unborn", "create")

\* create_guard_file: create_new, then the content in a second step.
Create(p) ==
    /\ at[p] = "create"
    /\ IF lock = NoFile THEN lock' = p /\ Goto(p, "write")
                        ELSE lock' = lock /\ Goto(p, "inspect")
    /\ UNCHANGED <<written, reused>>

\* The content goes to the file p created, wherever its path points now.  `runner
\* start` persists its guard and ends.
Write(p) ==
    /\ at[p] = "write"
    /\ written' = written \cup {p}
    /\ Goto(p, IF p \in Services THEN "holding" ELSE "dead")
    /\ UNCHANGED <<lock, reused>>

\* Variant of InspectGuard: a file without content is taken for a live owner's.
InspectGuardStrictly(p, next) ==
    /\ IF lock # NoFile /\ (lock \notin written \/ Alive(p, lock))
       THEN Goto(p, "refused")
       ELSE Goto(p, next)
    /\ UNCHANGED files

\* The file is read: RUNNER_RUNTIME_GUARD_CONFLICT if it names a live process.  A
\* file that is gone or has no complete content counts as stale.
InspectGuard(p, next) ==
    /\ IF Readable /\ Alive(p, lock) THEN Goto(p, "refused") ELSE Goto(p, next)
    /\ UNCHANGED files

Inspect(p) == at[p] = "inspect" /\ InspectGuard(p, "cleanup")

\* cleanup_stale_runner_runtime_guard looks for it again, ...
Cleanup(p) ==
    /\ at[p] = "cleanup"
    /\ Goto(p, IF lock = NoFile THEN "unlink" ELSE "cleanupRead")
    /\ UNCHANGED files

\* ... and reads it: a file that is gone by now is an error.
CleanupRead(p) ==
    /\ at[p] = "cleanupRead"
    /\ \/ lock # NoFile /\ InspectGuard(p, "unlink")
       \/ lock = NoFile /\ Goto(p, "refused") /\ UNCHANGED files

\* remove_guard_file: whatever file is at the path by now.
RemoveGuardFile == lock' = NoFile /\ UNCHANGED <<written, reused>>

Unlink(p) == at[p] = "unlink" /\ RemoveGuardFile /\ Goto(p, "recreate")

\* The second create_new; a file that is there again is an error.
Recreate(p) ==
    /\ at[p] = "recreate"
    /\ IF lock = NoFile THEN lock' = p /\ Goto(p, "write")
                        ELSE lock' = lock /\ Goto(p, "refused")
    /\ UNCHANGED <<written, reused>>

\* RunnerRuntimeGuard::release or drop.
Release(p) == Begin(p, "holding", "release")

\* RUNNER_RUNTIME_GUARD_NOT_OWNER, unless the file names p itself.
ReleaseOwned(p) ==
    /\ at[p] = "release"
    /\ Goto(p, IF Readable /\ lock = p THEN "unlinkOwn" ELSE "dead")
    /\ UNCHANGED files

UnlinkOwn(p) == at[p] = "unlinkOwn" /\ RemoveGuardFile /\ Goto(p, "dead")

Stop(p) == p \in Stoppers /\ Begin(p, "unborn", "stop")

\* Variant of ReleaseForSurface: the surface of the guard is not looked at.
ReleaseForAnySurface(p) ==
    /\ at[p] = "stop"
    /\ Goto(p, IF Readable THEN "unlinkStopped" ELSE "dead")
    /\ UNCHANGED files

\* The guard of a live process and that of another surface stay.
ReleaseForSurface(p) ==
    /\ at[p] = "stop"
    /\ Goto(p, IF Readable /\ Surface(lock) = Surface(p) /\ ~Alive(p, lock)
               THEN "unlinkStopped" ELSE "dead")
    /\ UNCHANGED files

UnlinkStopped(p) == at[p] = "unlinkStopped" /\ RemoveGuardFile /\ Goto(p, "dead")

\* A process dies at any point, or ends after an error.
Die(p) ==
    /\ at[p] \notin {"unborn", "dead"}
    /\ Goto(p, "dead")
    /\ UNCHANGED files

\* The system gives the id of a dead process away, and takes it back.
Reuse(p) ==
    /\ at[p] = "dead"
    /\ reused' = IF p \in reused THEN reused \ {p} ELSE reused \cup {p}
    /\ UNCHANGED <<at, lock, written>>

Step(p) ==
    \/ Acquire(p) \/ Create(p) \/ Write(p)
    \/ Inspect(p) \/ Cleanup(p) \/ CleanupRead(p) \/ Unlink(p) \/ Recreate(p)
    \/ Release(p) \/ ReleaseOwned(p) \/ UnlinkOwn(p)
    \/ Stop(p) \/ ReleaseForSurface(p) \/ UnlinkStopped(p)
    \/ Die(p) \/ Reuse(p)

\* What a step of p adds to the history; no step depends on it.
Observe(p) ==
    /\ exposed' = exposed \cup
           {q \in Procs : at'[q] = "write" /\ \E r \in Procs : at'[r] \in Unlinking}
    /\ crossed' = IF lock' = lock THEN crossed
                  ELSE crossed \cup {q \in Procs \ {p} : at[q] \in Relying}

Next == \E p \in Procs : Step(p) /\ Observe(p)

Spec == Init /\ [][Next]_vars

-----------------------------------------------------------------------------

Holders == {p \in Procs : at[p] = "holding"}

\* One runner core per runner scope: "runner core for runner {} is already held
\* by {} pid {}" is what the second one is told (test live_pid_conflict_is_rejected).
AtMostOneHolder == \A p, q \in Holders : p = q

\* The guard file of a core that holds it stays in place, whatever operations of
\* other processes overlap: `runner stop`, a stale cleanup and the end of a process
\* take it away only from a core in whose own window, after create_new and before
\* write_all of create_guard_file, some process stood before remove_guard_file.
HolderKeepsGuard ==
    \A p \in Holders : (lock = p /\ p \in written) \/ p \in exposed

\* An acquisition is refused only while the guard names a live process, or when
\* another process created or removed the file in one of its two windows: between
\* exists() and the reading, and between its unlink and its second create_new.  A
\* crash in the middle of an acquisition and a dead owner lock nobody out.
RefusedOnlyByTheLiving ==
    [][\A p \in Procs :
        at[p] # "refused" /\ at'[p] = "refused" =>
            (Readable /\ Alive(p, lock)) \/ p \in crossed]_vars

=============================================================================
