---------------------------- MODULE LibrariesProofs ----------------------------
(***************************************************************************)
(* Theorems about the parts of loomex-core that share no state, for any    *)
(* constants: the runtime guard, the runtime store, the lifecycle of a     *)
(* runner, the policy, the configuration and the log.  Each part is proved *)
(* on its own; LibrariesSpec implements the specification of each.         *)
(***************************************************************************)
EXTENDS MCLibraries, FiniteSetTheorems, WellFoundedInduction, TLAPS

-----------------------------------------------------------------------------
(* The runtime guard, for any processes and whatever operations overlap.   *)

\* A core that nobody stood before to unlink while it filled its file has that file,
\* and nobody stands before an unlink since: who reads a filled file of a live core is
\* refused.
Sheltered ==
    \A p \in Procs : at[p] \in {"write", "holding"} /\ p \notin exposed =>
        /\ lock = p
        /\ at[p] = "holding" => p \in written
        /\ \A q \in Procs : at[q] \notin Unlinking

\* What an acquisition found and relies on is there until another process crosses it.
ReliesOnItsLook ==
    \A p \in Procs : p \notin crossed =>
        /\ at[p] = "recreate" => lock = NoFile
        /\ at[p] = "cleanupRead" => lock # NoFile

GuardInv == TypeOK /\ Sheltered /\ ReliesOnItsLook

\* A step moves one process.
LEMMA OneMoves ==
    ASSUME TypeOK, GuardAssumption, NEW p \in Procs, Step(p), Observe(p)
    PROVE  /\ TypeOK'
           /\ \A q \in Procs : q # p => at'[q] = at[q]
           /\ written \subseteq written'
  <1> USE DEF Step, Acquire, Begin, Goto, Create, Write, Inspect, Cleanup, CleanupRead,
          InspectGuard, Unlink, RemoveGuardFile, Recreate, Release, ReleaseOwned, UnlinkOwn,
          Stop, ReleaseForSurface, UnlinkStopped, Die, Reuse, files, Busy, TypeOK
  <1>1. at' \in [Procs -> Busy \cup {"unborn", "holding", "refused", "dead"}]
    OBVIOUS
  <1>2. lock' \in Procs \cup {NoFile} /\ written' \subseteq Procs /\ reused' \subseteq Procs
    OBVIOUS
  <1>3. exposed' \subseteq Procs /\ crossed' \subseteq Procs
    BY DEF Observe
  <1>4. \A q \in Procs : q # p => at'[q] = at[q]
    OBVIOUS
  <1>5. written \subseteq written'
    OBVIOUS
  <1> QED BY <1>1, <1>2, <1>3, <1>4, <1>5

\* What a step may do to the file, and what its process has seen when it goes on.
LEMMA StepIs ==
    ASSUME TypeOK, NEW p \in Procs, Step(p)
    PROVE  /\ \/ lock' = lock
              \/ lock = NoFile /\ lock' = p /\ at'[p] = "write"
              \/ at[p] \in Unlinking /\ lock' = NoFile /\ at'[p] \in {"recreate", "dead"}
           /\ at'[p] = "write" => lock = NoFile /\ lock' = p
           /\ at'[p] = "holding" => at[p] = "write" /\ lock' = lock /\ p \in written'
           /\ at'[p] \in Unlinking =>
                 /\ lock' = lock
                 /\ lock = p \/ ~Readable \/ ~Alive(p, lock)
           /\ at'[p] = "recreate" => lock' = NoFile
           /\ at'[p] = "cleanupRead" => lock' = lock /\ lock # NoFile
  <1> USE DEF Step, Acquire, Begin, Goto, Create, Write, Inspect, Cleanup, CleanupRead,
          InspectGuard, Unlink, RemoveGuardFile, Recreate, Release, ReleaseOwned, UnlinkOwn,
          Stop, ReleaseForSurface, UnlinkStopped, Die, Reuse, files, TypeOK, Unlinking
  <1>1. \/ lock' = lock
        \/ lock = NoFile /\ lock' = p /\ at'[p] = "write"
        \/ at[p] \in Unlinking /\ lock' = NoFile /\ at'[p] \in {"recreate", "dead"}
    OBVIOUS
  <1>2. at'[p] = "write" => lock = NoFile /\ lock' = p
    OBVIOUS
  <1>3. at'[p] = "holding" => at[p] = "write" /\ lock' = lock /\ p \in written'
    OBVIOUS
  <1>4. at'[p] \in Unlinking => lock' = lock /\ (lock = p \/ ~Readable \/ ~Alive(p, lock))
    BY DEF Readable
  <1>5. at'[p] = "recreate" => lock' = NoFile
    OBVIOUS
  <1>6. at'[p] = "cleanupRead" => lock' = lock /\ lock # NoFile
    OBVIOUS
  <1> QED BY <1>1, <1>2, <1>3, <1>4, <1>5, <1>6

\* Whoever is to unlink the file does not take it from a core that was not exposed.
LEMMA StaysSheltered ==
    ASSUME GuardInv, GuardAssumption, NEW p \in Procs, Step(p), Observe(p)
    PROVE  Sheltered'
  <1> SUFFICES ASSUME NEW q \in Procs, at'[q] \in {"write", "holding"}, q \notin exposed'
               PROVE  /\ lock' = q
                      /\ at'[q] = "holding" => q \in written'
                      /\ \A r \in Procs : at'[r] \notin Unlinking
    BY DEF Sheltered
  <1> USE DEF GuardInv
  <1>1. /\ \A r \in Procs : r # p => at'[r] = at[r]
        /\ written \subseteq written'
    BY OneMoves
  <1>2. q \notin exposed /\ (at'[q] = "write" => \A r \in Procs : at'[r] \notin Unlinking)
    BY DEF Observe
  <1>3. CASE q = p
    <2>1. CASE at'[p] = "write"
      BY <1>2, <1>3, <2>1, StepIs
    <2>2. CASE at'[p] = "holding"
      <3>1. at[p] = "write" /\ lock' = lock /\ p \in written'
        BY <2>2, StepIs
      <3>2. lock = p /\ \A r \in Procs : at[r] \notin Unlinking
        BY <1>2, <1>3, <3>1 DEF Sheltered
      <3> QED BY <1>1, <1>3, <2>2, <3>1, <3>2 DEF Unlinking
    <2> QED BY <1>3, <2>1, <2>2
  <1>4. CASE q # p
    <2>1. /\ at[q] \in {"write", "holding"} /\ lock = q
          /\ at[q] = "holding" => q \in written
          /\ \A r \in Procs : at[r] \notin Unlinking
      BY <1>1, <1>2, <1>4 DEF Sheltered
    <2>2. lock' = lock
      BY <2>1, StepIs DEF GuardAssumption
    <2>3. at'[p] \notin Unlinking
      <3>1. CASE at'[q] = "write"
        BY <1>2, <3>1
      <3>2. CASE at'[q] = "holding"
        <4>1. Readable /\ Alive(p, lock)
          BY <1>1, <1>4, <2>1, <3>2 DEF Readable, Alive, GuardAssumption
        <4> QED BY <1>4, <2>1, <4>1, StepIs
      <3> QED BY <3>1, <3>2
    <2>4. \A r \in Procs : at'[r] \notin Unlinking
      BY <1>1, <2>1, <2>3
    <2> QED BY <1>1, <1>4, <2>1, <2>2, <2>4
  <1> QED BY <1>3, <1>4

\* What an acquisition relies on changes only when another process crosses it.
LEMMA StaysReliable ==
    ASSUME GuardInv, GuardAssumption, NEW p \in Procs, Step(p), Observe(p)
    PROVE  ReliesOnItsLook'
  <1> SUFFICES ASSUME NEW q \in Procs, q \notin crossed'
               PROVE  /\ at'[q] = "recreate" => lock' = NoFile
                      /\ at'[q] = "cleanupRead" => lock' # NoFile
    BY DEF ReliesOnItsLook
  <1> USE DEF GuardInv
  <1>1. CASE q = p
    BY <1>1, StepIs
  <1>2. CASE q # p
    <2>1. at'[q] = at[q]
      BY <1>2, OneMoves
    <2>2. q \notin crossed /\ (at[q] \in Relying => lock' = lock)
      BY <1>2 DEF Observe
    <2> QED BY <2>1, <2>2 DEF ReliesOnItsLook, Relying
  <1> QED BY <1>1, <1>2

\* The inductive invariant of the guard.
THEOREM GuardInvariance ==
    ASSUME GuardAssumption
    PROVE  Spec => []GuardInv
  <1>1. Init => GuardInv
    BY DEF Init, GuardInv, TypeOK, Sheltered, ReliesOnItsLook, Busy
  <1>2. GuardInv /\ [Next]_vars => GuardInv'
    <2> SUFFICES ASSUME GuardInv, [Next]_vars PROVE  GuardInv'
      OBVIOUS
    <2>1. CASE UNCHANGED vars
      BY <2>1 DEF vars, GuardInv, TypeOK, Sheltered, ReliesOnItsLook
    <2>2. CASE Next
      <3>1. PICK p \in Procs : Step(p) /\ Observe(p)
        BY <2>2 DEF Next
      <3> QED BY <3>1, OneMoves, StaysSheltered, StaysReliable DEF GuardInv
    <2> QED BY <2>1, <2>2
  <1> QED BY <1>1, <1>2, PTL DEF Spec

\* Whatever operations overlap, a core loses the file of its guard only if some process
\* stood before an unlink while the core had created the file and not yet filled it.
THEOREM HolderKeepsItsGuard ==
    ASSUME GuardAssumption
    PROVE  Spec => []HolderKeepsGuard
  <1>1. GuardInv => HolderKeepsGuard
    BY DEF GuardInv, Sheltered, HolderKeepsGuard, Holders
  <1> QED BY <1>1, GuardInvariance, PTL

\* So of two runner cores of one scope one acquired its guard in that window of another
\* process, and cores that were not exposed exclude each other.
THEOREM OneCorePerScope ==
    ASSUME GuardAssumption
    PROVE  Spec => [](\A p, q \in Holders : p = q \/ p \in exposed \/ q \in exposed)
  <1>1. GuardInv => \A p, q \in Holders : p = q \/ p \in exposed \/ q \in exposed
    BY DEF GuardInv, Sheltered, Holders
  <1> QED BY <1>1, GuardInvariance, PTL

\* An acquisition gives up only on a guard that names a live process, or when another
\* process created or removed the file between two of its accesses.
THEOREM OnlyTheLivingRefuse ==
    ASSUME GuardAssumption
    PROVE  Spec => RefusedOnlyByTheLiving
  <1>1. GuardInv /\ [Next]_vars =>
            [\A p \in Procs :
                at[p] # "refused" /\ at'[p] = "refused" =>
                    (Readable /\ Alive(p, lock)) \/ p \in crossed]_vars
    <2> SUFFICES ASSUME GuardInv, Next, NEW p \in Procs, at[p] # "refused", at'[p] = "refused",
                        p \notin crossed
                 PROVE  Readable /\ Alive(p, lock)
      OBVIOUS
    <2>1. PICK q \in Procs : Step(q) /\ Observe(q)
      BY DEF Next
    <2>2. q = p
      BY <2>1, GuardAssumption, OneMoves DEF GuardInv
    <2>3. /\ at[p] = "recreate" => lock = NoFile
          /\ at[p] = "cleanupRead" => lock # NoFile
      BY DEF GuardInv, ReliesOnItsLook
    <2> QED
      BY <2>1, <2>2, <2>3 DEF GuardInv, TypeOK, Step, Acquire, Begin, Goto, Create, Write,
         Inspect, Cleanup, CleanupRead, InspectGuard, Unlink, RemoveGuardFile, Recreate,
         Release, ReleaseOwned, UnlinkOwn, Stop, ReleaseForSurface, UnlinkStopped, Die, Reuse,
         files
  <1> QED BY <1>1, GuardInvariance, PTL DEF Spec, RefusedOnlyByTheLiving

-----------------------------------------------------------------------------
(* The runtime store, for any number of processes and versions.            *)

Steps == {"idle", "executable", "install.json", "publish", "sync", "read", "switch", "keep",
          "flush"}
Names == Versions \cup {Store!None}

\* What a power loss cannot take away, unless an install hurried.
Safe(v) == v # Store!None => v \in hurried \/ (v \in synced /\ Store!ReadInstalled(v))

ProcsTypeOK == procs \in [Processes -> [step : Steps, version : Names, prior : Names]]

SyncedIsThere == \A v \in synced : disk[v] # Store!Absent
PointersAreSafe == \A n \in Store!Pointers : Safe(pointers[n])
SurvivorsAreSafe == \A n \in Store!Pointers : \A v \in survivors[n] : Safe(v)

\* What a process stages, publishes and synchronises has a version.
StagesVersions ==
    \A p \in Processes : procs[p].step \in {"executable", "install.json", "publish", "sync"} =>
        /\ procs[p].version \in Versions
        /\ Store!At(p, "sync") => disk[procs[p].version] # Store!Absent

\* What a process is about to make a pointer name.
ReadsWhatIsSynced ==
    \A p \in Processes : Store!At(p, "read") =>
        procs[p].version \in Versions /\ procs[p].version \in synced \cup hurried
SwitchesToSafe ==
    \A p \in Processes : procs[p].step \in {"switch", "keep"} =>
        Safe(procs[p].version) /\ Safe(procs[p].prior)

StoreInv ==
    /\ Store!TypeOK /\ ProcsTypeOK /\ SyncedIsThere
    /\ PointersAreSafe /\ SurvivorsAreSafe
    /\ StagesVersions /\ ReadsWhatIsSynced /\ SwitchesToSafe

-----------------------------------------------------------------------------
(* Steps that publish nothing                                               *)

\* What is safe stays safe where the versions stay and more of them were hurried.
LEMMA Grown ==
    ASSUME UNCHANGED Store!published, hurried \subseteq hurried', NEW v, Safe(v)
    PROVE  Safe(v)'
  BY DEF Safe, Store!ReadInstalled, Store!published

\* A process begins, goes on or stops, and no pointer moves.
LEMMA ProcessStep ==
    ASSUME StoreInv, UNCHANGED <<Store!published, Store!links>>,
           NEW p \in Processes, NEW work \in [step : Steps, version : Names, prior : Names],
           procs' = [procs EXCEPT ![p] = work],
           hurried \subseteq hurried', hurried' \subseteq Versions,
           staging' \in [Processes -> {Store!Absent} \cup SUBSET Store!Files],
           work.step # "sync",
           work.step \in {"executable", "install.json", "publish"} => work.version \in Versions,
           work.step = "read" =>
               work.version \in Versions /\ work.version \in synced \cup hurried',
           work.step \in {"switch", "keep"} => Safe(work.version) /\ Safe(work.prior)
    PROVE  StoreInv'
  <1>1. \A v : Safe(v) => Safe(v)'
    BY Grown
  <1>2. procs' \in [Processes -> [step : Steps, version : Names, prior : Names]]
    BY DEF StoreInv, ProcsTypeOK
  <1>3. Store!TypeOK' /\ ProcsTypeOK'
    BY <1>2 DEF StoreInv, Store!TypeOK, ProcsTypeOK, Store!published, Store!links, Names
  <1>4. SyncedIsThere' /\ PointersAreSafe' /\ SurvivorsAreSafe'
    BY <1>1 DEF StoreInv, SyncedIsThere, PointersAreSafe, SurvivorsAreSafe, Store!published,
       Store!links
  <1>5. \A q \in Processes : procs'[q] = IF q = p THEN work ELSE procs[q]
    BY DEF StoreInv, ProcsTypeOK
  <1>6. StagesVersions' /\ ReadsWhatIsSynced'
    BY <1>5 DEF StoreInv, StagesVersions, ReadsWhatIsSynced, Store!At, Store!published
  <1>7. SwitchesToSafe'
    <2> SUFFICES ASSUME NEW q \in Processes, procs'[q].step \in {"switch", "keep"}
                 PROVE  (Safe(procs[q].version) /\ Safe(procs[q].prior))'
      BY DEF SwitchesToSafe
    <2>1. CASE q = p
      BY <2>1, <1>1, <1>5 DEF Safe
    <2>2. CASE q # p
      BY <2>2, <1>1, <1>5 DEF StoreInv, SwitchesToSafe, Safe
    <2> QED BY <2>1, <2>2
  <1> QED BY <1>3, <1>4, <1>6, <1>7 DEF StoreInv

\* A pointer is replaced, and a process goes on.
LEMMA PointerStep ==
    ASSUME StoreInv, UNCHANGED <<Store!published, staging>>,
           NEW name \in Store!Pointers, NEW v \in Names, Store!Replace(name, v),
           v # Store!None => v \in hurried' \/ (v \in synced /\ Store!ReadInstalled(v)),
           NEW p \in Processes, NEW work \in [step : Steps, version : Names, prior : Names],
           procs' = [procs EXCEPT ![p] = work],
           hurried \subseteq hurried', hurried' \subseteq Versions,
           work.step \in {"idle", "keep", "flush"},
           work.step = "keep" => Safe(work.version) /\ Safe(work.prior)
    PROVE  StoreInv'
  <1>1. \A w : Safe(w) => Safe(w)'
    BY Grown
  <1>2. procs' \in [Processes -> [step : Steps, version : Names, prior : Names]]
    BY DEF StoreInv, ProcsTypeOK
  <1>3. /\ pointers' \in [Store!Pointers -> Names]
        /\ survivors' \in [Store!Pointers -> SUBSET Names]
        /\ \A n \in Store!Pointers : pointers'[n] = IF n = name THEN v ELSE pointers[n]
        /\ \A n \in Store!Pointers :
              survivors'[n] = IF n = name THEN survivors[n] \cup {v} ELSE survivors[n]
    BY DEF StoreInv, Store!TypeOK, Store!Replace, Names
  <1>4. Store!TypeOK' /\ ProcsTypeOK'
    BY <1>2, <1>3 DEF StoreInv, Store!TypeOK, ProcsTypeOK, Store!published, Names
  <1>5. SyncedIsThere'
    BY DEF StoreInv, SyncedIsThere, Store!published
  <1>p. Safe(v)'
    BY DEF Safe, Store!ReadInstalled, Store!published
  <1>6. PointersAreSafe' /\ SurvivorsAreSafe'
    BY <1>1, <1>3, <1>p DEF StoreInv, PointersAreSafe, SurvivorsAreSafe, Safe
  <1>7. \A q \in Processes : procs'[q] = IF q = p THEN work ELSE procs[q]
    BY DEF StoreInv, ProcsTypeOK
  <1>8. StagesVersions' /\ ReadsWhatIsSynced'
    BY <1>7 DEF StoreInv, StagesVersions, ReadsWhatIsSynced, Store!At, Store!published
  <1>9. SwitchesToSafe'
    <2> SUFFICES ASSUME NEW q \in Processes, procs'[q].step \in {"switch", "keep"}
                 PROVE  (Safe(procs[q].version) /\ Safe(procs[q].prior))'
      BY DEF SwitchesToSafe
    <2>1. CASE q = p
      BY <2>1, <1>1, <1>7 DEF Safe
    <2>2. CASE q # p
      BY <2>2, <1>1, <1>7 DEF StoreInv, SwitchesToSafe, Safe
    <2> QED BY <2>1, <2>2
  <1> QED BY <1>4, <1>5, <1>6, <1>8, <1>9 DEF StoreInv

\* The work of a process, one field of it changed.
LEMMA Works ==
    ASSUME ProcsTypeOK, NEW p \in Processes
    PROVE  /\ procs[p] \in [step : Steps, version : Names, prior : Names]
           /\ Store!Idle \in [step : Steps, version : Names, prior : Names]
           /\ \A step \in Steps : [procs[p] EXCEPT !.step = step]
                                      \in [step : Steps, version : Names, prior : Names]
  BY DEF ProcsTypeOK, Store!Idle, Steps, Names

\* The empty store satisfies the invariant.
LEMMA InitSafe == Store!Init => StoreInv
  BY DEF Store!Init, StoreInv, Store!TypeOK, ProcsTypeOK, SyncedIsThere, PointersAreSafe,
     SurvivorsAreSafe, StagesVersions, ReadsWhatIsSynced, SwitchesToSafe, Safe, Store!At,
     Store!Idle, Steps, Names, Store!Pointers, Store!Files

\* An installation that begins has a version to stage, or finds it installed.
LEMMA InstallSafe ==
    ASSUME StoreInv, NEW p \in Processes, NEW v \in Versions, Store!Install(p, v)
    PROVE  StoreInv'
  <1>1. CASE /\ Store!Begin(p, "executable", v)
             /\ staging' = [staging EXCEPT ![p] = {}] /\ UNCHANGED hurried
    <2> DEFINE work == [step |-> "executable", version |-> v, prior |-> Store!None]
    <2>1. work \in [step : Steps, version : Names, prior : Names]
      BY DEF Steps, Names
    <2>2. staging' \in [Processes -> {Store!Absent} \cup SUBSET Store!Files]
      BY <1>1 DEF StoreInv, Store!TypeOK
    <2>3. hurried' \subseteq Versions /\ hurried \subseteq hurried'
      BY <1>1 DEF StoreInv, Store!TypeOK
    <2>4. procs' = [procs EXCEPT ![p] = work] /\ UNCHANGED <<Store!published, Store!links>>
      BY <1>1 DEF Store!Begin, Store!Install
    <2> HIDE DEF work
    <2>5. work.step = "executable" /\ work.version \in Versions
      BY DEF work
    <2> QED BY <2>1, <2>2, <2>3, <2>4, <2>5, ProcessStep
  <1>2. CASE /\ Store!ReadInstalled(v) /\ Store!Begin(p, "read", v)
             /\ Store!TakeUp(v) /\ UNCHANGED staging
    <2> DEFINE work == [step |-> "read", version |-> v, prior |-> Store!None]
    <2>1. work \in [step : Steps, version : Names, prior : Names]
      BY DEF Steps, Names
    <2>2. staging' \in [Processes -> {Store!Absent} \cup SUBSET Store!Files]
      BY <1>2 DEF StoreInv, Store!TypeOK
    <2>3. hurried' \subseteq Versions /\ hurried \subseteq hurried' /\ v \in synced \cup hurried'
      BY <1>2 DEF StoreInv, Store!TypeOK, Store!TakeUp
    <2>4. procs' = [procs EXCEPT ![p] = work] /\ UNCHANGED <<Store!published, Store!links>>
      BY <1>2 DEF Store!Begin, Store!Install
    <2> HIDE DEF work
    <2>5. work.step = "read" /\ work.version = v
      BY DEF work
    <2> QED BY <2>1, <2>2, <2>3, <2>4, <2>5, ProcessStep
  <1> QED BY <1>1, <1>2 DEF Store!Install

\* A rollback begins with the version it was asked for.
LEMMA RollBackSafe ==
    ASSUME StoreInv, NEW p \in Processes, NEW v \in Versions, Store!RollBack(p, v)
    PROVE  StoreInv'
  <1> DEFINE work == [step |-> "read", version |-> v, prior |-> Store!None]
  <1>1. work \in [step : Steps, version : Names, prior : Names]
    BY DEF Steps, Names
  <1>2. staging' \in [Processes -> {Store!Absent} \cup SUBSET Store!Files]
    BY DEF StoreInv, Store!TypeOK, Store!RollBack
  <1>3. hurried' \subseteq Versions /\ hurried \subseteq hurried' /\ v \in synced \cup hurried'
    BY DEF StoreInv, Store!TypeOK, Store!TakeUp, Store!RollBack
  <1>4. procs' = [procs EXCEPT ![p] = work] /\ UNCHANGED <<Store!published, Store!links>>
    BY DEF Store!Begin, Store!RollBack
  <1> HIDE DEF work
  <1>5. work.step = "read" /\ work.version = v
    BY DEF work
  <1> QED BY <1>1, <1>2, <1>3, <1>4, <1>5, ProcessStep

\* A file is written into the staging directory of its own process.
LEMMA WriteSafe ==
    ASSUME StoreInv, NEW p \in Processes, NEW item \in Store!Files,
           NEW next \in {"install.json", "publish"}, Store!Write(p, item, next)
    PROVE  StoreInv'
  <1> DEFINE work == [procs[p] EXCEPT !.step = next]
  <1>1. /\ work \in [step : Steps, version : Names, prior : Names] /\ work.step = next
        /\ work.version = procs[p].version
    <2>1. procs[p] \in [step : Steps, version : Names, prior : Names]
      BY Works DEF StoreInv
    <2>2. next \in Steps
      BY DEF Steps
    <2> QED BY <2>1, <2>2
  <1>2. staging' \in [Processes -> {Store!Absent} \cup SUBSET Store!Files]
    BY DEF StoreInv, Store!TypeOK, Store!Write
  <1>3. hurried' \subseteq Versions /\ hurried \subseteq hurried'
    BY DEF StoreInv, Store!TypeOK, Store!Write
  <1>4. procs' = [procs EXCEPT ![p] = work] /\ UNCHANGED <<Store!published, Store!links>>
    BY DEF Store!Goto, Store!Write
  <1>5. procs[p].version \in Versions
    BY DEF StoreInv, StagesVersions, Store!Write, Store!At, Store!Files
  <1> HIDE DEF work
  <1> QED BY <1>1, <1>2, <1>3, <1>4, <1>5, ProcessStep

\* Only a version that is read whole is taken up for the pointers.
LEMMA ReadCurrentSafe ==
    ASSUME StoreInv, NEW p \in Processes, Store!ReadCurrent(p)
    PROVE  StoreInv'
  <1>1. /\ staging' \in [Processes -> {Store!Absent} \cup SUBSET Store!Files]
        /\ hurried' \subseteq Versions /\ hurried \subseteq hurried'
        /\ UNCHANGED <<Store!published, Store!links>>
    BY DEF StoreInv, Store!TypeOK, Store!ReadCurrent
  <1>2. CASE Store!Stop(p)
    BY <1>1, <1>2, Works, ProcessStep, Store!Idle.step = "idle" DEF Store!Stop, StoreInv,
       Store!Idle
  <1>3. CASE procs' = [procs EXCEPT ![p].step = "switch", ![p].prior = pointers["current"]]
    <2> DEFINE work == [procs[p] EXCEPT !.step = "switch", !.prior = pointers["current"]]
    <2>1. /\ work \in [step : Steps, version : Names, prior : Names]
          /\ work.step = "switch" /\ work.version = procs[p].version
          /\ work.prior = pointers["current"]
      <3>1. procs[p] \in [step : Steps, version : Names, prior : Names]
        BY Works DEF StoreInv
      <3>2. "switch" \in Steps /\ pointers["current"] \in Names
        BY DEF StoreInv, Store!TypeOK, Steps, Names, Store!Pointers
      <3> QED BY <3>1, <3>2
    <2>2. procs' = [procs EXCEPT ![p] = work]
      BY <1>3
    <2>3. Safe(procs[p].version)
      BY DEF StoreInv, ReadsWhatIsSynced, Store!ReadCurrent, Safe
    <2>4. Safe(pointers["current"])
      BY DEF StoreInv, PointersAreSafe, Store!Pointers
    <2> HIDE DEF work
    <2> QED BY <1>1, <2>1, <2>2, <2>3, <2>4, ProcessStep
  <1> QED BY <1>2, <1>3 DEF Store!ReadCurrent

\* A process that gives up leaves versions and pointers as they are.
LEMMA FailSafe ==
    ASSUME StoreInv, NEW p \in Processes, Store!Fail(p)
    PROVE  StoreInv'
  <1>1. /\ staging' \in [Processes -> {Store!Absent} \cup SUBSET Store!Files]
        /\ hurried' \subseteq Versions /\ hurried \subseteq hurried'
        /\ UNCHANGED <<Store!published, Store!links>>
    BY DEF StoreInv, Store!TypeOK, Store!Fail
  <1>2. procs' = [procs EXCEPT ![p] = Store!Idle] /\ Store!Idle.step = "idle"
    BY DEF Store!Fail, Store!Stop, Store!Idle
  <1>3. Store!Idle \in [step : Steps, version : Names, prior : Names]
    BY Works DEF StoreInv
  <1> QED BY <1>1, <1>2, <1>3, ProcessStep

-----------------------------------------------------------------------------
(* Steps that replace a pointer                                             *)

\* The pointer current moves to the version the process has read.
LEMMA SwitchCurrentSafe ==
    ASSUME StoreInv, NEW p \in Processes, Store!SwitchCurrent(p)
    PROVE  StoreInv'
  <1> DEFINE next == IF procs[p].prior = Store!None THEN "flush" ELSE "keep"
             work == [procs[p] EXCEPT !.step = next]
  <1>1. procs[p] \in [step : Steps, version : Names, prior : Names] /\ next \in Steps
    <2>1. procs[p] \in [step : Steps, version : Names, prior : Names]
      BY Works DEF StoreInv
    <2>2. next \in Steps
      BY DEF Steps
    <2> QED BY <2>1, <2>2
  <1>2. /\ work \in [step : Steps, version : Names, prior : Names] /\ work.step = next
        /\ work.version = procs[p].version /\ work.prior = procs[p].prior
    BY <1>1
  <1>3. Safe(procs[p].version) /\ Safe(procs[p].prior)
    BY DEF StoreInv, SwitchesToSafe, Store!SwitchCurrent, Store!At
  <1>4. /\ procs' = [procs EXCEPT ![p] = work] /\ UNCHANGED <<Store!published, staging>>
        /\ Store!Replace("current", procs[p].version)
    BY DEF Store!Goto, Store!SwitchCurrent
  <1>5. hurried' \subseteq Versions /\ hurried \subseteq hurried'
    BY DEF StoreInv, Store!TypeOK, Store!SwitchCurrent
  <1>6. procs[p].version # Store!None =>
            \/ procs[p].version \in hurried'
            \/ procs[p].version \in synced /\ Store!ReadInstalled(procs[p].version)
    BY <1>3, <1>5 DEF Safe
  <1>7. procs[p].version \in Names /\ "current" \in Store!Pointers /\ next \in {"flush", "keep"}
    BY <1>1 DEF Store!Pointers
  <1> HIDE DEF work, next
  <1> QED BY <1>2, <1>3, <1>4, <1>5, <1>6, <1>7, PointerStep

\* The pointer previous moves to the version that was current.
LEMMA KeepPreviousSafe ==
    ASSUME StoreInv, NEW p \in Processes, Store!KeepPrevious(p)
    PROVE  StoreInv'
  <1> DEFINE work == [procs[p] EXCEPT !.step = "flush"]
  <1>1. procs[p] \in [step : Steps, version : Names, prior : Names] /\ "flush" \in Steps
    <2>1. procs[p] \in [step : Steps, version : Names, prior : Names]
      BY Works DEF StoreInv
    <2>2. "flush" \in Steps
      BY DEF Steps
    <2> QED BY <2>1, <2>2
  <1>2. work \in [step : Steps, version : Names, prior : Names] /\ work.step = "flush"
    BY <1>1
  <1>3. Safe(procs[p].prior) /\ procs[p].prior \in Names
    BY <1>1 DEF StoreInv, SwitchesToSafe, Store!KeepPrevious, Store!At
  <1>4. /\ procs' = [procs EXCEPT ![p] = work] /\ UNCHANGED <<Store!published, staging>>
        /\ Store!Replace("previous", procs[p].prior) /\ "previous" \in Store!Pointers
    BY DEF Store!Goto, Store!KeepPrevious, Store!Pointers
  <1>5. hurried' \subseteq Versions /\ hurried \subseteq hurried'
    BY DEF StoreInv, Store!TypeOK, Store!KeepPrevious
  <1>6. procs[p].prior # Store!None =>
            \/ procs[p].prior \in hurried'
            \/ procs[p].prior \in synced /\ Store!ReadInstalled(procs[p].prior)
    BY <1>3, <1>5 DEF Safe
  <1> HIDE DEF work
  <1> QED BY <1>2, <1>3, <1>4, <1>5, <1>6, PointerStep

\* When previous cannot be kept, current is put back to the safe version it named.
LEMMA KeepFailsSafe ==
    ASSUME StoreInv, NEW p \in Processes, Store!KeepFails(p)
    PROVE  StoreInv'
  <1>1. procs[p] \in [step : Steps, version : Names, prior : Names]
    BY Works DEF StoreInv
  <1>2. Store!Idle \in [step : Steps, version : Names, prior : Names] /\ Store!Idle.step = "idle"
    BY Works DEF StoreInv, Store!Idle
  <1>3. Safe(procs[p].prior) /\ procs[p].prior \in Names
    BY <1>1 DEF StoreInv, SwitchesToSafe, Store!KeepFails, Store!At
  <1>4. /\ procs' = [procs EXCEPT ![p] = Store!Idle] /\ UNCHANGED <<Store!published, staging>>
        /\ Store!Replace("current", procs[p].prior) /\ "current" \in Store!Pointers
    BY DEF Store!Stop, Store!KeepFails, Store!Pointers
  <1>5. hurried' \subseteq Versions /\ hurried \subseteq hurried'
    BY DEF StoreInv, Store!TypeOK, Store!KeepFails
  <1>6. procs[p].prior # Store!None =>
            \/ procs[p].prior \in hurried'
            \/ procs[p].prior \in synced /\ Store!ReadInstalled(procs[p].prior)
    BY <1>3, <1>5 DEF Safe
  <1> QED BY <1>2, <1>3, <1>4, <1>5, <1>6, PointerStep

\* A pointer is put back to a version that is read whole, or to nothing.
LEMMA RestoreSafe ==
    ASSUME StoreInv, NEW p \in Processes, NEW name \in Store!Pointers, NEW v \in Names,
           Store!Restore(p, name, v)
    PROVE  StoreInv'
  <1> DEFINE work == [step |-> "flush", version |-> Store!None, prior |-> Store!None]
  <1>1. work \in [step : Steps, version : Names, prior : Names] /\ work.step = "flush"
    BY DEF Steps, Names
  <1>2. /\ procs' = [procs EXCEPT ![p] = work] /\ UNCHANGED <<Store!published, staging>>
        /\ Store!Replace(name, v)
    BY DEF Store!Begin, Store!Restore
  <1>3. /\ hurried' \subseteq Versions /\ hurried \subseteq hurried'
        /\ v # Store!None => v \in hurried' \/ (v \in synced /\ Store!ReadInstalled(v))
    BY DEF StoreInv, Store!TypeOK, Store!Restore, Store!TakeUp, Names
  <1> HIDE DEF work
  <1> QED BY <1>1, <1>2, <1>3, PointerStep

-----------------------------------------------------------------------------
(* Steps of the file system: publication, synchronisation, power loss       *)

\* A flush makes the links as they are survive, and they name safe versions.
LEMMA FlushSafe ==
    ASSUME StoreInv, NEW p \in Processes, Store!Flush(p)
    PROVE  StoreInv'
  <1>1. \A v : Safe(v) => Safe(v)'
    BY Grown DEF Store!Flush
  <1>2. /\ survivors' \in [Store!Pointers -> SUBSET Names]
        /\ \A n \in Store!Pointers : survivors'[n] = {pointers[n]}
    BY DEF Store!Flush, StoreInv, Store!TypeOK, Names
  <1>3. procs' \in [Processes -> [step : Steps, version : Names, prior : Names]]
    BY Works DEF Store!Flush, Store!Stop, StoreInv, ProcsTypeOK
  <1>4. Store!TypeOK' /\ ProcsTypeOK'
    BY <1>2, <1>3 DEF Store!Flush, StoreInv, Store!TypeOK, ProcsTypeOK, Store!published, Names
  <1>5. SyncedIsThere' /\ PointersAreSafe' /\ SurvivorsAreSafe'
    BY <1>1, <1>2 DEF Store!Flush, StoreInv, SyncedIsThere, PointersAreSafe, SurvivorsAreSafe,
       Safe, Store!published
  <1>6. \A q \in Processes : procs'[q] = IF q = p THEN Store!Idle ELSE procs[q]
    BY DEF Store!Flush, Store!Stop, StoreInv, ProcsTypeOK
  <1>7. StagesVersions' /\ ReadsWhatIsSynced'
    BY <1>6 DEF Store!Flush, StoreInv, StagesVersions, ReadsWhatIsSynced, Store!At,
       Store!published, Store!Idle
  <1>8. SwitchesToSafe'
    BY <1>1, <1>6 DEF StoreInv, SwitchesToSafe, Safe, Store!Idle
  <1> QED BY <1>4, <1>5, <1>7, <1>8 DEF StoreInv

\* Removing a staging directory touches no version.
LEMMA CleanStagingSafe ==
    ASSUME StoreInv, NEW p \in Processes, Store!CleanStaging(p)
    PROVE  StoreInv'
  <1>1. staging' \in [Processes -> {Store!Absent} \cup SUBSET Store!Files]
    <2>1. CASE \E item \in Store!Files \cap staging[p] :
                   staging' = [staging EXCEPT ![p] = @ \ {item}]
      <3>1. staging[p] # Store!Absent
        BY <2>1 DEF Store!Absent, Store!Files
      <3> QED BY <2>1, <3>1 DEF StoreInv, Store!TypeOK
    <2>2. CASE staging' = [staging EXCEPT ![p] = Store!Absent]
      BY <2>2 DEF StoreInv, Store!TypeOK
    <2> QED BY <2>1, <2>2 DEF Store!CleanStaging
  <1>2. UNCHANGED <<disk, synced, pointers, survivors, procs, hurried>>
    BY DEF Store!CleanStaging, Store!published, Store!links
  <1>3. Store!TypeOK' /\ ProcsTypeOK'
    BY <1>1, <1>2 DEF StoreInv, Store!TypeOK, ProcsTypeOK
  <1>4. SyncedIsThere' /\ PointersAreSafe' /\ SurvivorsAreSafe'
    BY <1>2 DEF StoreInv, SyncedIsThere, PointersAreSafe, SurvivorsAreSafe, Safe,
       Store!ReadInstalled
  <1>5. StagesVersions' /\ ReadsWhatIsSynced' /\ SwitchesToSafe'
    BY <1>2 DEF StoreInv, StagesVersions, ReadsWhatIsSynced, SwitchesToSafe, Safe,
       Store!ReadInstalled, Store!At
  <1> QED BY <1>3, <1>4, <1>5 DEF StoreInv

\* Goto of a process.
LEMMA Moves ==
    ASSUME ProcsTypeOK, NEW p \in Processes, NEW step \in Steps, Store!Goto(p, step)
    PROVE  /\ ProcsTypeOK'
           /\ \A q \in Processes : procs'[q] =
                  IF q = p THEN [procs[p] EXCEPT !.step = step] ELSE procs[q]
           /\ procs'[p].step = step /\ procs'[p].version = procs[p].version
  <1>1. [procs[p] EXCEPT !.step = step] \in [step : Steps, version : Names, prior : Names]
    BY Works
  <1>2. procs' = [procs EXCEPT ![p] = [procs[p] EXCEPT !.step = step]]
    BY DEF Store!Goto
  <1>3. procs[p] \in [step : Steps, version : Names, prior : Names]
    BY DEF ProcsTypeOK
  <1> HIDE DEF Steps
  <1> QED BY <1>1, <1>2, <1>3 DEF ProcsTypeOK

\* The rename publishes a whole version where none was.
LEMMA PublishSafe ==
    ASSUME StoreInv, NEW p \in Processes, Store!Publish(p)
    PROVE  StoreInv'
  <1>1. procs[p].version \in Versions /\ ~Store!ReadInstalled(procs[p].version)
    BY DEF Store!Publish, Store!ReadInstalled, Store!Absent, Store!Files, StoreInv,
       StagesVersions, Store!At
  <1>2. /\ hurried \subseteq hurried' /\ synced' = synced \ {procs[p].version}
        /\ \A v \in Versions : v # procs[p].version => disk'[v] = disk[v]
        /\ UNCHANGED Store!links
    BY DEF Store!Publish, StoreInv, Store!TypeOK
  <1>3. \A v : Safe(v) => Safe(v)'
    BY <1>1, <1>2 DEF Safe, Store!ReadInstalled, StoreInv, Store!TypeOK
  <1>4. /\ ProcsTypeOK'
        /\ \A q \in Processes : q # p => procs'[q] = procs[q]
        /\ procs'[p].step = "sync" /\ procs'[p].version = procs[p].version
    <2>1. "sync" \in Steps
      BY DEF Steps
    <2> QED BY <2>1, Moves DEF Store!Publish, StoreInv
  <1>5. /\ disk' \in [Versions -> {Store!Absent} \cup SUBSET Store!Files]
        /\ disk'[procs[p].version] # Store!Absent
    BY <1>1 DEF Store!Publish, StoreInv, Store!TypeOK
  <1>6. hurried' \subseteq Versions
    BY <1>1 DEF Store!Publish, StoreInv, Store!TypeOK
  <1>7. Store!TypeOK'
    BY <1>2, <1>5, <1>6 DEF Store!Publish, StoreInv, Store!TypeOK, Store!links
  <1>8. SyncedIsThere' /\ PointersAreSafe' /\ SurvivorsAreSafe'
    BY <1>2, <1>3 DEF StoreInv, Store!TypeOK, SyncedIsThere, PointersAreSafe, SurvivorsAreSafe,
       Safe, Store!links
  <1>9. StagesVersions'
    BY <1>1, <1>2, <1>4, <1>5 DEF StoreInv, StagesVersions, Store!At
  <1>10. ReadsWhatIsSynced'
    <2> SUFFICES ASSUME NEW q \in Processes, procs'[q].step = "read"
                 PROVE  /\ procs'[q].version \in Versions
                        /\ procs'[q].version \in synced' \cup hurried'
      BY DEF ReadsWhatIsSynced, Store!At
    <2>1. procs'[q] = procs[q] /\ Store!At(q, "read")
      BY <1>4 DEF Store!At
    <2>2. procs[q].version \in Versions /\ procs[q].version \in synced \cup hurried
      BY <2>1 DEF StoreInv, ReadsWhatIsSynced
    <2>3. procs[q].version = procs[p].version => procs[q].version \in hurried'
      BY <2>1 DEF Store!Publish
    <2> QED BY <1>2, <2>1, <2>2, <2>3
  <1>11. SwitchesToSafe'
    BY <1>3, <1>4 DEF StoreInv, SwitchesToSafe, Safe
  <1> QED BY <1>4, <1>7, <1>8, <1>9, <1>10, <1>11 DEF StoreInv

\* A flush of the directory makes its versions survive a power loss.
LEMMA SyncVersionsSafe ==
    ASSUME StoreInv, NEW p \in Processes, Store!SyncVersions(p)
    PROVE  StoreInv'
  <1>1. /\ synced' = {v \in Versions : disk[v] # Store!Absent}
        /\ hurried' = hurried \ {v \in synced' : Store!ReadInstalled(v)}
        /\ UNCHANGED <<disk, pointers, survivors, staging>>
    BY DEF Store!SyncVersions, Store!links
  <1>2. Store!Files # Store!Absent
    BY DEF Store!Files, Store!Absent
  <1>3. \A v : Safe(v) => Safe(v)'
    BY <1>1, <1>2 DEF Safe, Store!ReadInstalled, StoreInv, Store!TypeOK
  <1>4. /\ ProcsTypeOK'
        /\ \A q \in Processes : q # p => procs'[q] = procs[q]
        /\ procs'[p].step = "read" /\ procs'[p].version = procs[p].version
    <2>1. "read" \in Steps
      BY DEF Steps
    <2> QED BY <2>1, Moves DEF Store!SyncVersions, StoreInv
  <1>5. Store!TypeOK'
    BY <1>1 DEF StoreInv, Store!TypeOK
  <1>6. SyncedIsThere' /\ PointersAreSafe' /\ SurvivorsAreSafe'
    BY <1>1, <1>3 DEF StoreInv, SyncedIsThere, PointersAreSafe, SurvivorsAreSafe, Safe
  <1>7. StagesVersions'
    BY <1>1, <1>4 DEF StoreInv, StagesVersions, Store!At
  <1>8. ReadsWhatIsSynced'
    <2> SUFFICES ASSUME NEW q \in Processes, procs'[q].step = "read"
                 PROVE  /\ procs'[q].version \in Versions
                        /\ procs'[q].version \in synced' \cup hurried'
      BY DEF ReadsWhatIsSynced, Store!At
    <2>1. CASE q = p
      BY <1>1, <1>4, <2>1 DEF Store!SyncVersions, StoreInv, StagesVersions, Store!At
    <2>2. CASE q # p
      BY <1>1, <1>4, <2>2 DEF StoreInv, ReadsWhatIsSynced, Store!At, SyncedIsThere
    <2> QED BY <2>1, <2>2
  <1>9. SwitchesToSafe'
    BY <1>3, <1>4 DEF StoreInv, SwitchesToSafe, Safe
  <1> QED BY <1>4, <1>5, <1>6, <1>7, <1>8, <1>9 DEF StoreInv

\* A power loss takes versions that were not flushed, and no safe one.
LEMMA PowerLossSafe ==
    ASSUME StoreInv, Store!PowerLoss
    PROVE  StoreInv'
  <1>1. PICK lost \in SUBSET (Versions \ synced) :
            disk' = [v \in Versions |-> IF v \in lost THEN Store!Absent ELSE disk[v]]
    BY DEF Store!PowerLoss
  <1>2. PICK active \in survivors["current"], prior \in survivors["previous"] :
            pointers' = [current |-> active, previous |-> prior]
    BY DEF Store!PowerLoss
  <1>3. /\ synced' = {v \in Versions : disk'[v] # Store!Absent}
        /\ survivors' = [n \in Store!Pointers |-> {pointers'[n]}]
        /\ staging' = [p \in Processes |-> Store!Absent]
        /\ procs' = [p \in Processes |-> Store!Idle]
        /\ hurried' = hurried \ {v \in synced' : Store!ReadInstalled(v)'}
    BY DEF Store!PowerLoss, Store!ReadInstalled
  <1>4. Store!Files # Store!Absent
    BY DEF Store!Files, Store!Absent
  <1>5. \A v : Safe(v) => Safe(v)'
    BY <1>1, <1>3, <1>4 DEF Safe, Store!ReadInstalled, StoreInv, Store!TypeOK
  <1>6. /\ pointers'["current"] \in survivors["current"]
        /\ pointers'["previous"] \in survivors["previous"]
        /\ pointers' \in [Store!Pointers -> Names]
    BY <1>2 DEF StoreInv, Store!TypeOK, Store!Pointers, Names
  <1>7. Store!TypeOK'
    BY <1>1, <1>3, <1>6 DEF StoreInv, Store!TypeOK, Names
  <1>8. ProcsTypeOK'
    BY <1>3 DEF ProcsTypeOK, Store!Idle, Steps, Names
  <1>9. PointersAreSafe'
    BY <1>5, <1>6 DEF StoreInv, SurvivorsAreSafe, PointersAreSafe, Safe, Store!Pointers
  <1>10. SyncedIsThere' /\ SurvivorsAreSafe'
    BY <1>3, <1>9 DEF SyncedIsThere, SurvivorsAreSafe, PointersAreSafe, Safe
  <1>11. StagesVersions' /\ ReadsWhatIsSynced' /\ SwitchesToSafe'
    BY <1>3 DEF StagesVersions, ReadsWhatIsSynced, SwitchesToSafe, Store!At, Store!Idle
  <1> QED BY <1>7, <1>8, <1>9, <1>10, <1>11 DEF StoreInv

-----------------------------------------------------------------------------
\* Every step of the store keeps the invariant.
LEMMA StoreNextSafe ==
    ASSUME StoreInv, [Store!Next]_(Store!vars)
    PROVE  StoreInv'
  <1>1. ASSUME NEW p \in Processes, NEW v \in Versions, Store!Install(p, v) \/ Store!RollBack(p, v)
        PROVE  StoreInv'
    BY <1>1, InstallSafe, RollBackSafe
  <1>2. ASSUME NEW p \in Processes,
               \/ Store!Write(p, "executable", "install.json")
               \/ Store!Write(p, "install.json", "publish")
        PROVE  StoreInv'
    BY <1>2, WriteSafe DEF Store!Files
  <1>3. ASSUME NEW p \in Processes,
               \/ Store!Publish(p) \/ Store!SyncVersions(p)
               \/ Store!ReadCurrent(p) \/ Store!SwitchCurrent(p) \/ Store!KeepPrevious(p)
               \/ Store!KeepFails(p) \/ Store!Flush(p) \/ Store!Fail(p) \/ Store!CleanStaging(p)
        PROVE  StoreInv'
    BY <1>3, PublishSafe, SyncVersionsSafe, ReadCurrentSafe, SwitchCurrentSafe,
       KeepPreviousSafe, KeepFailsSafe, FlushSafe, FailSafe, CleanStagingSafe
  <1>4. ASSUME NEW p \in Processes, NEW n \in Store!Pointers, NEW v \in Names,
               Store!Restore(p, n, v)
        PROVE  StoreInv'
    BY <1>4, RestoreSafe
  <1>5. CASE Store!PowerLoss
    BY <1>5, PowerLossSafe
  <1>6. CASE UNCHANGED Store!vars
    BY <1>6 DEF Store!vars, StoreInv, Store!TypeOK, ProcsTypeOK, SyncedIsThere, PointersAreSafe,
       SurvivorsAreSafe, StagesVersions, ReadsWhatIsSynced, SwitchesToSafe, Safe,
       Store!ReadInstalled, Store!At
  <1> QED BY <1>1, <1>2, <1>3, <1>4, <1>5, <1>6 DEF Store!Next, Names

\* Pointers and what a power loss may make of them name versions that it cannot take away,
\* and each process has checked what it is about to make them name: runtime_install.rs,
\* install_preverified, activate and the rollbacks, for any number of processes.
THEOREM StoreInvariance == Store!Spec => []StoreInv
  <1>1. Store!Init => StoreInv
    BY InitSafe
  <1>2. StoreInv /\ [Store!Next]_(Store!vars) => StoreInv'
    BY StoreNextSafe
  <1> QED BY <1>1, <1>2, PTL DEF Store!Spec

-----------------------------------------------------------------------------
(* The parts in LibrariesSpec                                               *)

\* A step of another part, and no step, change nothing of this one.
LEMMA StepsAreOfTheirPart ==
    ASSUME [LibrariesNext]_<<component, guard, lifecycle, policy, logs, store, config>>
    PROVE  [Next]_vars /\ [Store!Next]_(Store!vars) /\ [Lifecycle!Next]_(Lifecycle!vars)
           /\ [Policy!Next]_(Policy!vars) /\ [Config!Next]_(Config!vars)
           /\ [Logs!Next]_(Logs!vars)
  BY DEF LibrariesNext, Others, guard, lifecycle, policy, logs, store, config, vars,
     Store!vars, Lifecycle!vars, Policy!vars, Config!vars, Logs!vars

\* LibrariesSpec implements the specification of each part.
LEMMA GuardIsAPart == LibrariesSpec => Spec
  <1>1. LibrariesInit => Init
    BY DEF LibrariesInit
  <1> QED BY <1>1, StepsAreOfTheirPart, PTL DEF LibrariesSpec, Spec

\* The same for the runtime store.
LEMMA StoreIsAPart == LibrariesSpec => Store!Spec
  <1>1. LibrariesInit => Store!Init
    BY DEF LibrariesInit
  <1> QED BY <1>1, StepsAreOfTheirPart, PTL DEF LibrariesSpec, Store!Spec

\* The same for the lifecycle of a runner.
LEMMA LifecycleIsAPart == LibrariesSpec => Lifecycle!Spec
  <1>1. LibrariesInit => Lifecycle!Init
    BY DEF LibrariesInit
  <1> QED BY <1>1, StepsAreOfTheirPart, PTL DEF LibrariesSpec, Lifecycle!Spec

\* The same for the policy.
LEMMA PolicyIsAPart == LibrariesSpec => Policy!Spec
  <1>1. LibrariesInit => Policy!Init
    BY DEF LibrariesInit
  <1> QED BY <1>1, StepsAreOfTheirPart, PTL DEF LibrariesSpec, Policy!Spec

\* The same for the configuration.
LEMMA ConfigIsAPart == LibrariesSpec => Config!Spec
  <1>1. LibrariesInit => Config!Init
    BY DEF LibrariesInit
  <1> QED BY <1>1, StepsAreOfTheirPart, PTL DEF LibrariesSpec, Config!Spec

\* The same for the log.
LEMMA LogsIsAPart == LibrariesSpec => Logs!Spec
  <1>1. LibrariesInit => Logs!Init
    BY DEF LibrariesInit
  <1> QED BY <1>1, StepsAreOfTheirPart, PTL DEF LibrariesSpec, Logs!Spec

\* `current` and `previous` never name an incomplete version, and one that is missing only
\* where a version was taken up before its publication was synced: runtime_install.rs, for
\* any number of processes and versions, with kills and power losses at any step.
THEOREM PointersAlwaysName == LibrariesSpec => []PointersNameWholeVersions
  <1>1. StoreInv => PointersNameWholeVersions
    BY DEF StoreInv, PointersAreSafe, PointersNameWholeVersions,
       Store!PointersNameWholeVersions, Safe
  <1> QED BY <1>1, StoreInvariance, StoreIsAPart, PTL

-----------------------------------------------------------------------------
(* The lifecycle of a runner                                                *)

\* A call whose cancellation was accepted keeps the token that says so.
TokensAreKept == \A c \in cancelled : calls[c].cancelled

LifecycleInv == Lifecycle!TypeOK /\ Lifecycle!SessionsAreAuthenticated /\ TokensAreKept

\* The table of rules: an event that is admitted only in some states is admitted in
\* sessions, or is the authentication, and what it leads to is a session.
LEMMA RulesLeadToSessions ==
    /\ \A event \in DOMAIN Lifecycle!Always :
           Lifecycle!Always[event] \in {"not_authenticated", "error", "updating"}
    /\ {"not_authenticated", "error", "updating"} \cap Lifecycle!Sessions = {}
    /\ \A event \in Lifecycle!Events \ DOMAIN Lifecycle!Always :
           /\ Lifecycle!Guarded[event].to \in Lifecycle!Sessions
           /\ event # "authenticated" =>
                  Lifecycle!Guarded[event].from \subseteq Lifecycle!Sessions
    /\ Lifecycle!Guarded["authenticated"].from = {"not_authenticated"}
  <1>1. DOMAIN Lifecycle!Always = {"reset_auth", "error", "updating"}
    BY DEF Lifecycle!Always
  <1> QED BY <1>1 DEF Lifecycle!Always, Lifecycle!Guarded, Lifecycle!Rule, Lifecycle!Events,
             Lifecycle!Sessions

\* The state machine: an event that is admitted leads from a session to a session, and
\* only authentication leads to the first one.
LEMMA MachineKeeps ==
    ASSUME LifecycleInv,
           Lifecycle!SetError \/ \E event \in Lifecycle!Events : Lifecycle!Transition(event)
    PROVE  LifecycleInv'
  <1> USE DEF LifecycleInv, Lifecycle!TypeOK, Lifecycle!registry
  <1>1. UNCHANGED <<reconnect, calls, cancelled, shutdown>>
    BY DEF Lifecycle!SetError, Lifecycle!Transition
  <1>2. CASE Lifecycle!SetError
    BY <1>1, <1>2 DEF Lifecycle!SetError, Lifecycle!States, Lifecycle!Sessions,
       Lifecycle!SessionsAreAuthenticated, TokensAreKept
  <1>3. ASSUME NEW event \in Lifecycle!Events, Lifecycle!Transition(event)
        PROVE  /\ state' \in Lifecycle!States /\ login' \in BOOLEAN
               /\ Lifecycle!SessionsAreAuthenticated'
    <2>1. CASE event \in DOMAIN Lifecycle!Always
      <3>1. state' \in {"not_authenticated", "error", "updating"}
        BY <1>3, <2>1, RulesLeadToSessions DEF Lifecycle!Transition, Lifecycle!NextState
      <3>2. login' = FALSE
        BY <1>3, <2>1 DEF Lifecycle!Transition, Lifecycle!Always
      <3> QED BY <3>1, <3>2 DEF Lifecycle!States, Lifecycle!Sessions,
                 Lifecycle!SessionsAreAuthenticated
    <2>2. CASE event \notin DOMAIN Lifecycle!Always /\ state \in Lifecycle!Guarded[event].from
      <3>1. state' = Lifecycle!Guarded[event].to
        BY <1>3, <2>2 DEF Lifecycle!Transition, Lifecycle!NextState
      <3>2. state' \in Lifecycle!Sessions
        BY <2>2, <3>1, RulesLeadToSessions
      <3>3. login' = TRUE
        BY <1>3, <2>2, RulesLeadToSessions DEF Lifecycle!Transition,
           Lifecycle!SessionsAreAuthenticated
      <3> QED BY <3>2, <3>3 DEF Lifecycle!States, Lifecycle!Sessions,
                 Lifecycle!SessionsAreAuthenticated
    <2>3. CASE event \notin DOMAIN Lifecycle!Always /\ state \notin Lifecycle!Guarded[event].from
      <3>1. state' = state
        BY <1>3, <2>3 DEF Lifecycle!Transition, Lifecycle!NextState
      <3>2. login' = login
        BY <1>3, <2>3, RulesLeadToSessions DEF Lifecycle!Transition
      <3> QED BY <3>1, <3>2 DEF Lifecycle!SessionsAreAuthenticated
    <2> QED BY <2>1, <2>2, <2>3
  <1> QED BY <1>1, <1>2, <1>3 DEF TokensAreKept

\* The registry: a call is inserted once, and no late mark takes its token back.
LEMMA RegistryKeeps ==
    ASSUME LifecycleInv, NEW c \in Calls,
           \/ \E s \in Lifecycle!CallStates : Lifecycle!Insert(c, s) \/ Lifecycle!MarkState(c, s)
           \/ Lifecycle!Cancel(c)
    PROVE  LifecycleInv'
  <1> USE DEF LifecycleInv, Lifecycle!TypeOK, Lifecycle!machine
  <1>1. /\ UNCHANGED <<state, login, reconnect, shutdown>>
        /\ calls' \in [Calls -> [state : Lifecycle!CallStates \cup {"none"}, cancelled : BOOLEAN]]
        /\ cancelled' \subseteq Calls
    <2>1. UNCHANGED <<state, login, reconnect, shutdown>> /\ cancelled' \subseteq Calls
      BY DEF Lifecycle!Insert, Lifecycle!MarkState, Lifecycle!Cancel
    <2>2. PICK call \in [state : Lifecycle!CallStates \cup {"none"}, cancelled : BOOLEAN] :
              calls' = [calls EXCEPT ![c] = call]
      <3>1. CASE \E s \in Lifecycle!CallStates : Lifecycle!Insert(c, s)
        BY <3>1 DEF Lifecycle!Insert, Lifecycle!NewCall
      <3>2. CASE \E s \in Lifecycle!CallStates : Lifecycle!MarkState(c, s)
        <4>1. PICK s \in Lifecycle!CallStates : calls' = [calls EXCEPT ![c].state = s]
          BY <3>2 DEF Lifecycle!MarkState
        <4>2. [calls[c] EXCEPT !.state = s]
                  \in [state : Lifecycle!CallStates \cup {"none"}, cancelled : BOOLEAN]
          OBVIOUS
        <4> QED BY <4>1, <4>2
      <3>3. CASE Lifecycle!Cancel(c)
        BY <3>3 DEF Lifecycle!Cancel, Lifecycle!CallStates
      <3> QED BY <3>1, <3>2, <3>3
    <2> QED BY <2>1, <2>2
  <1>2. TokensAreKept'
    BY DEF TokensAreKept, Lifecycle!Insert, Lifecycle!MarkState, Lifecycle!Cancel,
       Lifecycle!NewCall, Lifecycle!NoCall
  <1> QED BY <1>1, <1>2 DEF Lifecycle!SessionsAreAuthenticated

\* Reconnecting and shutting down touch neither.
LEMMA OtherObjectsKeep ==
    ASSUME LifecycleInv,
           \/ \E p, q \in 0..MaxPosition : Lifecycle!RecordDisconnect(p, q)
           \/ Lifecycle!NextAttempt \/ Lifecycle!Reset
           \/ Lifecycle!GracefulShutdown \/ Lifecycle!MarkSafeCleanupComplete
           \/ Lifecycle!EmergencyStop
    PROVE  LifecycleInv'
  <1> USE DEF LifecycleInv, Lifecycle!TypeOK, Lifecycle!machine, Lifecycle!registry
  <1>1. UNCHANGED <<state, login, calls, cancelled>>
    BY DEF Lifecycle!RecordDisconnect, Lifecycle!NextAttempt, Lifecycle!Reset,
       Lifecycle!GracefulShutdown, Lifecycle!MarkSafeCleanupComplete, Lifecycle!EmergencyStop
  <1>2. /\ reconnect' \in [attempt : Nat, resume : Nat, received : Nat]
        /\ shutdown' \in [mode : {"none", "graceful", "emergency"}, clean : BOOLEAN]
    <2>1. CASE \E p, q \in 0..MaxPosition : Lifecycle!RecordDisconnect(p, q)
      <3>1. 0..MaxPosition \subseteq Nat
        OBVIOUS
      <3> QED BY <2>1, <3>1 DEF Lifecycle!RecordDisconnect
    <2>2. CASE Lifecycle!NextAttempt \/ Lifecycle!Reset
      BY <2>2 DEF Lifecycle!NextAttempt, Lifecycle!Reset
    <2>3. CASE \/ Lifecycle!GracefulShutdown \/ Lifecycle!MarkSafeCleanupComplete
               \/ Lifecycle!EmergencyStop
      <3>1. shutdown' \in [mode : {"none", "graceful", "emergency"}, clean : BOOLEAN]
        <4>1. CASE Lifecycle!GracefulShutdown
          <5>1. (Lifecycle!Active = {}) \in BOOLEAN
            OBVIOUS
          <5> QED BY <4>1, <5>1 DEF Lifecycle!GracefulShutdown
        <4>2. CASE Lifecycle!MarkSafeCleanupComplete
          BY <4>2 DEF Lifecycle!MarkSafeCleanupComplete
        <4>3. CASE Lifecycle!EmergencyStop
          BY <4>3 DEF Lifecycle!EmergencyStop
        <4> QED BY <2>3, <4>1, <4>2, <4>3
      <3> QED BY <2>3, <3>1 DEF Lifecycle!GracefulShutdown, Lifecycle!MarkSafeCleanupComplete,
                 Lifecycle!EmergencyStop
    <2> QED BY <2>1, <2>2, <2>3
  <1> QED BY <1>1, <1>2 DEF Lifecycle!SessionsAreAuthenticated, TokensAreKept

\* The inductive invariant of the lifecycle.
THEOREM LifecycleInvariance == Lifecycle!Spec => []LifecycleInv
  <1>1. Lifecycle!Init => LifecycleInv
    <2> SUFFICES ASSUME Lifecycle!Init PROVE LifecycleInv
      OBVIOUS
    <2>1. Lifecycle!TypeOK
      BY DEF Lifecycle!Init, Lifecycle!TypeOK, Lifecycle!States, Lifecycle!NewReconnect,
         Lifecycle!NoCall, Lifecycle!NewCoordinator
    <2>2. Lifecycle!SessionsAreAuthenticated /\ TokensAreKept
      BY DEF Lifecycle!Init, Lifecycle!Sessions, Lifecycle!SessionsAreAuthenticated, TokensAreKept
    <2> QED BY <2>1, <2>2 DEF LifecycleInv
  <1>2. LifecycleInv /\ [Lifecycle!Next]_(Lifecycle!vars) => LifecycleInv'
    <2> SUFFICES ASSUME LifecycleInv, [Lifecycle!Next]_(Lifecycle!vars) PROVE LifecycleInv'
      OBVIOUS
    <2>1. CASE UNCHANGED Lifecycle!vars
      BY <2>1 DEF Lifecycle!vars, LifecycleInv, Lifecycle!TypeOK,
         Lifecycle!SessionsAreAuthenticated, TokensAreKept
    <2>2. CASE Lifecycle!Next
      BY <2>2, MachineKeeps, RegistryKeeps, OtherObjectsKeep DEF Lifecycle!Next
    <2> QED BY <2>1, <2>2
  <1> QED BY <1>1, <1>2, PTL DEF Lifecycle!Spec

\* Whatever events arrive, a runner with a session has authenticated, and a call whose
\* cancellation was accepted emits no output: lifecycle.rs, for any set of calls and any
\* order of the methods of its objects.
THEOREM LifecycleStaysGuarded == LibrariesSpec => []LifecycleIsGuarded
  <1>1. LifecycleInv => LifecycleIsGuarded
    BY DEF LifecycleInv, TokensAreKept, LifecycleIsGuarded, Lifecycle!TypeOK,
       Lifecycle!CancelledCallsAreSilent, Lifecycle!CanEmitOutput
  <1> QED BY <1>1, LifecycleInvariance, LifecycleIsAPart, PTL

-----------------------------------------------------------------------------
(* The policy                                                               *)

\* merge_evaluation without its overlapping cases: a denial stands, and otherwise the
\* next layer decides where it says something.
LEMMA MergeIs ==
    ASSUME NEW before, NEW said, before # "none"
    PROVE  Policy!Merge(before, said) =
               IF said = "none" THEN before ELSE IF before = "deny" THEN "deny" ELSE said
  BY DEF Policy!Merge

\* The three degrees of a decision.
LEMMA StrictnessIs ==
    ASSUME NEW decision
    PROVE  Policy!Strictness(decision) =
               IF decision = "allow" THEN 1 ELSE IF decision = "ask" THEN 2 ELSE 3
  BY DEF Policy!Strictness

\* The floor of a risky command makes a decision stricter or leaves it.
LEMMA FloorIs ==
    ASSUME NEW decision, NEW input
    PROVE  \/ Policy!Floor(decision, input) = decision
           \/ decision = "allow" /\ Policy!Floor(decision, input) = "ask"
  BY DEF Policy!Floor

\* The built-in layer always says something, and denies nothing that is not denied anyway.
LEMMA BuiltInIs ==
    ASSUME NEW input
    PROVE  /\ Policy!BuiltIn(input) \in {"allow", "ask", "deny"}
           /\ input.capability \notin {"git.commit", "git.push"} =>
                  Policy!BuiltIn(input) \in {"allow", "ask"}
  BY DEF Policy!BuiltIn

\* An organization is obeyed in every state, whatever rules the layers are made of.
LEMMA Obeyed == Policy!OrganizationIsObeyed
  <1> SUFFICES ASSUME NEW input \in Inputs
               PROVE  LET result == Policy!Evaluate(input)
                          org == Policy!OrganizationSays(input)
                          own == Policy!Says(local, "none", input)
                      IN /\ org # "none" => Policy!Strictness(result) >= Policy!Strictness(org)
                         /\ "deny" \in {Policy!BuiltIn(input), own, org} =>
                                Policy!Strictness(result) = 3
                         /\ result = "allow" => "allow" \in {Policy!BuiltIn(input), own, org}
    BY DEF Policy!OrganizationIsObeyed
  <1> DEFINE result == Policy!Evaluate(input)
             org == Policy!OrganizationSays(input)
             own == Policy!Says(local, "none", input)
             builtIn == Policy!BuiltIn(input)
             merged == Policy!Merge(Policy!Merge(builtIn, own), org)
  <1>1. CASE input.capability \in {"git.commit", "git.push"} \/ ~Policy!InsideRoot(input)
    <2>1. result \in {"deny", "outside"}
      BY <1>1 DEF Policy!Evaluate
    <2> HIDE DEF result, org, own, builtIn
    <2>2. Policy!Strictness(result) = 3 /\ result # "allow"
      BY <2>1, StrictnessIs
    <2>3. Policy!Strictness(result) >= Policy!Strictness(org)
      BY <2>2, StrictnessIs
    <2> QED BY <2>2, <2>3 DEF result, org, own, builtIn
  <1>2. CASE input.capability \notin {"git.commit", "git.push"} /\ Policy!InsideRoot(input)
    <2>1. result = Policy!Floor(merged, input)
      BY <1>2 DEF Policy!Evaluate
    <2>2. builtIn \in {"allow", "ask"}
      BY <1>2, BuiltInIs
    <2> HIDE DEF result, org, own, builtIn
    <2>3. Policy!Merge(builtIn, own) = IF own = "none" THEN builtIn ELSE own
      BY <2>2, MergeIs
    <2>4. merged = IF org = "none" THEN Policy!Merge(builtIn, own)
                   ELSE IF Policy!Merge(builtIn, own) = "deny" THEN "deny" ELSE org
      BY <2>2, <2>3, MergeIs
    <2> HIDE DEF merged
    <2>5. result = merged \/ (merged = "allow" /\ result = "ask")
      BY <2>1, FloorIs
    <2>6. org # "none" => Policy!Strictness(result) >= Policy!Strictness(org)
      BY <2>4, <2>5, StrictnessIs
    <2>7. "deny" \in {builtIn, own, org} => Policy!Strictness(result) = 3
      BY <2>2, <2>3, <2>4, <2>5, StrictnessIs
    <2>8. result = "allow" => "allow" \in {builtIn, own, org}
      BY <2>3, <2>4, <2>5
    <2> QED BY <2>6, <2>7, <2>8 DEF result, org, own, builtIn
  <1> QED BY <1>1, <1>2

Revisions ==
    [version : Nat \ {0}, rules : Managed, percent : Percents, previous : SUBSET Nat]

\* Every version that was published has its rules on record, and a runner's snapshot is
\* the document in force or an older version than it.
PolicyInv ==
    /\ contents \in Seq(Managed)
    /\ published \in Revisions \cup {Policy!None} /\ snapshot \in Revisions \cup {Policy!None}
    /\ published.version = Len(contents)
    /\ published # Policy!None => published.rules = contents[Len(contents)]
    /\ snapshot = published \/ snapshot.version < published.version

\* A version that is added is the last one.
LEMMA NewVersion ==
    ASSUME PolicyInv, NEW document \in Revisions, published' = document,
           document.version = published.version + 1,
           contents' = Append(contents, document.rules), UNCHANGED snapshot
    PROVE  PolicyInv'
  <1>1. /\ Len(contents') = Len(contents) + 1 /\ contents' \in Seq(Managed)
        /\ contents'[Len(contents) + 1] = document.rules
    BY DEF PolicyInv, Revisions
  <1>2. published.version \in Nat /\ snapshot.version \in Nat
    BY DEF PolicyInv, Revisions, Policy!None
  <1> QED BY <1>1, <1>2 DEF PolicyInv

\* The invariant of the documents.
LEMMA PolicyInvariance == Policy!Spec => []PolicyInv
  <1>1. Policy!Init => PolicyInv
    BY DEF Policy!Init, PolicyInv, Policy!None
  <1>2. PolicyInv /\ [Policy!Next]_(Policy!vars) => PolicyInv'
    <2> SUFFICES ASSUME PolicyInv, [Policy!Next]_(Policy!vars) PROVE PolicyInv'
      OBVIOUS
    <2>1. published.version \in Nat
      BY DEF PolicyInv, Revisions, Policy!None
    <2>2. CASE UNCHANGED Policy!vars
      BY <2>2 DEF Policy!vars, PolicyInv
    <2>3. CASE Policy!EditLocalConfig
      BY <2>3 DEF Policy!EditLocalConfig, PolicyInv
    <2>4. CASE Policy!Refresh
      BY <2>4 DEF Policy!Refresh, PolicyInv
    <2>5. ASSUME NEW rules \in Managed, NEW percent \in Percents, Policy!Publish(rules, percent)
          PROVE  PolicyInv'
      <3>1. published' \in Revisions /\ published'.rules = rules
            /\ published'.version = published.version + 1
        BY <2>1, <2>5 DEF Policy!Publish, Policy!Document, Revisions, PolicyInv
      <3> QED BY <2>5, <3>1, NewVersion DEF Policy!Publish
    <2>6. ASSUME NEW target \in 1..MaxVersion, Policy!Rollback(target)
          PROVE  PolicyInv'
      <3>1. published' \in Revisions /\ published'.rules = published.rules
            /\ published'.version = published.version + 1
        <4>1. published \in Revisions
          BY <2>6 DEF Policy!Rollback, PolicyInv
        <4>2. published' = [published EXCEPT !.version = @ + 1,
                                             !.previous = @ \cup {published.version}]
          BY <2>6 DEF Policy!Rollback
        <4>3. /\ published.version + 1 \in Nat \ {0}
              /\ published.previous \cup {published.version} \in SUBSET Nat
          BY <2>1, <4>1 DEF Revisions
        <4> QED BY <4>1, <4>2, <4>3 DEF Revisions
      <3> QED BY <2>6, <3>1, NewVersion DEF Policy!Rollback
    <2> QED BY <2>2, <2>3, <2>4, <2>5, <2>6 DEF Policy!Next
  <1> QED BY <1>1, <1>2, PTL DEF Policy!Spec

-----------------------------------------------------------------------------
(* The paths of the policy.  Normalize folds over the parts of a path; what*)
(* it computes is proved along the walk it takes, by induction over the    *)
(* number of parts.                                                        *)

\* A set of naturals has a least element.
LEMMA LeastNatural ==
    ASSUME NEW T \in SUBSET Nat, T # {}
    PROVE \E m \in T : \A n \in T : m <= n
  <1> DEFINE R == {ss \in Nat \X Nat : ss[1] < ss[2]}
  <1>1. IsWellFoundedOn(R, Nat)
    BY NatLessThanWellFounded DEF OpToRel
  <1> HIDE DEF R
  <1>2. PICK x \in T : \A y \in T : ~ (<<y, x>> \in R)
    BY <1>1, WFMin
  <1>3. ASSUME NEW n \in T PROVE x <= n
    <2>1. x \in Nat /\ n \in Nat /\ ~(<<n, x>> \in R)
      BY <1>2
    <2>2. ~(n < x)
      BY <2>1 DEF R
    <2> QED BY <2>1, <2>2
  <1> QED BY <1>3

\* Induction over the naturals, for the set of those that have the property.
LEMMA Induction ==
    ASSUME NEW T, 0 \in T, \A n \in Nat : n \in T => n + 1 \in T
    PROVE  Nat \subseteq T
  <1>1. SUFFICES ASSUME Nat \ T # {} PROVE FALSE
    OBVIOUS
  <1>2. PICK m \in Nat \ T : \A n \in Nat \ T : m <= n
    BY <1>1, LeastNatural
  <1>3. m # 0 /\ m - 1 \in Nat /\ m - 1 \in T
    BY <1>2
  <1> QED BY <1>2, <1>3

\* PolicyEngine's Cardinality is the one that the library's theorems are about.
LEMMA CardinalityIs == \A S : Policy!Cardinality(S) = Cardinality(S)
  BY DEF Policy!Cardinality, Cardinality

\* What Normalize has after each part of a path, from left to right.
IsWalk(walk, start, parts) ==
    /\ walk[0] = start
    /\ \A k \in 0..(Len(parts) - 1) : walk[k + 1] = Policy!WalkPart(walk[k], parts[k + 1])

\* The greatest of a set is what no other is greater than.
LEMMA MaxIs ==
    ASSUME NEW s \in SUBSET Int, NEW m \in s, \A i \in s : i <= m
    PROVE  Policy!Max(s) = m
  <1> DEFINE Top(x) == x \in s /\ \A y \in s : x >= y
  <1>1. \A x : Top(x) <=> x = m
    <2>1. \A x \in s : x \in Int
      OBVIOUS
    <2>2. \A i \in s : m >= i
      BY <2>1
    <2>3. ASSUME NEW x, Top(x) PROVE x = m
      <3>1. x \in s /\ x >= m
        BY <2>3
      <3>2. x <= m /\ x \in Int /\ m \in Int
        BY <2>1, <3>1
      <3> QED BY <3>1, <3>2
    <2> QED BY <2>2, <2>3
  <1>2. (CHOOSE x \in s : \A y \in s : x >= y) = m
    <2>1. PICK x \in s : \A y \in s : x >= y
      BY <1>1
    <2> DEFINE c == CHOOSE x2 \in s : \A y \in s : x2 >= y
    <2>2. Top(c)
      BY <2>1, Zenon
    <2> HIDE DEF c
    <2>3. c = m
      BY <1>1, <2>2
    <2> QED BY <2>3 DEF c
  <1> QED BY <1>2, Zenon DEF Policy!Max

\* The function that FoldLeft folds with, over the sets of indices that are left.
IsFold(f, start, parts, n) ==
    f = [s \in SUBSET (1..n) |->
            IF s = {} THEN start
            ELSE Policy!WalkPart(f[s \ {Policy!Max(s)}], parts[Policy!Max(s)])]

\* There is such a function, so the one that FoldLeft chooses is one.
LEMMA FoldIsDefined ==
    ASSUME NEW parts, NEW start, NEW n \in Nat
    PROVE  \E f : IsFold(f, start, parts, n)
  <1> DEFINE Left(f, s) ==
                 IF s = {} THEN start
                 ELSE Policy!WalkPart(f[s \ {Policy!Max(s)}], parts[Policy!Max(s)])
             T == {m \in Nat : \E f : f = [s \in SUBSET (1..m) |-> Left(f, s)]}
  <1>1. 0 \in T
    <2> DEFINE f == [s \in SUBSET (1..0) |-> start]
    <2>1. f = [s \in SUBSET (1..0) |-> Left(f, s)]
      OBVIOUS
    <2> QED BY <2>1
  <1>2. ASSUME NEW m \in Nat, m \in T PROVE m + 1 \in T
    <2>1. PICK f : f = [s \in SUBSET (1..m) |-> Left(f, s)]
      BY <1>2
    <2> DEFINE g == [s \in SUBSET (1..(m + 1)) |->
                         IF m + 1 \in s THEN Policy!WalkPart(f[s \ {m + 1}], parts[m + 1])
                                        ELSE f[s]]
    <2>2. ASSUME NEW s \in SUBSET (1..(m + 1)) PROVE g[s] = Left(g, s)
      <3>1. CASE m + 1 \in s
        <4>1. Policy!Max(s) = m + 1
          BY <3>1, MaxIs
        <4>2. s \ {m + 1} \in SUBSET (1..m)
          OBVIOUS
        <4>3. g[s \ {m + 1}] = f[s \ {m + 1}]
          BY <4>2
        <4> HIDE DEF T
        <4> QED BY <3>1, <4>1, <4>3
      <3>2. CASE m + 1 \notin s
        <4>1. s \in SUBSET (1..m)
          <5>1. \A i \in 1..(m + 1) : i # m + 1 => i \in 1..m
            OBVIOUS
          <5> QED BY <3>2, <5>1
        <4>2. g[s] = f[s] /\ g[s \ {Policy!Max(s)}] = f[s \ {Policy!Max(s)}]
          <5>1. /\ s \ {Policy!Max(s)} \in SUBSET (1..(m + 1))
                /\ m + 1 \notin s \ {Policy!Max(s)}
            BY <3>2
          <5> QED BY <3>2, <5>1
        <4>3. f[s] = Left(f, s)
          BY <2>1, <4>1
        <4> HIDE DEF g, T
        <4> QED BY <4>2, <4>3
      <3> QED BY <3>1, <3>2
    <2>3. g = [s \in SUBSET (1..(m + 1)) |-> Left(g, s)]
      BY <2>2
    <2>4. \E h : h = [s \in SUBSET (1..(m + 1)) |-> Left(h, s)]
      <3> HIDE DEF g, Left
      <3> QED BY <2>3
    <2> HIDE DEF g, Left
    <2> QED BY <2>4
  <1> HIDE DEF T
  <1>3. n \in T
    BY <1>1, <1>2, Induction
  <1> QED BY <1>3 DEF T, IsFold

\* Normalize ends where its walk along the parts ends.
LEMMA NormalizeWalks ==
    ASSUME NEW p \in Paths
    PROVE  \E walk :
              /\ IsWalk(walk, [ok |-> TRUE, absolute |-> p.absolute, parts |-> <<>>], p.parts)
              /\ Policy!Normalize(p) = walk[Len(p.parts)]
  <1> DEFINE start == [ok |-> TRUE, absolute |-> p.absolute, parts |-> <<>>]
             n == Len(p.parts)
             parts == p.parts
             f == CHOOSE f : IsFold(f, start, parts, n)
             walk == [k \in 0..n |-> f[1..k]]
  <1>1. n \in Nat /\ DOMAIN parts = 1..n
    BY DEF Paths
  <1>2. Policy!Normalize(p) = f[1..n]
    BY <1>1 DEF Policy!Normalize, Policy!FoldLeft, Policy!MapThenFoldSet, IsFold
  <1> HIDE DEF n, start, parts
  <1>3. \E h : IsFold(h, start, parts, n)
    BY <1>1, FoldIsDefined
  <1>4. f = [s \in SUBSET (1..n) |->
               IF s = {} THEN start
               ELSE Policy!WalkPart(f[s \ {Policy!Max(s)}], parts[Policy!Max(s)])]
    BY <1>3, Zenon DEF IsFold
  <1> HIDE DEF f
  <1>5. walk[0] = start
    <2>1. 1..0 = {} /\ 1..0 \in SUBSET (1..n)
      BY <1>1
    <2> QED BY <1>1, <1>4, <2>1
  <1>6. ASSUME NEW k \in 0..(n - 1) PROVE walk[k + 1] = Policy!WalkPart(walk[k], parts[k + 1])
    <2>1. 1..(k + 1) \in SUBSET (1..n) /\ k + 1 \in 1..(k + 1) /\ k \in Nat /\ n \in Nat
      BY <1>1
    <2>2. Policy!Max(1..(k + 1)) = k + 1
      <3>1. 1..(k + 1) \in SUBSET Int /\ \A i \in 1..(k + 1) : i <= k + 1
        BY <2>1
      <3> HIDE DEF n
      <3> QED BY <2>1, <3>1, MaxIs
    <2>3. (1..(k + 1)) \ {k + 1} = 1..k
      OBVIOUS
    <2>4. f[1..(k + 1)] = Policy!WalkPart(f[1..k], parts[k + 1])
      BY <1>4, <2>1, <2>2, <2>3
    <2> QED BY <1>1, <2>4
  <1>7. walk[n] = f[1..n]
    BY <1>1
  <1>8. IsWalk(walk, start, parts)
    <2> HIDE DEF walk
    <2> QED BY <1>5, <1>6 DEF IsWalk, n, parts
  <1> HIDE DEF walk
  <1> QED BY <1>2, <1>7, <1>8 DEF start, parts, n

\* How many of the first n indices a set has.
Count(S, n) == Cardinality({i \in 1..n : i \in S})

\* Counting, index after index.
LEMMA CountIs ==
    ASSUME NEW S
    PROVE  /\ Count(S, 0) = 0
           /\ \A n \in Nat : /\ Count(S, n) \in Nat
                             /\ Count(S, n + 1) = IF n + 1 \in S THEN Count(S, n) + 1
                                                                 ELSE Count(S, n)
  <1>1. Count(S, 0) = 0
    <2>1. {i \in 1..0 : i \in S} = {}
      OBVIOUS
    <2> QED BY <2>1, FS_EmptySet DEF Count
  <1>2. ASSUME NEW n \in Nat
        PROVE  /\ Count(S, n) \in Nat
               /\ Count(S, n + 1) = IF n + 1 \in S THEN Count(S, n) + 1 ELSE Count(S, n)
    <2> DEFINE before == {i \in 1..n : i \in S}
               now == {i \in 1..(n + 1) : i \in S}
    <2>1. IsFiniteSet(before)
      <3>1. IsFiniteSet(1..n) /\ before \subseteq 1..n
        BY FS_Interval
      <3> QED BY <3>1, FS_Subset
    <2>2. now = IF n + 1 \in S THEN before \cup {n + 1} ELSE before
      <3>1. 1..(n + 1) = (1..n) \cup {n + 1}
        OBVIOUS
      <3> QED BY <3>1
    <2>3. n + 1 \notin before
      OBVIOUS
    <2>4. Cardinality(before \cup {n + 1}) = Cardinality(before) + 1
      BY <2>1, <2>3, FS_AddElement
    <2>5. Cardinality(before) \in Nat
      BY <2>1, FS_CardinalityType
    <2>6. Count(S, n) = Cardinality(before) /\ Count(S, n + 1) = Cardinality(now)
      BY DEF Count
    <2> QED BY <2>2, <2>4, <2>5, <2>6
  <1> QED BY <1>1, <1>2

\* The parts of a path that go down, and those that climb.
Downward(p) == {i \in DOMAIN p.parts : p.parts[i] \notin {"..", "."}}
Upward(p) == {i \in DOMAIN p.parts : p.parts[i] = ".."}

\* What the path has left, after each part: as many parts as names went down and dots did
\* not come back from.
Balanced(p, reached, k) ==
    /\ reached \in [ok : BOOLEAN, absolute : BOOLEAN, parts : Seq(STRING)]
    /\ reached.ok =>
        /\ Len(reached.parts) = Count(Downward(p), k) - Count(Upward(p), k)
        /\ \A n \in 0..k : Count(Upward(p), n) <= Count(Downward(p), n)

\* One part further.
LEMMA PartBalanced ==
    ASSUME NEW p \in Paths, NEW k \in Nat, k + 1 \in DOMAIN p.parts,
           NEW reached, Balanced(p, reached, k)
    PROVE  Balanced(p, Policy!WalkPart(reached, p.parts[k + 1]), k + 1)
  <1> DEFINE part == p.parts[k + 1]
             names == Downward(p)
             dots == Upward(p)
             after == Policy!WalkPart(reached, part)
  <1>1. part \in STRING
    BY DEF Paths
  <1>2. (k + 1 \in names <=> part \notin {"..", "."}) /\ (k + 1 \in dots <=> part = "..")
    BY DEF Downward, Upward
  <1>3. reached \in [ok : BOOLEAN, absolute : BOOLEAN, parts : Seq(STRING)]
    BY DEF Balanced
  <1>4. /\ Count(names, k) \in Nat /\ Count(dots, k) \in Nat
        /\ Count(names, k + 1) = IF k + 1 \in names THEN Count(names, k) + 1 ELSE Count(names, k)
        /\ Count(dots, k + 1) = IF k + 1 \in dots THEN Count(dots, k) + 1 ELSE Count(dots, k)
    BY CountIs
  <1>5. reached.ok => /\ Len(reached.parts) = Count(names, k) - Count(dots, k)
                  /\ \A n \in 0..k : Count(dots, n) <= Count(names, n)
    BY DEF Balanced
  <1>6. /\ after \in [ok : BOOLEAN, absolute : BOOLEAN, parts : Seq(STRING)]
        /\ after.ok => /\ reached.ok
                       /\ \/ part = "." /\ Len(after.parts) = Len(reached.parts)
                          \/ /\ part = ".." /\ reached.parts # <<>>
                             /\ Len(after.parts) = Len(reached.parts) - 1
                          \/ part \notin {".", ".."} /\ Len(after.parts) = Len(reached.parts) + 1
    <2> HIDE DEF part
    <2>1. CASE ~reached.ok \/ part = "."
      BY <1>3, <2>1 DEF Policy!WalkPart
    <2>2. CASE reached.ok /\ part = ".." /\ reached.parts = <<>>
      BY <1>3, <2>2 DEF Policy!WalkPart
    <2>3. CASE reached.ok /\ part = ".." /\ reached.parts # <<>>
      <3>1. Policy!Front(reached.parts) = SubSeq(reached.parts, 1, Len(reached.parts) - 1)
        BY DEF Policy!Front
      <3>2. /\ Len(reached.parts) \in Nat /\ Len(reached.parts) > 0
            /\ reached.parts \in Seq(STRING)
        BY <1>3, <2>3
      <3>3. Policy!Front(reached.parts) \in Seq(STRING)
            /\ Len(Policy!Front(reached.parts)) = Len(reached.parts) - 1
        BY <3>1, <3>2
      <3>4. after = [reached EXCEPT !.parts = Policy!Front(@)]
        BY <2>3 DEF Policy!WalkPart
      <3> HIDE DEF after
      <3> QED BY <1>3, <2>3, <3>3, <3>4
    <2>4. CASE reached.ok /\ part \notin {".", ".."}
      <3>1. after = [reached EXCEPT !.parts = Append(@, part)]
        BY <2>4 DEF Policy!WalkPart
      <3> HIDE DEF after
      <3>2. /\ reached.parts \in Seq(STRING)
            /\ Append(reached.parts, part) \in Seq(STRING)
            /\ Len(Append(reached.parts, part)) = Len(reached.parts) + 1
        BY <1>1, <1>3
      <3>3. after.parts = Append(reached.parts, part) /\ after.ok = reached.ok
            /\ after \in [ok : BOOLEAN, absolute : BOOLEAN, parts : Seq(STRING)]
        BY <1>3, <3>1, <3>2
      <3> QED BY <2>4, <3>2, <3>3
    <2> QED BY <2>1, <2>2, <2>3, <2>4
  <1>7. ASSUME after.ok
        PROVE  /\ Len(after.parts) = Count(names, k + 1) - Count(dots, k + 1)
               /\ \A n \in 0..(k + 1) : Count(dots, n) <= Count(names, n)
    <2> HIDE DEF after, part, names, dots
    <2>1. Len(after.parts) = Count(names, k + 1) - Count(dots, k + 1)
      BY <1>2, <1>4, <1>5, <1>6, <1>7
    <2>2. Len(after.parts) \in Nat
      BY <1>6
    <2>3. Count(dots, k + 1) <= Count(names, k + 1)
      BY <1>4, <2>1, <2>2
    <2>4. \A n \in 0..(k + 1) : n \in 0..k \/ n = k + 1
      OBVIOUS
    <2> QED BY <1>5, <1>6, <1>7, <2>1, <2>3, <2>4
  <1> QED BY <1>6, <1>7 DEF Balanced

\* After the last part: a normal form is only of a path that never climbs above its start.
LEMMA NormalizeBalances ==
    ASSUME NEW p \in Paths
    PROVE  Balanced(p, Policy!Normalize(p), Len(p.parts))
  <1> DEFINE start == [ok |-> TRUE, absolute |-> p.absolute, parts |-> <<>>]
  <1>1. PICK walk : IsWalk(walk, start, p.parts) /\ Policy!Normalize(p) = walk[Len(p.parts)]
    BY NormalizeWalks
  <1> DEFINE T == {k \in Nat : k <= Len(p.parts) => Balanced(p, walk[k], k)}
  <1>2. Len(p.parts) \in Nat /\ DOMAIN p.parts = 1..Len(p.parts)
    BY DEF Paths
  <1>3. 0 \in T
    <2>1. start \in [ok : BOOLEAN, absolute : BOOLEAN, parts : Seq(STRING)] /\ Len(start.parts) = 0
      BY DEF Paths
    <2>2. Count(Downward(p), 0) = 0 /\ Count(Upward(p), 0) = 0
      BY CountIs
    <2>3. walk[0] = start
      BY <1>1 DEF IsWalk
    <2>4. \A n \in 0..0 : Count(Upward(p), n) <= Count(Downward(p), n)
      <3> SUFFICES ASSUME NEW n \in 0..0
                   PROVE  Count(Upward(p), n) <= Count(Downward(p), n)
        OBVIOUS
      <3>1. n = 0
        OBVIOUS
      <3>2. 0 <= 0
        OBVIOUS
      <3> QED BY <2>2, <3>1, <3>2, Zenon
    <2> HIDE DEF start
    <2>5. Len(start.parts) = Count(Downward(p), 0) - Count(Upward(p), 0)
      BY <2>1, <2>2
    <2>6. Balanced(p, start, 0)
      BY <2>1, <2>4, <2>5 DEF Balanced
    <2> QED BY <2>3, <2>6
  <1>4. ASSUME NEW k \in Nat, k \in T PROVE k + 1 \in T
    <2>1. SUFFICES ASSUME k + 1 <= Len(p.parts) PROVE Balanced(p, walk[k + 1], k + 1)
      OBVIOUS
    <2>2. Balanced(p, walk[k], k)
      BY <1>2, <1>4, <2>1
    <2>3. k + 1 \in DOMAIN p.parts /\ k \in 0..(Len(p.parts) - 1)
      BY <1>2, <2>1
    <2>4. walk[k + 1] = Policy!WalkPart(walk[k], p.parts[k + 1])
      BY <1>1, <2>3 DEF IsWalk
    <2> QED BY <2>2, <2>3, <2>4, PartBalanced
  <1> HIDE DEF T
  <1>5. Len(p.parts) \in T
    BY <1>2, <1>3, <1>4, Induction
  <1> QED BY <1>1, <1>2, <1>5 DEF T

\* What is covered by a prefix never climbs above where it starts, and has the prefix.
LEMMA CoveredPaths ==
    ASSUME NEW prefix \in Paths, NEW p \in Paths, Policy!Covers(prefix, p)
    PROVE  /\ \A n \in 0..Len(p.parts) :
                 Policy!Cardinality({i \in 1..n : p.parts[i] = ".."})
                     <= Policy!Cardinality({i \in 1..n : p.parts[i] \notin {"..", "."}})
           /\ Policy!IsPrefix(Policy!Normalize(prefix).parts, Policy!Normalize(p).parts)
  <1> DEFINE from == Policy!Normalize(prefix)
             path == Policy!Normalize(p)
  <1>1. from.ok /\ path.ok /\ Policy!IsUnder(from, path)
    BY DEF Policy!Covers
  <1>2. Balanced(p, path, Len(p.parts)) /\ Balanced(prefix, from, Len(prefix.parts))
    BY NormalizeBalances
  <1> HIDE DEF from, path
  <1>3. ASSUME NEW n \in 0..Len(p.parts)
        PROVE  Policy!Cardinality({i \in 1..n : p.parts[i] = ".."})
                   <= Policy!Cardinality({i \in 1..n : p.parts[i] \notin {"..", "."}})
    <2>1. DOMAIN p.parts = 1..Len(p.parts) /\ Len(p.parts) \in Nat
      BY DEF Paths
    <2>2. /\ {i \in 1..n : p.parts[i] = ".."} = {i \in 1..n : i \in Upward(p)}
          /\ {i \in 1..n : p.parts[i] \notin {"..", "."}} = {i \in 1..n : i \in Downward(p)}
      BY <2>1 DEF Upward, Downward
    <2>3. Count(Upward(p), n) <= Count(Downward(p), n)
      BY <1>1, <1>2 DEF Balanced
    <2> QED BY <2>2, <2>3, CardinalityIs DEF Count
  <1>4. Policy!IsPrefix(from.parts, path.parts)
    <2>1. CASE from.parts = path.parts
      <3>1. Len(from.parts) <= Len(from.parts)
        BY <1>2 DEF Balanced
      <3> QED BY <2>1, <3>1 DEF Policy!IsPrefix
    <2>2. CASE from.parts # path.parts
      BY <1>1, <2>2 DEF Policy!IsUnder
    <2> QED BY <2>1, <2>2
  <1> QED BY <1>3, <1>4 DEF from, path

\* What is decided on is at or below the root, for any root, inputs and layers.
LEMMA StaysInside == Policy!DecisionsAreInsideTheRoot
  <1> SUFFICES ASSUME NEW input \in Inputs, Policy!Evaluate(input) \in {"allow", "ask"},
                      NEW p \in Policy!ToSet(input.requested) \cup Policy!ToSet(input.resolved)
               PROVE  /\ \A n \in 0..Len(p.parts) :
                            Policy!Cardinality({i \in 1..n : p.parts[i] = ".."})
                                <= Policy!Cardinality({i \in 1..n : p.parts[i] \notin {"..", "."}})
                      /\ Policy!IsPrefix(Policy!Normalize(Root).parts, Policy!Normalize(p).parts)
    BY DEF Policy!DecisionsAreInsideTheRoot
  <1>1. /\ input.requested \in Seq(Paths) /\ input.resolved \in Seq(Paths)
        /\ Len(input.requested) <= 1 /\ Len(input.resolved) <= 1
        /\ input.requested = <<>> => input.resolved = <<>>
    BY InputsAssumption
  <1>2. Policy!InsideRoot(input)
    BY DEF Policy!Evaluate
  <1>3. /\ p \in Paths
        /\ \/ input.requested # <<>> /\ p = input.requested[1]
           \/ input.resolved # <<>> /\ p = input.resolved[1]
    BY <1>1 DEF Policy!ToSet
  <1>4. Policy!Covers(Root, p)
    BY <1>1, <1>2, <1>3 DEF Policy!InsideRoot
  <1> QED BY <1>3, <1>4, CoveredPaths, InputsAssumption

-----------------------------------------------------------------------------
(* The theorem about the policy.                                           *)

\* What an organization's layer says is never relaxed and a denial stands, for any rules,
\* inputs and local configurations; a runner that passes the version check decides by
\* the document in force, also after a rollback; and what is decided on is at or below
\* the root: policy.rs, merge_evaluation, validate_workspace_path_inside_root,
\* enforce_managed_policy_version and rollback_managed_policy.
THEOREM OrganizationsAreObeyed == LibrariesSpec => []PolicyIsObeyed
  <1>1. PolicyInv => Policy!CurrentRunnersHaveTheRules
    <2> SUFFICES ASSUME PolicyInv, Policy!RunnerIsCurrent
                 PROVE  snapshot.rules = contents[Len(contents)]
      BY DEF Policy!CurrentRunnersHaveTheRules
    <2>1. published.version \in Nat /\ snapshot.version \in Nat
      BY DEF PolicyInv, Revisions, Policy!None
    <2> QED BY <2>1 DEF PolicyInv, Policy!RunnerIsCurrent
  <1>2. PolicyInv => PolicyIsObeyed
    BY <1>1, Obeyed, StaysInside DEF PolicyIsObeyed
  <1> QED BY <1>2, PolicyInvariance, PolicyIsAPart, PTL

-----------------------------------------------------------------------------
(* The configuration                                                       *)

\* A configuration in memory: every profile has all keys, and version 1 is migrated.
Fields == {"serverUrl", "hostHeader", "organizationId", "runnerId"}
IsProfile(r) == r = [k \in Fields |-> r[k]]
IsConfig(c) ==
    /\ c = [version |-> c.version, selected |-> c.selected, profiles |-> c.profiles]
    /\ c.version \in Int /\ c.version # 1
    /\ IsMap(c.profiles)
    /\ {"default", "prod", "stage", "local"} \subseteq DOMAIN c.profiles
    /\ \A n \in DOMAIN c.profiles : IsProfile(c.profiles[n])

IsChange(ch) == ch.select = Config!None => (DOMAIN ch.values) \subseteq Fields

\* What is read of a configuration once it is saved.
ReadBack(c) ==
    [c EXCEPT !.profiles["local"].hostHeader =
        IF @ = Config!None THEN Config!Defaults.profiles["local"].hostHeader ELSE @]

\* The profile that the file's keys are overlaid on.
DefaultOf(n) == IF n \in {"default", "prod", "stage", "local"} THEN Config!Defaults.profiles[n]
                                                              ELSE Config!DefaultProd

\* The keys that CliConfig takes from the built-in profile.
LEMMA KeysAre == Config!Keys = Fields
  BY DEF Config!Keys, Config!DefaultProd, Config!Profile, Fields

\* The built-in configuration is one; only its local profile has a host header.
LEMMA DefaultsAre ==
    /\ IsConfig(Config!Defaults)
    /\ DOMAIN Config!Defaults.profiles = {"default", "prod", "stage", "local"}
    /\ Config!Valid(Config!Defaults)
    /\ \A n : /\ IsProfile(DefaultOf(n))
              /\ DefaultOf(n)["organizationId"] = Config!None
              /\ DefaultOf(n)["runnerId"] = Config!None
              /\ DefaultOf(n)["hostHeader"] = IF n = "local" THEN "localhost" ELSE Config!None
    /\ Config!Defaults.profiles["local"].hostHeader = "localhost"
    /\ Config!None # "localhost"
  <1> DEFINE D == Config!Defaults
             P == Config!DefaultProd
  <1>1. /\ P = [k \in Fields |-> IF k = "serverUrl" THEN "prod" ELSE Config!None]
        /\ \A url, host : Config!Profile(url, host) =
               [k \in Fields |-> IF k = "serverUrl" THEN url
                                 ELSE IF k = "hostHeader" THEN host ELSE Config!None]
    BY DEF Config!DefaultProd, Config!Profile, Fields
  <1>2. D = [version |-> 2, selected |-> "default",
             profiles |-> [default |-> P, prod |-> P,
                           stage |-> Config!Profile("stage", Config!None),
                           local |-> Config!Profile("local", "localhost")]]
    BY DEF Config!Defaults, Config!CurrentVersion
  <1> HIDE DEF D, P
  <1>3. /\ DOMAIN D.profiles = {"default", "prod", "stage", "local"}
        /\ IsMap(D.profiles)
        /\ D.profiles["default"] = P /\ D.profiles["prod"] = P
        /\ D.profiles["stage"] = Config!Profile("stage", Config!None)
        /\ D.profiles["local"] = Config!Profile("local", "localhost")
    BY <1>2 DEF IsMap
  <1>4. IsProfile(P) /\ \A url, host : IsProfile(Config!Profile(url, host))
    BY <1>1 DEF IsProfile
  <1>5. IsConfig(D)
    <2>1. \A n \in DOMAIN D.profiles : IsProfile(D.profiles[n])
      BY <1>3, <1>4
    <2>2. D = [version |-> D.version, selected |-> D.selected, profiles |-> D.profiles]
          /\ D.version = 2
      BY <1>2
    <2> QED BY <1>3, <2>1, <2>2 DEF IsConfig
  <1>6. D.profiles["local"].hostHeader = "localhost" /\ Config!None # "localhost"
    BY <1>1, <1>3 DEF Fields, Config!None
  <1>7. ASSUME NEW n
        PROVE  /\ IsProfile(DefaultOf(n))
               /\ DefaultOf(n)["organizationId"] = Config!None
               /\ DefaultOf(n)["runnerId"] = Config!None
               /\ DefaultOf(n)["hostHeader"] = IF n = "local" THEN "localhost" ELSE Config!None
    <2>1. DefaultOf(n) = IF n \in {"default", "prod", "stage", "local"} THEN D.profiles[n] ELSE P
      BY DEF DefaultOf, D, P
    <2>2. CASE n = "local"
      <3>1. DefaultOf(n) = Config!Profile("local", "localhost")
        BY <1>3, <2>1, <2>2
      <3> QED BY <1>1, <1>4, <2>2, <3>1 DEF Fields
    <2>3. CASE n = "stage"
      <3>1. DefaultOf(n) = Config!Profile("stage", Config!None)
        BY <1>3, <2>1, <2>3
      <3> QED BY <1>1, <1>4, <2>3, <3>1 DEF Fields
    <2>4. CASE n \notin {"local", "stage"}
      <3>1. DefaultOf(n) = P
        BY <1>3, <2>1, <2>4
      <3> QED BY <1>1, <1>4, <2>4, <3>1 DEF Fields
    <2> QED BY <2>2, <2>3, <2>4
  <1>8. Config!Valid(D)
    <2>1. \A n \in DOMAIN D.profiles :
              /\ D.profiles[n].serverUrl \in {"prod", "stage", "local"}
              /\ D.profiles[n].hostHeader # Config!None => n = "local"
      BY <1>1, <1>3 DEF Fields
    <2>2. D.version = 2 /\ D.selected = "default"
      BY <1>2
    <2> QED BY <2>1, <2>2 DEF Config!Valid, Config!ValidProfile, Config!Urls, Config!Blank
  <1> QED BY <1>3, <1>5, <1>6, <1>7, <1>8 DEF D

\* Reading back changes the host header of the local profile, where it is not set.
LEMMA ReadBackIs ==
    ASSUME NEW c, IsConfig(c)
    PROVE  /\ IsConfig(ReadBack(c))
           /\ ReadBack(c).version = c.version /\ ReadBack(c).selected = c.selected
           /\ DOMAIN ReadBack(c).profiles = DOMAIN c.profiles
           /\ \A n \in DOMAIN c.profiles, k \in Fields :
                  ReadBack(c).profiles[n][k] =
                      IF n = "local" /\ k = "hostHeader" /\ c.profiles[n][k] = Config!None
                      THEN "localhost" ELSE c.profiles[n][k]
  <1> DEFINE host == IF c.profiles["local"].hostHeader = Config!None THEN "localhost"
                     ELSE c.profiles["local"].hostHeader
             changed == [c.profiles["local"] EXCEPT !.hostHeader = host]
             profiles == [c.profiles EXCEPT !["local"] = changed]
  <1>1. Config!Defaults.profiles["local"].hostHeader = "localhost"
    BY DefaultsAre
  <1>2. ReadBack(c) = [c EXCEPT !.profiles = profiles]
    BY <1>1 DEF ReadBack
  <1>3. /\ c = [version |-> c.version, selected |-> c.selected, profiles |-> c.profiles]
        /\ IsMap(c.profiles) /\ "local" \in DOMAIN c.profiles
        /\ \A n \in DOMAIN c.profiles : c.profiles[n] = [k \in Fields |-> c.profiles[n][k]]
    BY DEF IsConfig, IsProfile, IsMap
  <1>4. /\ changed = [k \in Fields |-> IF k = "hostHeader" THEN host ELSE c.profiles["local"][k]]
    BY <1>3 DEF Fields
  <1> HIDE DEF changed, host
  <1>5. /\ DOMAIN profiles = DOMAIN c.profiles /\ profiles["local"] = changed
        /\ IsMap(profiles)
        /\ \A n \in DOMAIN profiles : n # "local" => profiles[n] = c.profiles[n]
    BY <1>3 DEF IsMap
  <1> HIDE DEF profiles
  <1>6. ReadBack(c) = [version |-> c.version, selected |-> c.selected, profiles |-> profiles]
    BY <1>2, <1>3
  <1>7. IsProfile(changed)
    BY <1>4 DEF IsProfile
  <1>8. IsConfig(ReadBack(c))
    BY <1>5, <1>6, <1>7 DEF IsConfig
  <1>9. \A n \in DOMAIN c.profiles, k \in Fields :
            profiles[n][k] = IF n = "local" /\ k = "hostHeader" /\ c.profiles[n][k] = Config!None
                             THEN "localhost" ELSE c.profiles[n][k]
    BY <1>4, <1>5 DEF host, Fields
  <1> QED BY <1>5, <1>6, <1>8, <1>9

\* Configurations with the same keys are the same.
LEMMA SameConfig ==
    ASSUME NEW c, NEW d, IsConfig(c), IsConfig(d), c.version = d.version,
           c.selected = d.selected, DOMAIN c.profiles = DOMAIN d.profiles,
           \A n \in DOMAIN c.profiles, k \in Fields : c.profiles[n][k] = d.profiles[n][k]
    PROVE  c = d
  <1>1. \A n \in DOMAIN c.profiles : c.profiles[n] = d.profiles[n]
    BY DEF IsConfig, IsProfile, IsMap
  <1>2. c.profiles = d.profiles
    BY <1>1 DEF IsConfig, IsMap
  <1> QED BY <1>2 DEF IsConfig

\* SetProfile adds or changes one profile.
LEMMA SetProfileIs ==
    ASSUME NEW P, NEW name, NEW values
    PROVE  /\ IsMap(Config!SetProfile(P, name, values))
           /\ DOMAIN Config!SetProfile(P, name, values) = {name} \cup DOMAIN P
           /\ \A n \in DOMAIN P : n # name => Config!SetProfile(P, name, values)[n] = P[n]
           /\ IsProfile(Config!SetProfile(P, name, values)[name])
  <1> DEFINE before == IF name \in DOMAIN P THEN P[name] ELSE Config!DefaultProd
             new == [k \in Fields |-> IF k \in DOMAIN values THEN values[k] ELSE before[k]]
             result == Config!SetProfile(P, name, values)
  <1>1. result = [n \in {name} \cup DOMAIN P |-> IF n # name THEN P[n] ELSE new]
    BY KeysAre DEF Config!SetProfile
  <1>2. IsProfile(new)
    BY DEF IsProfile
  <1> HIDE DEF result, new
  <1> QED BY <1>1, <1>2 DEF result, IsMap

\* The keys of the profile that SetProfile changes.
LEMMA SetKeyIs ==
    ASSUME NEW P, NEW name, NEW values, NEW k \in Fields
    PROVE  Config!SetProfile(P, name, values)[name][k] =
               IF k \in DOMAIN values THEN values[k]
               ELSE IF name \in DOMAIN P THEN P[name][k] ELSE Config!DefaultProd[k]
  BY KeysAre DEF Config!SetProfile

\* A configuration that is changed is one.
LEMMA AppliedIs ==
    ASSUME NEW c, IsConfig(c), NEW ch, IsChange(ch)
    PROVE  IsConfig(Config!Applied(c, ch))
  <1>1. /\ c = [version |-> c.version, selected |-> c.selected, profiles |-> c.profiles]
        /\ c.version \in Int /\ c.version # 1
        /\ {"default", "prod", "stage", "local"} \subseteq DOMAIN c.profiles
        /\ \A n \in DOMAIN c.profiles : IsProfile(c.profiles[n])
    BY DEF IsConfig
  <1>2. CASE ch.select # Config!None
    BY <1>1, <1>2 DEF Config!Applied, IsConfig
  <1>3. CASE ch.select = Config!None
    <2> DEFINE new == Config!SetProfile(c.profiles, ch.name, ch.values)
    <2>1. Config!Applied(c, ch) = [version |-> c.version, selected |-> c.selected, profiles |-> new]
      BY <1>1, <1>3 DEF Config!Applied
    <2>2. /\ IsMap(new)
          /\ DOMAIN new = {ch.name} \cup DOMAIN c.profiles
          /\ \A n \in DOMAIN c.profiles : n # ch.name => new[n] = c.profiles[n]
          /\ IsProfile(new[ch.name])
      <3>1. IsMap(new)
        BY SetProfileIs
      <3>2. DOMAIN new = {ch.name} \cup DOMAIN c.profiles
        BY SetProfileIs
      <3>3. \A n \in DOMAIN c.profiles : n # ch.name => new[n] = c.profiles[n]
        BY DEF Config!SetProfile
      <3>4. IsProfile(new[ch.name])
        BY SetProfileIs
      <3> QED BY <3>1, <3>2, <3>3, <3>4
    <2> HIDE DEF new
    <2>3. \A n \in DOMAIN new : IsProfile(new[n])
      BY <1>1, <2>2
    <2> QED BY <1>1, <2>1, <2>2, <2>3 DEF IsConfig
  <1> QED BY <1>2, <1>3

\* The sections of a file that have a key.
SectionsOf(d) == {n \in DOMAIN d.profiles : DOMAIN d.profiles[n] # {}}

\* The keys of a file win over those of the built-in profiles.
LEMMA OverlaidIs ==
    ASSUME NEW d, IsDocument(d)
    PROVE  /\ IsMap(Config!Overlaid(d))
           /\ DOMAIN Config!Overlaid(d)
                  = {"default", "prod", "stage", "local"} \cup SectionsOf(d)
           /\ \A n \in DOMAIN Config!Overlaid(d) :
                /\ IsProfile(Config!Overlaid(d)[n])
                /\ \A k \in Fields :
                    Config!Overlaid(d)[n][k] =
                        IF n \in SectionsOf(d) /\ k \in DOMAIN d.profiles[n]
                        THEN d.profiles[n][k] ELSE DefaultOf(n)[k]
  <1> DEFINE result == Config!Overlaid(d)
             P == Config!Defaults.profiles
             names == SectionsOf(d)
  <1>1. result = [n \in DOMAIN P \cup names |->
            IF n \in names THEN Config!SetProfile(P, n, d.profiles[n])[n] ELSE P[n]]
    BY DEF Config!Overlaid, SectionsOf
  <1>2. /\ DOMAIN P = {"default", "prod", "stage", "local"}
        /\ \A n : IsProfile(DefaultOf(n))
        /\ \A n \in DOMAIN P : DefaultOf(n) = P[n]
        /\ \A n : n \notin DOMAIN P => DefaultOf(n) = Config!DefaultProd
    BY DefaultsAre DEF DefaultOf
  <1> HIDE DEF result, P
  <1>3. IsMap(result) /\ DOMAIN result = {"default", "prod", "stage", "local"} \cup names
    BY <1>1, <1>2 DEF IsMap
  <1>4. ASSUME NEW n \in DOMAIN result
        PROVE  /\ IsProfile(result[n])
               /\ \A k \in Fields :
                   result[n][k] = IF n \in names /\ k \in DOMAIN d.profiles[n] THEN d.profiles[n][k]
                                  ELSE DefaultOf(n)[k]
    <2>1. CASE n \notin names
      <3>1. result[n] = DefaultOf(n)
        BY <1>1, <1>2, <1>3, <2>1
      <3> QED BY <1>2, <2>1, <3>1
    <2>2. CASE n \in names
      <3> DEFINE own == Config!SetProfile(P, n, d.profiles[n])[n]
      <3>1. result[n] = own
        BY <1>1, <1>3, <2>2
      <3>2. IsProfile(own)
        BY SetProfileIs
      <3>3. \A k \in Fields : own[k] =
                IF k \in DOMAIN d.profiles[n] THEN d.profiles[n][k]
                ELSE IF n \in DOMAIN P THEN P[n][k] ELSE Config!DefaultProd[k]
        BY SetKeyIs
      <3> HIDE DEF own
      <3> QED BY <1>2, <2>2, <3>1, <3>2, <3>3
    <2> QED BY <2>1, <2>2
  <1> QED BY <1>3, <1>4 DEF result

\* What a file parses to; apart from a migrated URL it is what its keys say.
LEMMA ParsedIs ==
    ASSUME NEW d, IsDocument(d)
    PROVE  /\ IsConfig(Config!Parsed(d))
           /\ Config!Parsed(d).selected = d.selected
           /\ Config!Parsed(d).version = IF d.version \in {1, 2} THEN 2 ELSE d.version
           /\ DOMAIN Config!Parsed(d).profiles
                  = {"default", "prod", "stage", "local"} \cup SectionsOf(d)
           /\ \A n \in DOMAIN Config!Parsed(d).profiles, k \in Fields :
                  d.version >= 2 \/ k # "serverUrl" =>
                      Config!Parsed(d).profiles[n][k] =
                        IF n \in SectionsOf(d) /\ k \in DOMAIN d.profiles[n]
                        THEN d.profiles[n][k] ELSE DefaultOf(n)[k]
           /\ Config!Parsed(d).profiles["local"]["hostHeader"] # Config!None
  <1> DEFINE P == Config!Overlaid(d)
             new == Config!Migrated(d.version, P)
             own == [P["local"] EXCEPT !.serverUrl = "local"]
             result == Config!Parsed(d)
  <1>1. result = [version |-> IF d.version \in {1, 2} THEN 2 ELSE d.version,
                  selected |-> d.selected, profiles |-> new]
    <2>1. \A v : v \in 1..2 <=> v \in {1, 2}
      OBVIOUS
    <2> QED BY <2>1 DEF Config!Parsed, Config!CurrentVersion
  <1>2. /\ IsMap(P) /\ DOMAIN P = {"default", "prod", "stage", "local"} \cup SectionsOf(d)
        /\ \A n \in DOMAIN P : IsProfile(P[n])
        /\ \A n \in DOMAIN P, k \in Fields :
              P[n][k] = IF n \in SectionsOf(d) /\ k \in DOMAIN d.profiles[n]
                        THEN d.profiles[n][k] ELSE DefaultOf(n)[k]
    BY OverlaidIs
  <1>3. new = P \/ (d.version < 2 /\ new = [P EXCEPT !["local"] = own])
    <2>1. CASE d.version < 2 /\ P["local"].serverUrl = "legacy"
      BY <2>1 DEF Config!Migrated
    <2>2. CASE ~(d.version < 2 /\ P["local"].serverUrl = "legacy")
      BY <2>2 DEF Config!Migrated
    <2> QED BY <2>1, <2>2
  <1> HIDE DEF result, new, P
  <1>4. own = [k \in Fields |-> IF k = "serverUrl" THEN "local" ELSE P["local"][k]]
    BY <1>2 DEF IsProfile, Fields
  <1> HIDE DEF own
  <1>5. /\ IsMap(new) /\ DOMAIN new = DOMAIN P
        /\ \A n \in DOMAIN new : IsProfile(new[n])
        /\ \A n \in DOMAIN new, k \in Fields :
              d.version >= 2 \/ k # "serverUrl" => new[n][k] = P[n][k]
    <2>1. CASE new = P
      BY <1>2, <2>1
    <2>2. CASE d.version < 2 /\ new = [P EXCEPT !["local"] = own]
      <3>1. IsProfile(own) /\ \A k \in Fields : k # "serverUrl" => own[k] = P["local"][k]
        BY <1>4 DEF IsProfile
      <3>2. /\ IsMap(new) /\ DOMAIN new = DOMAIN P /\ new["local"] = own
            /\ \A n \in DOMAIN new : n # "local" => new[n] = P[n]
        BY <1>2, <2>2 DEF IsMap
      <3>3. ~(d.version >= 2)
        BY <2>2 DEF IsDocument
      <3> QED BY <1>2, <3>1, <3>2, <3>3
    <2> QED BY <1>3, <2>1, <2>2
  <1>6. IsConfig(result)
    <2>1. result.version \in Int /\ result.version # 1
      BY <1>1 DEF IsDocument
    <2> QED BY <1>1, <1>2, <1>5, <2>1 DEF IsConfig
  <1>7. new["local"]["hostHeader"] # Config!None
    <2>1. DefaultOf("local")["hostHeader"] # Config!None
      BY DefaultsAre
    <2> QED BY <1>2, <1>5, <2>1 DEF IsDocument, SectionsOf, Fields
  <1> QED BY <1>1, <1>2, <1>5, <1>6, <1>7 DEF result

\* What is written are the keys that are set.
LEMMA ToDocumentIs ==
    ASSUME NEW c, IsConfig(c)
    PROVE  /\ IsDocument(Config!ToDocument(c))
           /\ Config!ToDocument(c).version = c.version
           /\ Config!ToDocument(c).selected = c.selected
           /\ DOMAIN Config!ToDocument(c).profiles = DOMAIN c.profiles
           /\ \A n \in DOMAIN c.profiles :
                /\ DOMAIN Config!ToDocument(c).profiles[n]
                       = {k \in Fields : c.profiles[n][k] # Config!None}
                /\ \A k \in Fields : c.profiles[n][k] # Config!None =>
                       Config!ToDocument(c).profiles[n][k] = c.profiles[n][k]
  <1> DEFINE stripped == [n \in DOMAIN c.profiles |->
                [k \in {k2 \in Fields : c.profiles[n][k2] # Config!None} |-> c.profiles[n][k]]]
  <1>1. /\ c = [version |-> c.version, selected |-> c.selected, profiles |-> c.profiles]
        /\ c.version \in Int
        /\ \A n \in DOMAIN c.profiles : DOMAIN c.profiles[n] = Fields
    BY DEF IsConfig, IsProfile
  <1> DEFINE Kept(n) == {k \in DOMAIN c.profiles[n] : c.profiles[n][k] # Config!None}
             restricted == [n \in DOMAIN c.profiles |-> Config!Restrict(c.profiles[n], Kept(n))]
  <1>2. Config!ToDocument(c) = [c EXCEPT !.profiles = restricted]
    BY DEF Config!ToDocument
  <1>3. restricted = stripped
    <2>1. \A n \in DOMAIN c.profiles : Config!Restrict(c.profiles[n], Kept(n)) = stripped[n]
      BY <1>1 DEF Config!Restrict
    <2> QED BY <2>1
  <1> HIDE DEF restricted, stripped
  <1>4. Config!ToDocument(c) =
            [version |-> c.version, selected |-> c.selected, profiles |-> stripped]
    BY <1>1, <1>2, <1>3
  <1>5. IsMap(stripped) /\ DOMAIN stripped = DOMAIN c.profiles
        /\ \A n \in DOMAIN c.profiles :
             /\ IsMap(stripped[n])
             /\ DOMAIN stripped[n] = {k \in Fields : c.profiles[n][k] # Config!None}
             /\ \A k \in DOMAIN stripped[n] : stripped[n][k] = c.profiles[n][k]
    BY DEF IsMap, stripped
  <1> QED BY <1>1, <1>4, <1>5, KeysAre DEF IsDocument

\* What is read back of a valid configuration is valid.
LEMMA ValidReadBack ==
    ASSUME NEW c, IsConfig(c), Config!Valid(c)
    PROVE  Config!Valid(ReadBack(c))
  <1>1. /\ ReadBack(c).version = c.version /\ ReadBack(c).selected = c.selected
        /\ DOMAIN ReadBack(c).profiles = DOMAIN c.profiles
    BY ReadBackIs
  <1>2. ASSUME NEW n \in DOMAIN c.profiles
        PROVE  Config!ValidProfile(n, ReadBack(c).profiles[n])
    <2>1. \A k \in Fields : ReadBack(c).profiles[n][k] =
              IF n = "local" /\ k = "hostHeader" /\ c.profiles[n][k] = Config!None
              THEN "localhost" ELSE c.profiles[n][k]
      BY ReadBackIs
    <2>2. Config!ValidProfile(n, c.profiles[n])
      BY DEF Config!Valid
    <2>3. ReadBack(c).profiles[n]["serverUrl"] = c.profiles[n]["serverUrl"]
      BY <2>1 DEF Fields
    <2>4. \/ ReadBack(c).profiles[n]["hostHeader"] = c.profiles[n]["hostHeader"]
          \/ n = "local"
      BY <2>1 DEF Fields
    <2> QED BY <2>2, <2>3, <2>4 DEF Config!ValidProfile
  <1> QED BY <1>1, <1>2 DEF Config!Valid

\* What is saved is read back.
LEMMA RoundTrip ==
    ASSUME NEW c, IsConfig(c), Config!Valid(c), Config!Blank \notin DOMAIN c.profiles
    PROVE  /\ Config!Loads(Config!ToDocument(c))
           /\ Config!Loaded(Config!ToDocument(c)) = ReadBack(c)
  <1> DEFINE d == Config!ToDocument(c)
             p == Config!Parsed(d)
  <1>1. /\ IsDocument(d) /\ d.version = c.version /\ d.selected = c.selected
        /\ DOMAIN d.profiles = DOMAIN c.profiles
        /\ \A n \in DOMAIN c.profiles :
             /\ DOMAIN d.profiles[n] = {k \in Fields : c.profiles[n][k] # Config!None}
             /\ \A k \in Fields : c.profiles[n][k] # Config!None =>
                    d.profiles[n][k] = c.profiles[n][k]
    BY ToDocumentIs
  <1> HIDE DEF d
  <1>2. c.version >= 2 /\ c.version \in Int
    BY DEF Config!Valid, IsConfig
  <1>3. /\ IsConfig(p) /\ p.selected = d.selected
        /\ p.version = IF d.version \in {1, 2} THEN 2 ELSE d.version
        /\ DOMAIN p.profiles = {"default", "prod", "stage", "local"} \cup SectionsOf(d)
        /\ \A n \in DOMAIN p.profiles, k \in Fields :
               d.version >= 2 \/ k # "serverUrl" =>
                   p.profiles[n][k] =
                     IF n \in SectionsOf(d) /\ k \in DOMAIN d.profiles[n]
                     THEN d.profiles[n][k] ELSE DefaultOf(n)[k]
    BY <1>1, ParsedIs
  <1> HIDE DEF p
  <1>4. SectionsOf(d) = DOMAIN c.profiles
    <2>1. ASSUME NEW n \in DOMAIN c.profiles PROVE "serverUrl" \in DOMAIN d.profiles[n]
      <3>1. c.profiles[n]["serverUrl"] # Config!None
        BY DEF Config!Valid, Config!ValidProfile, Config!Urls, Config!None
      <3> QED BY <1>1, <3>1 DEF Fields
    <2> QED BY <1>1, <2>1 DEF SectionsOf
  <1>5. /\ p.version = c.version /\ p.selected = c.selected
        /\ DOMAIN p.profiles = DOMAIN c.profiles
    BY <1>1, <1>2, <1>3, <1>4 DEF IsConfig
  <1>6. ASSUME NEW n \in DOMAIN c.profiles, NEW k \in Fields
        PROVE  p.profiles[n][k] = ReadBack(c).profiles[n][k]
    <2>1. p.profiles[n][k] = IF c.profiles[n][k] # Config!None THEN c.profiles[n][k]
                             ELSE DefaultOf(n)[k]
      BY <1>1, <1>2, <1>3, <1>5, <1>4
    <2>2. ReadBack(c).profiles[n][k] =
              IF n = "local" /\ k = "hostHeader" /\ c.profiles[n][k] = Config!None
              THEN "localhost" ELSE c.profiles[n][k]
      BY ReadBackIs
    <2>3. c.profiles[n]["serverUrl"] # Config!None
      BY DEF Config!Valid, Config!ValidProfile, Config!Urls, Config!None
    <2>4. /\ DefaultOf(n)["organizationId"] = Config!None
          /\ DefaultOf(n)["runnerId"] = Config!None
          /\ DefaultOf(n)["hostHeader"] = IF n = "local" THEN "localhost" ELSE Config!None
      BY DefaultsAre
    <2> QED BY <2>1, <2>2, <2>3, <2>4 DEF Fields
  <1>7. p = ReadBack(c)
    <2>1. /\ IsConfig(ReadBack(c)) /\ ReadBack(c).version = c.version
          /\ ReadBack(c).selected = c.selected
          /\ DOMAIN ReadBack(c).profiles = DOMAIN c.profiles
      BY ReadBackIs
    <2> QED BY <1>3, <1>5, <1>6, <2>1, SameConfig
  <1>8. Config!Valid(p)
    BY <1>7, ValidReadBack
  <1>9. DOMAIN d.profiles # {} /\ Config!Blank \notin DOMAIN d.profiles
    BY <1>1 DEF IsConfig
  <1>10. d \notin {Config!NoDocument, Config!Empty, Config!Garbled}
    <2>1. DOMAIN d = {"version", "selected", "profiles"}
      BY <1>1 DEF IsDocument
    <2>2. /\ DOMAIN Config!NoDocument = {"missing"} /\ DOMAIN Config!Empty = {"missing"}
          /\ DOMAIN Config!Garbled = {"missing", "readable"}
          /\ "missing" \notin {"version", "selected", "profiles"}
      BY DEF Config!NoDocument, Config!Empty, Config!Garbled
    <2> QED BY <2>1, <2>2
  <1> QED BY <1>7, <1>8, <1>9, <1>10 DEF Config!Loads, Config!Loaded, d, p

\* A configuration d has what a change makes of a configuration c.
HasApplied(c, ch, d) ==
    /\ d.version = c.version
    /\ d.selected = IF ch.select # Config!None THEN ch.select ELSE c.selected
    /\ DOMAIN d.profiles = IF ch.select # Config!None THEN DOMAIN c.profiles
                           ELSE {ch.name} \cup DOMAIN c.profiles
    /\ \A n \in DOMAIN d.profiles, k \in Fields :
           d.profiles[n][k] =
               IF ch.select # Config!None \/ n # ch.name THEN c.profiles[n][k]
               ELSE IF k \in DOMAIN ch.values THEN ch.values[k]
               ELSE IF n \in DOMAIN c.profiles THEN c.profiles[n][k]
               ELSE Config!DefaultProd[k]

\* The keys of a configuration that is changed.
LEMMA AppliedValues ==
    ASSUME NEW c, IsConfig(c), NEW ch
    PROVE  HasApplied(c, ch, Config!Applied(c, ch))
  <1>1. c = [version |-> c.version, selected |-> c.selected, profiles |-> c.profiles]
    BY DEF IsConfig
  <1>2. CASE ch.select # Config!None
    BY <1>1, <1>2 DEF Config!Applied, HasApplied
  <1>3. CASE ch.select = Config!None
    <2> DEFINE new == Config!SetProfile(c.profiles, ch.name, ch.values)
    <2>1. Config!Applied(c, ch) = [version |-> c.version, selected |-> c.selected, profiles |-> new]
      BY <1>1, <1>3 DEF Config!Applied
    <2>2. DOMAIN new = {ch.name} \cup DOMAIN c.profiles
      BY SetProfileIs
    <2>3. \A n \in DOMAIN c.profiles : n # ch.name => new[n] = c.profiles[n]
      BY DEF Config!SetProfile
    <2>4. \A k \in Fields : new[ch.name][k] =
              IF k \in DOMAIN ch.values THEN ch.values[k]
              ELSE IF ch.name \in DOMAIN c.profiles THEN c.profiles[ch.name][k]
              ELSE Config!DefaultProd[k]
      BY SetKeyIs
    <2> HIDE DEF new
    <2> QED BY <1>3, <2>1, <2>2, <2>3, <2>4 DEF HasApplied
  <1> QED BY <1>2, <1>3

\* A change of what was read back is the change of what was meant.
LEMMA ChangeReadBack ==
    ASSUME NEW c, IsConfig(c), NEW ch, IsChange(ch)
    PROVE  ReadBack(Config!Applied(ReadBack(c), ch)) = ReadBack(Config!Applied(c, ch))
  <1> DEFINE read == ReadBack(c)
             a == Config!Applied(c, ch)
             b == Config!Applied(read, ch)
  <1>1. /\ IsConfig(read) /\ read.version = c.version /\ read.selected = c.selected
        /\ DOMAIN read.profiles = DOMAIN c.profiles
        /\ \A n \in DOMAIN c.profiles, k \in Fields :
              read.profiles[n][k] =
                  IF n = "local" /\ k = "hostHeader" /\ c.profiles[n][k] = Config!None
                  THEN "localhost" ELSE c.profiles[n][k]
    BY ReadBackIs
  <1> HIDE DEF read
  <1>2. IsConfig(a) /\ IsConfig(b)
    BY <1>1, AppliedIs
  <1>3. HasApplied(c, ch, a)
    BY AppliedValues
  <1>4. HasApplied(read, ch, b)
    BY <1>1, AppliedValues
  <1> HIDE DEF a, b
  <1>5. a.version = b.version /\ a.selected = b.selected /\ DOMAIN a.profiles = DOMAIN b.profiles
    BY <1>1, <1>3, <1>4 DEF HasApplied
  <1>6. /\ IsConfig(ReadBack(a)) /\ ReadBack(a).version = a.version
        /\ ReadBack(a).selected = a.selected /\ DOMAIN ReadBack(a).profiles = DOMAIN a.profiles
        /\ \A n \in DOMAIN a.profiles, k \in Fields : ReadBack(a).profiles[n][k] =
               IF n = "local" /\ k = "hostHeader" /\ a.profiles[n][k] = Config!None
               THEN "localhost" ELSE a.profiles[n][k]
    BY <1>2, ReadBackIs
  <1>7. /\ IsConfig(ReadBack(b)) /\ ReadBack(b).version = b.version
        /\ ReadBack(b).selected = b.selected /\ DOMAIN ReadBack(b).profiles = DOMAIN b.profiles
        /\ \A n \in DOMAIN b.profiles, k \in Fields : ReadBack(b).profiles[n][k] =
               IF n = "local" /\ k = "hostHeader" /\ b.profiles[n][k] = Config!None
               THEN "localhost" ELSE b.profiles[n][k]
    BY <1>2, ReadBackIs
  <1>8. ASSUME NEW n \in DOMAIN a.profiles, NEW k \in Fields
        PROVE  ReadBack(b).profiles[n][k] = ReadBack(a).profiles[n][k]
    <2>1. \/ b.profiles[n][k] = a.profiles[n][k]
          \/ /\ n = "local" /\ k = "hostHeader" /\ a.profiles[n][k] = Config!None
             /\ b.profiles[n][k] = "localhost"
      BY <1>1, <1>3, <1>4, <1>5 DEF HasApplied
    <2>2. Config!None # "localhost"
      BY DefaultsAre
    <2> QED BY <1>5, <1>6, <1>7, <2>1, <2>2
  <1> QED BY <1>5, <1>6, <1>7, <1>8, SameConfig DEF a, b, read


Working == {"create", "write", "rename"}
Work(step, change, revised) == [step |-> step, change |-> change, config |-> revised]

IsFile(f) == f \in {Config!NoDocument, Config!Empty, Config!Garbled} \/ IsDocument(f)

\* The file is one that can be saved; a command at work has the lock, has changed what the
\* file still says, and is about to rename what it was to write.
ConfigInv ==
    /\ IsFile(file)
    /\ expected # Config!Unknown => IsConfig(expected)
    /\ Config!SettingsAreKept
    /\ IsMap(editing) /\ DOMAIN editing = Editors
    /\ \A p \in Editors :
        /\ editing[p].step # "idle" => holder = p
        /\ editing[p].step \in Working =>
            /\ editing[p] = Work(editing[p].step, editing[p].change, editing[p].config)
            /\ Config!Loads(file) /\ IsChange(editing[p].change)
            /\ editing[p].config = Config!Applied(Config!Loaded(file), editing[p].change)
            /\ Config!Valid(editing[p].config)
        /\ editing[p].step = "rename" => temp \in Config!Written(editing[p].config)

\* What is loaded is a configuration, whatever the file is.
LEMMA LoadedIs ==
    ASSUME IsFile(file), Config!Loads(file)
    PROVE  IsConfig(Config!Loaded(file))
  <1>1. file # Config!Garbled
    BY DEF Config!Loads, Config!Garbled, Config!NoDocument, Config!Empty
  <1>2. CASE file \in {Config!NoDocument, Config!Empty}
    BY <1>2, DefaultsAre DEF Config!Loaded
  <1>3. CASE IsDocument(file) /\ file \notin {Config!NoDocument, Config!Empty}
    BY <1>3, ParsedIs DEF Config!Loaded
  <1> QED BY <1>2, <1>3, <1>1 DEF IsFile

\* What is written is a file; of names and values without a line break it is a document.
LEMMA WrittenIs ==
    ASSUME NEW c, IsConfig(c), NEW d \in Config!Written(c)
    PROVE  /\ IsFile(d)
           /\ Config!Texts(c) \cap Multiline = {} => d = Config!ToDocument(c)
  BY ToDocumentIs, SettingsAssumption DEF Config!Written, IsFile

\* SettingsAreKept, by what is read back.
LEMMA KeptIs == Config!SettingsAreKept <=>
    (expected # Config!Unknown /\ Config!Blank \notin DOMAIN expected.profiles =>
        Config!Loads(file) /\ Config!Loaded(file) = ReadBack(expected))
  BY DEF Config!SettingsAreKept, ReadBack

\* What a command may change, and that it has validated the result.
LEMMA ChangesAre ==
    ASSUME NEW c, NEW ch \in Config!Changes(c)
    PROVE  IsChange(ch) /\ Config!Valid(Config!Applied(c, ch))
  <1>1. ASSUME NEW n PROVE DOMAIN Config!Select(n).values = {}
    BY DEF Config!Select
  <1>2. ASSUME NEW n, NEW values PROVE Config!Change(n, values).values = values
    BY DEF Config!Change
  <1> SUFFICES IsChange(ch)
    BY DEF Config!Changes
  <1>3. CASE ch \in Config!SetChanges
    <2>1. PICK s \in Settings : ch = IF s.name = Config!None THEN Config!Select(s.value)
                                     ELSE Config!Change(s.name, [k \in {s.key} |-> s.value])
      BY <1>3 DEF Config!SetChanges
    <2>2. CASE s.name = Config!None
      <3>1. ch = Config!Select(s.value)
        BY <2>1, <2>2
      <3>2. DOMAIN ch.values \subseteq Fields
        BY <1>1, <3>1
      <3> QED BY <3>2 DEF IsChange
    <2>3. CASE s.name # Config!None
      <3> DEFINE set == [k \in {s.key} |-> s.value]
      <3>1. DOMAIN ch.values = {s.key}
        <4>1. ch = Config!Change(s.name, set) /\ DOMAIN set = {s.key}
          BY <2>1, <2>3
        <4> HIDE DEF set
        <4> QED BY <1>2, <4>1
      <3>2. s.key \in Fields
        BY <2>3, SettingsAssumption, KeysAre
      <3>3. DOMAIN ch.values \subseteq Fields
        BY <3>1, <3>2
      <3> QED BY <3>3 DEF IsChange
    <2> QED BY <2>2, <2>3
  <1>4. CASE ch \in Config!UseChanges(c)
    <2>1. PICK n : ch = Config!Select(n)
      BY <1>4 DEF Config!UseChanges
    <2>2. DOMAIN ch.values \subseteq Fields
      BY <1>1, <2>1
    <2> QED BY <2>2 DEF IsChange
  <1>5. CASE ch \in Config!ScopeChanges(c)
    <2>1. PICK n \in Config!Resolvable(c), values \in Config!ScopeValues :
              ch = Config!Change(n, values)
      BY <1>5 DEF Config!ScopeChanges
    <2>2. ch.values = values
      BY <1>2, <2>1
    <2>3. DOMAIN values \subseteq Fields
      BY DEF Config!ScopeValues, Fields
    <2> QED BY <2>2, <2>3 DEF IsChange
  <1> QED BY <1>3, <1>4, <1>5 DEF Config!Changes

\* In the beginning a file says what it is loaded as.
LEMMA InitKept == Config!Init => ConfigInv
  <1> SUFFICES ASSUME Config!Init PROVE ConfigInv
    OBVIOUS
  <1>1. file \in {Config!NoDocument, Config!Empty} \/ IsDocument(file)
    BY SettingsAssumption DEF Config!Init
  <1>2. IsConfig(expected) /\ expected = Config!Loaded(file)
    BY <1>1, LoadedIs DEF Config!Init, IsFile
  <1>3. expected.profiles["local"]["hostHeader"] # Config!None
    <2>1. CASE file \in {Config!NoDocument, Config!Empty}
      BY <1>2, <2>1, DefaultsAre DEF Config!Loaded
    <2>2. CASE file \notin {Config!NoDocument, Config!Empty}
      BY <1>1, <1>2, <2>2, ParsedIs DEF Config!Loaded
    <2> QED BY <2>1, <2>2
  <1>4. ReadBack(expected) = expected
    <2>1. /\ IsConfig(ReadBack(expected)) /\ ReadBack(expected).version = expected.version
          /\ ReadBack(expected).selected = expected.selected
          /\ DOMAIN ReadBack(expected).profiles = DOMAIN expected.profiles
          /\ \A n \in DOMAIN expected.profiles, k \in Fields :
                ReadBack(expected).profiles[n][k] = expected.profiles[n][k]
      BY <1>2, <1>3, ReadBackIs
    <2> QED BY <1>2, <2>1, SameConfig
  <1>5. Config!SettingsAreKept
    BY <1>2, <1>4, KeptIs DEF Config!Init
  <1>6. IsMap(editing) /\ DOMAIN editing = Editors /\ \A p \in Editors : editing[p].step = "idle"
    BY DEF Config!Init, IsMap, Config!Idle
  <1> QED BY <1>1, <1>2, <1>5, <1>6 DEF ConfigInv, IsFile, Working

\* What the process with the lock does while the file stays as it is.
LEMMA EditorStep ==
    ASSUME ConfigInv, NEW p \in Editors, NEW work,
           editing' = [editing EXCEPT ![p] = work], UNCHANGED <<file, expected>>,
           holder = p, UNCHANGED holder \/ work.step = "idle",
           work.step \in Working =>
              /\ work = Work(work.step, work.change, work.config)
              /\ Config!Loads(file) /\ IsChange(work.change)
              /\ work.config = Config!Applied(Config!Loaded(file), work.change)
              /\ Config!Valid(work.config),
           work.step = "rename" => temp' \in Config!Written(work.config)
    PROVE  ConfigInv'
  <1>1. IsMap(editing') /\ DOMAIN editing' = Editors /\ editing'[p] = work
        /\ \A q \in Editors : q # p => editing'[q] = editing[q]
    BY DEF ConfigInv, IsMap
  <1>2. \A q \in Editors : q # p => editing[q].step = "idle"
    BY DEF ConfigInv
  <1>3. ASSUME NEW q \in Editors
        PROVE  /\ editing'[q].step # "idle" => holder' = q
               /\ editing'[q].step \in Working =>
                   /\ editing'[q] = Work(editing'[q].step, editing'[q].change, editing'[q].config)
                   /\ Config!Loads(file) /\ IsChange(editing'[q].change)
                   /\ editing'[q].config = Config!Applied(Config!Loaded(file), editing'[q].change)
                   /\ Config!Valid(editing'[q].config)
               /\ editing'[q].step = "rename" => temp' \in Config!Written(editing'[q].config)
    <2>1. CASE q = p
      BY <1>1, <2>1
    <2>2. CASE q # p
      BY <1>1, <1>2, <2>2 DEF Working
    <2> QED BY <2>1, <2>2
  <1>4. Config!SettingsAreKept'
    BY DEF ConfigInv, Config!SettingsAreKept
  <1> QED BY <1>1, <1>3, <1>4 DEF ConfigInv

\* The next step of a save.
LEMMA SaveStep ==
    ASSUME ConfigInv, NEW p \in Editors, NEW next \in Working, editing[p].step \in Working,
           editing' = [editing EXCEPT ![p] = [editing[p] EXCEPT !.step = next]],
           UNCHANGED <<file, expected, holder>>, holder = p,
           next = "rename" => temp' \in Config!Written(editing[p].config)
    PROVE  ConfigInv'
  <1> DEFINE work == Work(next, editing[p].change, editing[p].config)
  <1>1. editing[p] = Work(editing[p].step, editing[p].change, editing[p].config)
    BY DEF ConfigInv
  <1>2. [editing[p] EXCEPT !.step = next] = work
    BY <1>1 DEF Work
  <1>3. work.step = next /\ work.change = editing[p].change /\ work.config = editing[p].config
    BY DEF Work
  <1> HIDE DEF work
  <1>4. editing' = [editing EXCEPT ![p] = work]
    BY <1>2
  <1>5. /\ Config!Loads(file) /\ IsChange(work.change)
        /\ work.config = Config!Applied(Config!Loaded(file), work.change)
        /\ Config!Valid(work.config) /\ work = Work(work.step, work.change, work.config)
    BY <1>3 DEF ConfigInv, work
  <1> QED BY <1>3, <1>4, <1>5, EditorStep

\* A save replaces the file.
LEMMA RenameStep ==
    ASSUME ConfigInv, NEW p \in Editors, Config!Rename(p) PROVE ConfigInv'
  <1> DEFINE ch == editing[p].change
             loaded == Config!Loaded(file)
             revised == editing[p].config
  <1>1. /\ editing[p].step = "rename" /\ holder = p
        /\ editing' = [editing EXCEPT ![p] = Config!Idle] /\ file' = temp
        /\ expected' = IF expected = Config!Unknown \/ Config!Texts(revised) \cap Multiline # {}
                       THEN Config!Unknown ELSE Config!Applied(expected, ch)
    BY DEF Config!Rename, Config!At, Config!End, ConfigInv
  <1>2. /\ IsChange(ch) /\ revised = Config!Applied(loaded, ch) /\ Config!Valid(revised)
        /\ Config!Loads(file) /\ temp \in Config!Written(revised)
    BY <1>1 DEF ConfigInv, Working
  <1>3. IsConfig(loaded) /\ IsConfig(revised)
    BY <1>2, LoadedIs, AppliedIs DEF ConfigInv
  <1> HIDE DEF ch, loaded, revised
  <1>4. IsFile(file')
    BY <1>1, <1>2, <1>3, WrittenIs
  <1>5. ASSUME expected' # Config!Unknown
        PROVE  /\ expected # Config!Unknown /\ IsConfig(expected)
               /\ expected' = Config!Applied(expected, ch) /\ IsConfig(expected')
               /\ file' = Config!ToDocument(revised)
    <2>1. /\ expected # Config!Unknown /\ Config!Texts(revised) \cap Multiline = {}
          /\ expected' = Config!Applied(expected, ch)
      BY <1>1, <1>5
    <2>2. IsConfig(expected)
      BY <2>1 DEF ConfigInv
    <2> QED BY <1>1, <1>2, <1>3, <2>1, <2>2, AppliedIs, WrittenIs
  <1>6. IsConfig(expected) =>
        /\ DOMAIN Config!Applied(expected, ch).profiles =
              IF ch.select # Config!None THEN DOMAIN expected.profiles
              ELSE {ch.name} \cup DOMAIN expected.profiles
        /\ DOMAIN Config!Applied(loaded, ch).profiles =
              IF ch.select # Config!None THEN DOMAIN loaded.profiles
              ELSE {ch.name} \cup DOMAIN loaded.profiles
    BY <1>3, AppliedValues DEF HasApplied
  <1>7. ASSUME expected' # Config!Unknown, Config!Blank \notin DOMAIN expected'.profiles
        PROVE  Config!Loads(file') /\ Config!Loaded(file') = ReadBack(expected')
    <2>1. expected # Config!Unknown /\ Config!Blank \notin DOMAIN expected.profiles
      BY <1>6, <1>7, <1>5
    <2>2. loaded = ReadBack(expected)
      BY <2>1, KeptIs DEF ConfigInv, loaded
    <2>3. DOMAIN loaded.profiles = DOMAIN expected.profiles
      BY <1>7, <1>5, <2>2, ReadBackIs
    <2>4. DOMAIN revised.profiles = DOMAIN expected'.profiles
      BY <1>2, <1>6, <1>7, <1>5, <2>3
    <2>5. Config!Loads(file') /\ Config!Loaded(file') = ReadBack(revised)
      BY <1>2, <1>3, <1>7, <1>5, <2>4, RoundTrip
    <2>6. ReadBack(revised) = ReadBack(expected')
      BY <1>2, <1>7, <1>5, <2>2, ChangeReadBack
    <2> QED BY <2>5, <2>6
  <1>8. Config!SettingsAreKept'
    BY <1>7 DEF Config!SettingsAreKept, ReadBack
  <1>9. /\ IsMap(editing') /\ DOMAIN editing' = Editors
        /\ \A q \in Editors : editing'[q].step = "idle"
    BY <1>1 DEF ConfigInv, IsMap, Config!Idle
  <1> QED BY <1>4, <1>8, <1>9, <1>5 DEF ConfigInv, Working

\* The invariant of the configuration, under its own specification.
THEOREM ConfigInvariance == Config!Spec => []ConfigInv
  <1>1. ConfigInv /\ [Config!Next]_(Config!vars) => ConfigInv'
    <2> SUFFICES ASSUME ConfigInv, [Config!Next]_(Config!vars) PROVE ConfigInv'
      OBVIOUS
    <2>1. CASE UNCHANGED Config!vars
      BY <2>1 DEF Config!vars, ConfigInv, Config!SettingsAreKept
    <2>2. ASSUME NEW p \in Editors, Config!Acquire(p) PROVE ConfigInv'
      <3> DEFINE work == [step |-> "load"]
      <3>1. /\ holder = Config!None /\ holder' = p /\ editing[p].step = "idle"
            /\ editing' = [editing EXCEPT ![p] = work] /\ UNCHANGED <<file, temp, expected>>
        BY <2>2 DEF Config!Acquire, Config!At
      <3>2. work.step = "load"
        OBVIOUS
      <3> HIDE DEF work
      <3>3. IsMap(editing') /\ DOMAIN editing' = Editors /\ editing'[p] = work
            /\ \A q \in Editors : q # p => editing'[q] = editing[q]
        BY <3>1 DEF ConfigInv, IsMap
      <3>4. \A q \in Editors : editing[q].step = "idle"
        BY <3>1, SettingsAssumption DEF ConfigInv
      <3>5. Config!SettingsAreKept'
        BY <3>1 DEF ConfigInv, Config!SettingsAreKept
      <3>6. \A q \in Editors : editing'[q].step # "idle" => q = p
        BY <3>3, <3>4
      <3>7. \A q \in Editors : editing'[q].step \notin Working \cup {"rename"}
        BY <3>2, <3>3, <3>4 DEF Working
      <3> QED BY <3>1, <3>3, <3>5, <3>6, <3>7 DEF ConfigInv
    <2>3. ASSUME NEW p \in Editors, Config!Load(p) PROVE ConfigInv'
      <3>1. PICK c \in Config!Changes(Config!Loaded(file)) :
                editing' = [editing EXCEPT ![p] =
                    Work("create", c, Config!Applied(Config!Loaded(file), c))]
        BY <2>3 DEF Config!Load, Work
      <3>2. /\ Config!Loads(file) /\ holder = p /\ UNCHANGED <<file, temp, holder, expected>>
        BY <2>3 DEF Config!Load, Config!At, ConfigInv
      <3>3. IsChange(c) /\ Config!Valid(Config!Applied(Config!Loaded(file), c))
        BY ChangesAre
      <3> DEFINE work == Work("create", c, Config!Applied(Config!Loaded(file), c))
      <3>4. /\ work.step = "create" /\ work.change = c
            /\ work.config = Config!Applied(Config!Loaded(file), c)
        BY DEF Work
      <3>5. work = Work(work.step, work.change, work.config)
        BY DEF Work
      <3> HIDE DEF work
      <3> QED BY <3>1, <3>2, <3>3, <3>4, <3>5, EditorStep DEF work
    <2>4. ASSUME NEW p \in Editors, Config!Create(p) PROVE ConfigInv'
      <3>1. /\ editing[p].step = "create" /\ holder = p /\ UNCHANGED <<file, holder, expected>>
            /\ editing' = [editing EXCEPT ![p] = [editing[p] EXCEPT !.step = "write"]]
        BY <2>4 DEF Config!Create, Config!At, Config!Goto, ConfigInv
      <3> QED BY <3>1, SaveStep DEF Working
    <2>5. ASSUME NEW p \in Editors, Config!Write(p) PROVE ConfigInv'
      <3>1. /\ editing[p].step = "write" /\ holder = p /\ UNCHANGED <<file, holder, expected>>
            /\ editing' = [editing EXCEPT ![p] = [editing[p] EXCEPT !.step = "rename"]]
            /\ temp' \in Config!Written(editing[p].config)
        BY <2>5 DEF Config!Write, Config!At, Config!Goto, ConfigInv
      <3> QED BY <3>1, SaveStep DEF Working
    <2>6. ASSUME NEW p \in Editors, Config!Rename(p) PROVE ConfigInv'
      BY <2>6, RenameStep
    <2>7. ASSUME NEW p \in Editors, Config!Fail(p) PROVE ConfigInv'
      <3>1. /\ editing[p].step # "idle" /\ holder = p /\ UNCHANGED <<file, temp, expected>>
            /\ editing' = [editing EXCEPT ![p] = Config!Idle] /\ Config!Idle.step = "idle"
        BY <2>7 DEF Config!Fail, Config!At, Config!End, Config!Idle, ConfigInv
      <3> QED BY <3>1, EditorStep DEF Working
    <2> QED BY <2>1, <2>2, <2>3, <2>4, <2>5, <2>6, <2>7 DEF Config!Next
  <1> QED BY <1>1, InitKept, PTL DEF Config!Spec

\* Whoever reads the configuration reads the settings that the commands before asked for,
\* for any processes, files and settings, whichever command is refused, fails or is killed,
\* up to the first blank name and the first line break that are saved: config.rs,
\* CliConfig::save and load_or_default.
THEOREM SettingsAreAlwaysKept == LibrariesSpec => []SettingsAreKept
  <1>1. ConfigInv => SettingsAreKept
    BY DEF ConfigInv, SettingsAreKept
  <1> QED BY <1>1, ConfigInvariance, ConfigIsAPart, PTL

-----------------------------------------------------------------------------
(* The runner's log.  Entries are named by where they are in their file,   *)
(* and writes only add to the end of a file: an entry keeps its place, and *)
(* others only become later ones.                                          *)

\* What is written is an entry's text or an end of line.
LogTexts == [id : Int, kind : {"event", "request", "decision"}, of : Approvals]
Writes == LogTexts \cup {Logs!NL}
Contents == Seq(Seq(Writes))

\* No two texts stand on one line.
Clean(text) == \A i \in 1..(Len(text) - 1) : text[i] = Logs!NL \/ text[i + 1] = Logs!NL
TextsOf(text) == {i \in DOMAIN text : text[i] # Logs!NL}

\* RunnerLogs' Cardinality is the one that the library's theorems are about.
LEMMA LogCardinalityIs == \A S : Logs!Cardinality(S) = Cardinality(S)
  BY DEF Logs!Cardinality, Cardinality

LEMMA FiniteTexts ==
    ASSUME NEW text \in Seq(Writes), NEW S \in SUBSET DOMAIN text
    PROVE  IsFiniteSet(S) /\ Cardinality(S) \in Nat /\ S \in SUBSET Nat
  <1>1. DOMAIN text = 1..Len(text) /\ Len(text) \in Nat
    OBVIOUS
  <1>2. IsFiniteSet(DOMAIN text)
    BY <1>1, FS_Interval
  <1> QED BY <1>1, <1>2, FS_Subset, FS_CardinalityType

\* Every line of a file parses if no two texts stand on one, and then all texts are read.
LEMMA CleanIs ==
    ASSUME NEW text \in Seq(Writes)
    PROVE  /\ Logs!Malformed(text) \in Nat
           /\ Logs!Malformed(text) = 0 <=> Clean(text)
           /\ Clean(text) => Logs!Entries(text) = TextsOf(text)
           /\ Logs!Entries(text) \in SUBSET DOMAIN text
  <1> DEFINE bad == Logs!Lines(text) \ Logs!Entries(text)
  <1>1. DOMAIN text = 1..Len(text) /\ Len(text) \in Nat
    OBVIOUS
  <1>2. /\ \A i : i \in Logs!Lines(text) <=>
              i \in DOMAIN text /\ text[i] # Logs!NL /\ (i > 1 => text[i - 1] = Logs!NL)
        /\ \A i : i \in Logs!Entries(text) <=>
              i \in Logs!Lines(text) /\ (i < Len(text) => text[i + 1] = Logs!NL)
    BY DEF Logs!Lines, Logs!Entries, Logs!Parsed
  <1>3. Logs!Entries(text) \in SUBSET DOMAIN text /\ bad \in SUBSET DOMAIN text
    BY <1>2
  <1>4. Logs!Malformed(text) \in Nat /\ (Logs!Malformed(text) = 0 <=> bad = {})
    BY <1>3, FiniteTexts, LogCardinalityIs, FS_EmptySet DEF Logs!Malformed
  <1> HIDE DEF bad
  <1>5. ASSUME bad = {} PROVE Clean(text)
    <2> DEFINE T == {i \in 1..(Len(text) - 1) : text[i] # Logs!NL /\ text[i + 1] # Logs!NL}
    <2>1. SUFFICES ASSUME T # {} PROVE FALSE
      BY DEF Clean
    <2>2. PICK i \in T : \A j \in T : i <= j
      <3>1. T \in SUBSET Nat
        OBVIOUS
      <3> HIDE DEF T
      <3> QED BY <2>1, <3>1, LeastNatural
    <2>3. i > 1 => text[i - 1] = Logs!NL
      <3>1. i > 1 /\ text[i - 1] # Logs!NL => i - 1 \in T
        BY <1>1
      <3> QED BY <1>1, <2>2, <3>1
    <2>4. i \in DOMAIN text /\ i < Len(text) /\ text[i] # Logs!NL /\ text[i + 1] # Logs!NL
      BY <1>1
    <2>5. i \in Logs!Lines(text) /\ i \notin Logs!Entries(text)
      BY <1>2, <2>3, <2>4
    <2> QED BY <1>5, <2>5 DEF bad
  <1>6. ASSUME Clean(text) PROVE bad = {} /\ Logs!Entries(text) = TextsOf(text)
    <2>1. ASSUME NEW i \in TextsOf(text) PROVE i \in Logs!Entries(text)
      <3>1. i \in 1..Len(text) /\ text[i] # Logs!NL
        BY <1>1, <2>1 DEF TextsOf
      <3>2. i > 1 => text[i - 1] = Logs!NL
        <4>1. i > 1 => i - 1 \in 1..(Len(text) - 1) /\ (i - 1) + 1 = i
          BY <1>1, <3>1
        <4> QED BY <1>6, <3>1, <4>1 DEF Clean
      <3>3. i < Len(text) => text[i + 1] = Logs!NL
        BY <1>1, <1>6, <3>1 DEF Clean
      <3> QED BY <1>1, <1>2, <3>1, <3>2, <3>3
    <2>2. Logs!Lines(text) \subseteq TextsOf(text)
      BY <1>2 DEF TextsOf
    <2>3. Logs!Entries(text) \subseteq Logs!Lines(text)
      BY <1>2
    <2> QED BY <2>1, <2>2, <2>3 DEF bad
  <1> QED BY <1>3, <1>4, <1>5, <1>6

\* Fewer than all entries are later than one of them.
LEMMA LaterIs ==
    ASSUME NEW S \in SUBSET Nat, IsFiniteSet(S), NEW i \in S
    PROVE  Logs!Later(i, S) \in Nat /\ Logs!Later(i, S) < Cardinality(S)
  <1> DEFINE after == {j \in S : j > i}
  <1>1. after \in SUBSET (S \ {i})
    OBVIOUS
  <1>2. IsFiniteSet(S \ {i}) /\ Cardinality(S \ {i}) = Cardinality(S) - 1
    BY FS_RemoveElement
  <1>3. IsFiniteSet(after) /\ Cardinality(after) <= Cardinality(S \ {i})
    BY <1>1, <1>2, FS_Subset
  <1>4. Cardinality(after) \in Nat /\ Cardinality(S) \in Nat
    BY <1>3, FS_CardinalityType
  <1>5. Logs!Later(i, S) = Cardinality(after)
    BY LogCardinalityIs DEF Logs!Later
  <1> HIDE DEF after
  <1> QED BY <1>2, <1>3, <1>4, <1>5

\* Of two entries the older one has more entries after it.
LEMMA LaterOrders ==
    ASSUME NEW S \in SUBSET Nat, IsFiniteSet(S), NEW i \in S, NEW k \in S, i < k
    PROVE  Logs!Later(k, S) < Logs!Later(i, S)
  <1> DEFINE after == {j \in S : j > i}
  <1>1. k \in after /\ {j \in S : j > k} = {j \in after : j > k}
    <2>1. \A j \in S : j \in Nat /\ (j > k => j > i)
      OBVIOUS
    <2> QED BY <2>1
  <1>2. IsFiniteSet(after) /\ after \in SUBSET Nat
    BY FS_Subset
  <1>3. Logs!Later(k, after) < Cardinality(after)
    <2> HIDE DEF after
    <2> QED BY <1>1, <1>2, LaterIs
  <1>4. Logs!Later(k, after) = Logs!Later(k, S) /\ Cardinality(after) = Logs!Later(i, S)
    BY <1>1, LogCardinalityIs DEF Logs!Later
  <1> QED BY <1>3, <1>4

\* What is added at the end of the entries makes the entries before it older.
LEMMA LaterGrows ==
    ASSUME NEW S \in SUBSET Nat, IsFiniteSet(S), NEW k \in Nat, NEW i \in S
    PROVE  Logs!Later(i, S) <= Logs!Later(i, S \cup {k})
  <1> DEFINE before == {j \in S : j > i}
             after == {j \in S \cup {k} : j > i}
  <1>1. before \in SUBSET after /\ after \in SUBSET (S \cup {k})
    OBVIOUS
  <1>2. IsFiniteSet(S \cup {k})
    BY FS_AddElement
  <1>3. IsFiniteSet(after)
    BY <1>1, <1>2, FS_Subset
  <1>4. Cardinality(before) <= Cardinality(after)
    BY <1>1, <1>3, FS_Subset
  <1> QED BY <1>4, LogCardinalityIs DEF Logs!Later

\* A window that all entries fit into shows them all.
LEMMA NewestIsAll ==
    ASSUME NEW S \in SUBSET Nat, IsFiniteSet(S), Cardinality(S) <= Window
    PROVE  Logs!Newest(S) = S
  <1>1. \A i \in S : Logs!Later(i, S) < Window
    <2> SUFFICES ASSUME NEW i \in S PROVE Logs!Later(i, S) < Window
      OBVIOUS
    <2>1. Logs!Later(i, S) \in Nat /\ Logs!Later(i, S) < Cardinality(S)
      BY LaterIs
    <2>2. Cardinality(S) \in Nat
      BY FS_CardinalityType
    <2> QED BY <2>1, <2>2, LogsAssumption
  <1> QED BY <1>1 DEF Logs!Newest

\* A page has no more entries than its limit.
LEMMA PageIsShort ==
    ASSUME NEW S \in SUBSET Nat, IsFiniteSet(S), NEW offset \in Nat
    PROVE  LET shown == {i \in S : Logs!Later(i, S) \in offset..(offset + PageLimit - 1)}
           IN  Cardinality(shown) \in Nat /\ Cardinality(shown) <= PageLimit
  <1> DEFINE range == offset..(offset + PageLimit - 1)
             shown == {i \in S : Logs!Later(i, S) \in range}
             g == [i \in shown |-> Logs!Later(i, S)]
  <1>1. IsFiniteSet(shown) /\ Cardinality(shown) \in Nat
    <2>1. shown \in SUBSET S
      OBVIOUS
    <2> QED BY <2>1, FS_Subset, FS_CardinalityType
  <1>2. ASSUME NEW i \in shown, NEW k \in shown, i # k PROVE g[i] # g[k]
    <2>1. i < k \/ k < i
      BY <1>2
    <2>2. Logs!Later(i, S) \in Nat /\ Logs!Later(k, S) \in Nat
      BY LaterIs
    <2> QED BY <2>1, <2>2, LaterOrders
  <1>3. g \in Injection(shown, range)
    <2>1. g \in [shown -> range]
      OBVIOUS
    <2> HIDE DEF g, shown, range
    <2> QED BY <1>2, <2>1 DEF Injection, IsInjective
  <1>4. IsFiniteSet(range) /\ Cardinality(range) = PageLimit
    BY FS_Interval, LogsAssumption
  <1>5. Cardinality(shown) <= Cardinality(range)
    <2> HIDE DEF g, shown, range
    <2> QED BY <1>3, <1>4, FS_Injection
  <1> QED BY <1>1, <1>4, <1>5

\* The entries of the window have the same entries after them in it.
LEMMA NewestLater ==
    ASSUME NEW S \in SUBSET Nat, IsFiniteSet(S), NEW i \in Logs!Newest(S)
    PROVE  Logs!Later(i, Logs!Newest(S)) = Logs!Later(i, S)
  <1>1. i \in S /\ Logs!Later(i, S) < Window /\ Logs!Newest(S) \subseteq S
    BY DEF Logs!Newest
  <1>2. ASSUME NEW j \in S, j > i PROVE j \in Logs!Newest(S)
    <2>1. i < j
      BY <1>1, <1>2
    <2>2. Logs!Later(j, S) < Logs!Later(i, S)
      BY <1>1, <2>1, LaterOrders
    <2>3. Logs!Later(j, S) \in Nat /\ Logs!Later(i, S) \in Nat
      BY <1>1, LaterIs
    <2>4. Logs!Later(j, S) < Window
      BY <1>1, <2>2, <2>3, LogsAssumption
    <2> QED BY <2>4 DEF Logs!Newest
  <1>3. {j \in Logs!Newest(S) : j > i} = {j \in S : j > i}
    BY <1>1, <1>2
  <1> QED BY <1>3 DEF Logs!Later

\* What a write does to a file's entries: a line that cannot be read stays so, and as long
\* as there is none more, no entry goes and at most the last one comes.
LEMMA EntriesGrow ==
    ASSUME NEW text \in Seq(Writes), NEW w \in Writes
    PROVE  /\ Logs!Malformed(text) <= Logs!Malformed(Append(text, w))
           /\ Logs!Malformed(Append(text, w)) = Logs!Malformed(text) =>
                 \/ Logs!Entries(Append(text, w)) = Logs!Entries(text)
                 \/ Logs!Entries(Append(text, w)) = Logs!Entries(text) \cup {Len(text) + 1}
  <1> DEFINE longer == Append(text, w)
             last == Len(text) + 1
             bad == Logs!Lines(text) \ Logs!Entries(text)
             worse == Logs!Lines(longer) \ Logs!Entries(longer)
  <1>1. /\ Len(longer) = last /\ Len(text) \in Nat /\ longer \in Seq(Writes)
        /\ \A i \in 1..Len(text) : longer[i] = text[i]
        /\ longer[last] = w
        /\ DOMAIN text = 1..Len(text) /\ DOMAIN longer = 1..last
    OBVIOUS
  <1> HIDE DEF longer
  <1>2. /\ \A i : i \in Logs!Lines(text) <=>
              i \in 1..Len(text) /\ text[i] # Logs!NL /\ (i > 1 => text[i - 1] = Logs!NL)
        /\ \A i : i \in Logs!Entries(text) <=>
              i \in Logs!Lines(text) /\ (i < Len(text) => text[i + 1] = Logs!NL)
    BY <1>1 DEF Logs!Lines, Logs!Entries, Logs!Parsed
  <1>3. /\ \A i : i \in Logs!Lines(longer) <=>
              i \in 1..last /\ longer[i] # Logs!NL /\ (i > 1 => longer[i - 1] = Logs!NL)
        /\ \A i : i \in Logs!Entries(longer) <=>
              i \in Logs!Lines(longer) /\ (i < last => longer[i + 1] = Logs!NL)
    BY <1>1 DEF Logs!Lines, Logs!Entries, Logs!Parsed
  <1>4. ASSUME NEW i \in 1..Len(text)
        PROVE  /\ i \in 1..last /\ i # last /\ longer[i] = text[i]
               /\ i > 1 => i - 1 \in 1..Len(text) /\ longer[i - 1] = text[i - 1]
               /\ i < Len(text) => i < last /\ longer[i + 1] = text[i + 1]
    BY <1>1
  <1>5. ASSUME NEW i \in 1..Len(text)
        PROVE  i \in Logs!Lines(longer) <=> i \in Logs!Lines(text)
    BY <1>2, <1>3, <1>4
  <1>6. bad \subseteq worse
    <2> SUFFICES ASSUME NEW i \in bad PROVE i \in worse
      OBVIOUS
    <2>1. i \in 1..Len(text) /\ i \in Logs!Lines(text)
      BY <1>2
    <2>2. i < Len(text) /\ text[i + 1] # Logs!NL
      BY <1>2, <2>1
    <2>3. i < last /\ longer[i + 1] # Logs!NL /\ i \in Logs!Lines(longer)
      BY <1>4, <1>5, <2>1, <2>2
    <2> QED BY <1>3, <2>3
  <1>7. ASSUME NEW i \in Logs!Entries(longer), i # last PROVE i \in Logs!Entries(text)
    <2>1. i \in 1..Len(text)
      BY <1>1, <1>3, <1>7
    <2>2. i \in Logs!Lines(text)
      BY <1>3, <1>5, <2>1
    <2>3. i < Len(text) => text[i + 1] = Logs!NL
      BY <1>3, <1>4, <2>1
    <2> QED BY <1>2, <2>2, <2>3
  <1>8. ASSUME worse = bad, NEW i \in Logs!Entries(text) PROVE i \in Logs!Entries(longer)
    <2>1. i \in 1..Len(text) /\ i \in Logs!Lines(longer) /\ i \notin bad
      BY <1>2, <1>5
    <2> QED BY <1>8, <2>1
  <1>9. /\ Logs!Malformed(text) = Cardinality(bad) /\ IsFiniteSet(bad)
        /\ Logs!Malformed(longer) = Cardinality(worse) /\ IsFiniteSet(worse)
    <2>1. bad \in SUBSET DOMAIN text /\ worse \in SUBSET DOMAIN longer
      BY <1>1, <1>2, <1>3
    <2> QED BY <1>1, <2>1, FiniteTexts, LogCardinalityIs DEF Logs!Malformed
  <1> HIDE DEF bad, worse
  <1>10. /\ Cardinality(bad) <= Cardinality(worse)
         /\ Cardinality(bad) = Cardinality(worse) => bad = worse
    BY <1>6, <1>9, FS_Subset
  <1>11. ASSUME worse = bad
         PROVE  \/ Logs!Entries(longer) = Logs!Entries(text)
                \/ Logs!Entries(longer) = Logs!Entries(text) \cup {last}
    <2> HIDE DEF last
    <2> QED BY <1>7, <1>8, <1>11
  <1> QED BY <1>9, <1>10, <1>11 DEF longer

\* What a file has at a place.
Recorded(kind, f, i, a) ==
    /\ f \in DOMAIN content /\ i \in DOMAIN content[f]
    /\ content[f][i].kind = kind /\ content[f][i].of = a

\* An approval was asked for, and a decision on it stands after every request.
AskedFor(a) == \E f \in Nat, i \in Nat : Recorded("request", f, i, a)
Settled(a) ==
    /\ AskedFor(a)
    /\ \E g \in Nat, k \in Nat :
        /\ Recorded("decision", g, k, a)
        /\ \A f \in Nat, i \in Nat :
              Recorded("request", f, i, a) => f < g \/ (f = g /\ i < k)

\* A writer is about to record a request.
Asks(w) == pc[w] \in Logs!LogSteps \ {"idle", "newline"} /\ mine[w].kind = "request"

LogTypes ==
    /\ content \in Contents /\ current \in {0, Len(content)} /\ appended \in Int
    /\ pc \in [Logs!LogUsers -> Logs!LogSteps]
    /\ handle \in [Logs!LogUsers -> Nat]
    /\ mine \in [Logs!LogUsers -> LogTexts \cup {Logs!NoEntry}]
    /\ \A p \in Logs!LogUsers : pc[p] # "idle" => mine[p] \in LogTexts
    /\ \A p \in Logs!LogUsers : pc[p] \in {"text", "newline"} => handle[p] \in DOMAIN content

\* An approval is asked for once.
RequestsAreOne ==
    /\ \A a \in Approvals, f \in Nat, i \in Nat, g \in Nat, k \in Nat :
        Recorded("request", f, i, a) /\ Recorded("request", g, k, a) => f = g /\ i = k
    /\ \A w \in Writers : Asks(w) =>
        /\ \A f \in Nat, i \in Nat : ~Recorded("request", f, i, mine[w].of)
        /\ \A v \in Writers : Asks(v) /\ mine[v].of = mine[w].of => v = w

\* A command that decides does so after the request that it read, also when the file was
\* rotated since.
DecisionsFollow ==
    /\ \A d \in Deciders : pc[d] # "idle" =>
        pc[d] \in {"open", "text", "newline"} /\ mine[d].kind = "decision"
    /\ \A d \in Deciders, a \in Approvals : pc[d] # "idle" /\ mine[d].of = a =>
        /\ AskedFor(a)
        /\ pc[d] = "text" => \A f \in Nat, i \in Nat :
                                Recorded("request", f, i, a) => f <= handle[d]
        /\ pc[d] = "newline" => Settled(a)
    /\ \A a \in decided : Settled(a)

\* What the first page could have led to and is still in the window is seen, or is older
\* than the offset: new entries make it older still.
Shown(entries) ==
    /\ tail.first \subseteq entries
    /\ \A i \in tail.first \cap Logs!Newest(entries) :
          Logs!Later(i, entries) < tail.offset => i \in tail.seen
    /\ tail.ended => tail.first \cap Logs!Newest(entries) \subseteq tail.seen

\* Unreadable lines stay, and as long as there is none more, the entries stay too.
TailOf(text) ==
    /\ tail.skipped <= Logs!Malformed(text)
    /\ Logs!Malformed(text) = tail.skipped => Shown(Logs!Entries(text))

TailFollows ==
    /\ tail.active \in BOOLEAN
    /\ tail.active =>
        /\ tail = [active |-> TRUE, offset |-> tail.offset, seen |-> tail.seen,
                   ended |-> tail.ended, file |-> tail.file, skipped |-> tail.skipped,
                   first |-> tail.first]
        /\ tail.offset \in Nat /\ tail.ended \in BOOLEAN /\ tail.skipped \in Nat
        /\ tail.file \in 0..Len(content)
        /\ tail.file = 0 => tail.first = {} /\ tail.skipped = 0
        /\ tail.file = current => TailOf(Logs!Text(current))

LogsInv == LogTypes /\ RequestsAreOne /\ DecisionsFollow /\ TailFollows

\* No file is no text.
LEMMA TextIs ==
    ASSUME LogTypes, NEW f \in 0..Len(content)
    PROVE  /\ Logs!Text(f) \in Seq(Writes)
           /\ f # 0 => f \in DOMAIN content /\ Logs!Text(f) = content[f]
  BY DEF Logs!Text, LogTypes, Contents

\* The invariant says what the properties say of the log.
LEMMA LogsAreRead ==
    ASSUME LogsInv
    PROVE  Logs!DecidedIsNotPending /\ Logs!PagingSkipsNothing /\ Logs!ReportsAreHonest
  <1>1. current \in 0..Len(content) /\ Len(content) \in Nat /\ Logs!Text(current) \in Seq(Writes)
    BY TextIs DEF LogsInv, LogTypes, Contents
  <1> DEFINE text == Logs!Text(current)
             seen == Logs!Newest(Logs!Entries(text))
  <1>2. ASSUME NEW a \in decided, a \in Logs!Inbox PROVE FALSE
    <2>1. /\ Logs!Malformed(text) = 0
          /\ a \in Logs!Mentioned("request", text, seen)
          /\ a \notin Logs!Mentioned("decision", text, seen)
      <3>1. Logs!Read("strict", text).status = "read" /\ a \in Logs!Pending(text)
        BY <1>2 DEF Logs!Inbox
      <3>2. ~(Logs!Malformed(text) > 0)
        BY <3>1 DEF Logs!Read
      <3>3. Logs!Malformed(text) = 0
        BY <1>1, <3>2, CleanIs
      <3> QED BY <3>1, <3>3 DEF Logs!Pending
    <2>2. PICK i \in seen : text[i].kind = "request" /\ text[i].of = a
      BY <2>1 DEF Logs!Mentioned
    <2>3. Clean(text) /\ Logs!Entries(text) = TextsOf(text)
      BY <1>1, <2>1, CleanIs
    <2>4. TextsOf(text) \in SUBSET Nat /\ IsFiniteSet(TextsOf(text))
      BY <1>1, FiniteTexts DEF TextsOf
    <2>5. i \in TextsOf(text) /\ Logs!Later(i, TextsOf(text)) < Window
      BY <2>2, <2>3 DEF Logs!Newest
    <2>6. current \in DOMAIN content /\ text = content[current] /\ i \in DOMAIN text
      <3>1. i \in DOMAIN text
        BY <2>5 DEF TextsOf
      <3>2. current # 0
        BY <3>1 DEF Logs!Text
      <3> QED BY <1>1, <3>1, <3>2, TextIs DEF LogsInv
    <2> HIDE DEF text, seen
    <2>7. Recorded("request", current, i, a)
      BY <2>2, <2>6 DEF Recorded
    <2>8. PICK g \in Nat, k \in Nat :
              /\ Recorded("decision", g, k, a)
              /\ \A f \in Nat, j \in Nat :
                    Recorded("request", f, j, a) => f < g \/ (f = g /\ j < k)
      BY DEF LogsInv, DecisionsFollow, Settled
    <2>9. g = current /\ i < k
      <3>1. current = Len(content) /\ g \in 1..Len(content) /\ i \in Nat /\ current \in Nat
        BY <1>1, <2>4, <2>5, <2>6, <2>8 DEF LogsInv, LogTypes, Contents, Recorded
      <3> QED BY <2>7, <2>8, <3>1
    <2>10. k \in TextsOf(text) /\ text[k].kind = "decision" /\ text[k].of = a
      BY <2>6, <2>8, <2>9 DEF Recorded, TextsOf, Logs!NL
    <2>11. Logs!Later(k, TextsOf(text)) < Logs!Later(i, TextsOf(text))
      BY <2>4, <2>5, <2>9, <2>10, LaterOrders
    <2>12. /\ Logs!Later(k, TextsOf(text)) \in Nat /\ Logs!Later(i, TextsOf(text)) \in Nat
      BY <2>4, <2>5, <2>10, LaterIs
    <2>13. k \in seen
      BY <2>3, <2>5, <2>10, <2>11, <2>12, LogsAssumption DEF seen, Logs!Newest
    <2>14. a \in Logs!Mentioned("decision", text, seen)
      BY <2>10, <2>13 DEF Logs!Mentioned
    <2> QED BY <2>1, <2>14
  <1>3. Logs!PagingSkipsNothing
    <2> SUFFICES ASSUME tail.active, tail.ended, tail.file = current,
                        Logs!Malformed(text) = tail.skipped
                 PROVE  tail.first \cap seen \subseteq tail.seen
      BY DEF Logs!PagingSkipsNothing
    <2> QED BY DEF LogsInv, TailFollows, TailOf, Shown
  <1>4. Logs!ReportsAreHonest
    <2> SUFFICES ASSUME NEW f \in DOMAIN content, NEW reader \in {"strict", "tolerant"},
                        Logs!Read(reader, Logs!Text(f)).status = "read",
                        Logs!Read(reader, Logs!Text(f)).skipped = 0,
                        Logs!Cardinality(TextsOf(Logs!Text(f))) <= Window
                 PROVE  Logs!Read(reader, Logs!Text(f)).entries = TextsOf(Logs!Text(f))
      BY DEF Logs!ReportsAreHonest, TextsOf
    <2>1. Logs!Text(f) \in Seq(Writes)
      <3>1. f \in 0..Len(content)
        BY DEF LogsInv, LogTypes, Contents
      <3> QED BY <3>1, TextIs DEF LogsInv
    <2>2. /\ Logs!Read(reader, Logs!Text(f)).entries = Logs!Newest(Logs!Entries(Logs!Text(f)))
          /\ Logs!Malformed(Logs!Text(f)) = 0
      BY DEF Logs!Read
    <2>3. Logs!Entries(Logs!Text(f)) = TextsOf(Logs!Text(f))
      BY <2>1, <2>2, CleanIs
    <2>4. TextsOf(Logs!Text(f)) \in SUBSET Nat /\ IsFiniteSet(TextsOf(Logs!Text(f)))
      BY <2>1, FiniteTexts DEF TextsOf
    <2>5. Logs!Newest(TextsOf(Logs!Text(f))) = TextsOf(Logs!Text(f))
      BY <2>4, NewestIsAll, LogCardinalityIs
    <2> QED BY <2>2, <2>3, <2>5
  <1> QED BY <1>2, <1>3, <1>4 DEF Logs!DecidedIsNotPending

\* The invariant holds when nothing was logged.
LEMMA InitLogs == Logs!Init => LogsInv
  <1> SUFFICES ASSUME Logs!Init PROVE LogsInv
    OBVIOUS
  <1>1. content = <<>> /\ current = 0 /\ appended = 0 /\ decided = {} /\ tail.active = FALSE
        /\ content \in Contents
    BY DEF Logs!Init, Logs!NoTail, Contents
  <1>2. \A p \in Logs!LogUsers : pc[p] = "idle"
    BY DEF Logs!Init
  <1>3. LogTypes
    BY <1>1, <1>2 DEF Logs!Init, LogTypes, Logs!LogSteps
  <1>4. \A f, i : DOMAIN content = {} /\ \A kind, a : ~Recorded(kind, f, i, a)
    BY <1>1 DEF Recorded
  <1> QED BY <1>1, <1>2, <1>3, <1>4 DEF LogsInv, RequestsAreOne, DecisionsFollow, TailFollows,
             Asks, Logs!LogUsers

\* A writer that rotates, or gives up, writes nothing.
LEMMA WriterMoves ==
    ASSUME LogsInv, NEW w \in Writers,
           NEW step \in {"idle", "rotate", "remove", "find", "rename", "open"},
           pc[w] \in {"size", "rotate", "remove", "find", "rename"},
           pc' = [pc EXCEPT ![w] = step],
           UNCHANGED <<content, appended, mine, handle, tail, decided>>,
           current' \in {current, 0}
    PROVE  LogsInv'
  <1>1. /\ w \in Logs!LogUsers /\ w \notin Deciders
        /\ pc'[w] = step /\ \A p \in Logs!LogUsers : p # w => pc'[p] = pc[p]
        /\ DOMAIN pc = Logs!LogUsers
    BY LogsAssumption DEF LogsInv, LogTypes, Logs!LogUsers
  <1>2. LogTypes'
    <2>1. current' \in {0, Len(content')} /\ content' \in Contents /\ appended' \in Int
      BY DEF LogsInv, LogTypes
    <2>2. pc' \in [Logs!LogUsers -> Logs!LogSteps]
      BY DEF LogsInv, LogTypes, Logs!LogSteps
    <2>3. \A p \in Logs!LogUsers : pc'[p] # "idle" => mine'[p] \in LogTexts
      BY <1>1 DEF LogsInv, LogTypes
    <2>4. \A p \in Logs!LogUsers : pc'[p] \in {"text", "newline"} => handle'[p] \in DOMAIN content'
      BY <1>1 DEF LogsInv, LogTypes
    <2> QED BY <2>1, <2>2, <2>3, <2>4 DEF LogsInv, LogTypes
  <1>3. \A v \in Writers : Asks(v)' => Asks(v)
    BY <1>1 DEF Asks, Logs!LogUsers, Logs!LogSteps
  <1>4. RequestsAreOne'
    BY <1>3 DEF LogsInv, RequestsAreOne, Recorded
  <1>5. DecisionsFollow'
    BY <1>1 DEF LogsInv, DecisionsFollow, Settled, AskedFor, Recorded, Logs!LogUsers
  <1>6. TailFollows'
    <2>1. Logs!Text(current)' = Logs!Text(current')
      BY DEF Logs!Text
    <2>2. CASE current' = current
      BY <2>1, <2>2 DEF LogsInv, TailFollows, TailOf, Shown
    <2>3. CASE current' = 0
      <3>1. <<>> \in Seq(Writes) /\ Logs!Text(current') = <<>>
        BY <2>3 DEF Logs!Text
      <3>2. Logs!Malformed(<<>>) \in Nat
        BY <3>1, CleanIs
      <3>3. ASSUME tail.active, tail.file = 0 PROVE TailOf(<<>>)'
        <4>1. tail.first = {} /\ tail.skipped = 0
          BY <3>3 DEF LogsInv, TailFollows
        <4> QED BY <3>2, <4>1 DEF TailOf, Shown
      <3> QED BY <2>1, <2>3, <3>1, <3>3 DEF LogsInv, TailFollows
    <2> QED BY <2>2, <2>3
  <1> QED BY <1>2, <1>4, <1>5, <1>6 DEF LogsInv

\* An entry is begun.
LEMMA BeginLogs == ASSUME LogsInv, NEW w \in Writers, Logs!Begin(w) PROVE LogsInv'
  <1>1. PICK kind \in {"event", "request"}, a \in Approvals :
          /\ kind = "request" => ~Logs!Requested(a)
          /\ mine' = [mine EXCEPT ![w] = Logs!Entry(appended + 1, kind, a)]
    BY DEF Logs!Begin
  <1>2. /\ pc[w] = "idle" /\ pc' = [pc EXCEPT ![w] = "size"] /\ appended' = appended + 1
        /\ UNCHANGED <<content, current, handle, tail, decided>>
    BY DEF Logs!Begin, Logs!Goto, Logs!files, Logs!rest
  <1> DEFINE new == Logs!Entry(appended + 1, kind, a)
  <1>3. new \in LogTexts /\ new.kind = kind /\ new.of = a
    BY DEF Logs!Entry, LogTexts, LogsInv, LogTypes
  <1> HIDE DEF new
  <1>4. /\ w \in Logs!LogUsers /\ w \notin Deciders
        /\ pc'[w] = "size" /\ mine'[w] = new
        /\ \A p \in Logs!LogUsers : p # w => pc'[p] = pc[p] /\ mine'[p] = mine[p]
    BY <1>1, <1>2, LogsAssumption DEF LogsInv, LogTypes, Logs!LogUsers, new
  <1>5. LogTypes'
    <2>1. current' \in {0, Len(content')} /\ content' \in Contents /\ appended' \in Int
      BY <1>2 DEF LogsInv, LogTypes
    <2>2. pc' \in [Logs!LogUsers -> Logs!LogSteps]
      BY <1>2 DEF LogsInv, LogTypes, Logs!LogSteps
    <2>3. mine' \in [Logs!LogUsers -> LogTexts \cup {Logs!NoEntry}]
      BY <1>1, <1>3 DEF LogsInv, LogTypes, new
    <2>4. \A p \in Logs!LogUsers :
            /\ pc'[p] # "idle" => mine'[p] \in LogTexts
            /\ pc'[p] \in {"text", "newline"} => handle'[p] \in DOMAIN content'
      BY <1>2, <1>3, <1>4 DEF LogsInv, LogTypes
    <2> QED BY <1>2, <2>1, <2>2, <2>3, <2>4 DEF LogsInv, LogTypes
  <1>6. RequestsAreOne'
    <2>1. ASSUME kind = "request"
          PROVE  /\ \A f \in Nat, i \in Nat : ~Recorded("request", f, i, a)
                 /\ \A v \in Writers : Asks(v) => mine[v].of # a
      BY <1>1, <2>1 DEF Logs!Requested, Recorded, Asks
    <2>2. \A v \in Writers : Asks(v)' <=> IF v = w THEN kind = "request" ELSE Asks(v)
      BY <1>3, <1>4 DEF Asks, Logs!LogUsers, Logs!LogSteps
    <2>3. \A v \in Writers : v # w => mine'[v] = mine[v]
      BY <1>4 DEF Logs!LogUsers
    <2>4. \A f, i, b : Recorded("request", f, i, b)' <=> Recorded("request", f, i, b)
      BY <1>2 DEF Recorded
    <2>5. \A b \in Approvals, f \in Nat, i \in Nat, g \in Nat, k \in Nat :
             Recorded("request", f, i, b)' /\ Recorded("request", g, k, b)' => f = g /\ i = k
      BY <2>4 DEF LogsInv, RequestsAreOne
    <2>6. ASSUME NEW v \in Writers, Asks(v)'
          PROVE  /\ \A f \in Nat, i \in Nat : ~Recorded("request", f, i, mine'[v].of)
                 /\ \A u \in Writers : Asks(u)' /\ mine'[u].of = mine'[v].of => u = v
      <3>1. CASE v = w
        BY <1>3, <1>4, <2>1, <2>2, <2>3, <2>6, <3>1
      <3>2. CASE v # w
        <4>1. Asks(v) /\ mine'[v] = mine[v]
          BY <2>2, <2>3, <2>6, <3>2
        <4>2. \A u \in Writers : Asks(u) /\ mine[u].of = mine[v].of => u = v
          BY <4>1 DEF LogsInv, RequestsAreOne
        <4>3. Asks(w)' => mine'[w].of # mine[v].of
          BY <1>3, <1>4, <2>1, <2>2, <4>1
        <4>4. \A f \in Nat, i \in Nat : ~Recorded("request", f, i, mine[v].of)
          BY <4>1 DEF LogsInv, RequestsAreOne
        <4> QED BY <2>2, <2>3, <4>1, <4>2, <4>3, <4>4
      <3> QED BY <3>1, <3>2
    <2> QED BY <2>4, <2>5, <2>6 DEF RequestsAreOne
  <1>7. DecisionsFollow'
    BY <1>2, <1>4 DEF LogsInv, DecisionsFollow, Settled, AskedFor, Recorded, Logs!LogUsers
  <1>8. TailFollows'
    BY <1>2 DEF LogsInv, TailFollows, TailOf, Shown, Logs!Text
  <1> QED BY <1>5, <1>6, <1>7, <1>8 DEF LogsInv

\* A command reads a request in the file that the path names, the last one.
LEMMA ReadInboxLogs ==
    ASSUME LogsInv, NEW d \in Deciders, NEW a \in Approvals, Logs!ReadInbox(d, a) PROVE LogsInv'
  <1>1. /\ pc[d] = "idle" /\ a \in Logs!Inbox
        /\ mine' = [mine EXCEPT ![d] = Logs!Entry(0, "decision", a)]
        /\ pc' = [pc EXCEPT ![d] = "open"]
        /\ UNCHANGED <<content, current, appended, handle, tail, decided>>
    BY DEF Logs!ReadInbox, Logs!Goto, Logs!files, Logs!rest
  <1> DEFINE new == Logs!Entry(0, "decision", a)
  <1>2. new \in LogTexts /\ new.kind = "decision" /\ new.of = a
    BY DEF Logs!Entry, LogTexts
  <1> HIDE DEF new
  <1>3. /\ d \in Logs!LogUsers /\ d \notin Writers
        /\ pc'[d] = "open" /\ mine'[d] = new
        /\ \A p \in Logs!LogUsers : p # d => pc'[p] = pc[p] /\ mine'[p] = mine[p]
    BY <1>1, LogsAssumption DEF LogsInv, LogTypes, Logs!LogUsers, new
  <1>4. AskedFor(a)
    <2> DEFINE text == Logs!Text(current)
    <2>1. a \in Logs!Pending(text)
      BY <1>1 DEF Logs!Inbox
    <2>2. PICK i \in Logs!Entries(text) : text[i].kind = "request" /\ text[i].of = a
      BY <2>1 DEF Logs!Pending, Logs!Mentioned, Logs!Newest
    <2>3. i \in DOMAIN text
      BY <2>2 DEF Logs!Entries, Logs!Lines
    <2>4. current \in DOMAIN content /\ text = content[current] /\ current \in Nat
      <3>1. current # 0
        BY <2>3 DEF Logs!Text
      <3>2. current \in 0..Len(content)
        BY DEF LogsInv, LogTypes, Contents
      <3> QED BY <3>1, <3>2, TextIs DEF LogsInv
    <2>5. text \in Seq(Writes)
      BY <2>4 DEF LogsInv, LogTypes, Contents
    <2>6. i \in Nat
      BY <2>3, <2>5
    <2> HIDE DEF text
    <2> QED BY <2>2, <2>3, <2>4, <2>6 DEF AskedFor, Recorded
  <1>5. LogTypes'
    <2>1. current' \in {0, Len(content')} /\ content' \in Contents /\ appended' \in Int
      BY <1>1 DEF LogsInv, LogTypes
    <2>2. pc' \in [Logs!LogUsers -> Logs!LogSteps]
      BY <1>1 DEF LogsInv, LogTypes, Logs!LogSteps
    <2>3. mine' \in [Logs!LogUsers -> LogTexts \cup {Logs!NoEntry}]
      BY <1>1, <1>2 DEF LogsInv, LogTypes, new
    <2>4. \A p \in Logs!LogUsers :
            /\ pc'[p] # "idle" => mine'[p] \in LogTexts
            /\ pc'[p] \in {"text", "newline"} => handle'[p] \in DOMAIN content'
      BY <1>1, <1>2, <1>3 DEF LogsInv, LogTypes
    <2> QED BY <1>1, <2>1, <2>2, <2>3, <2>4 DEF LogsInv, LogTypes
  <1>6. RequestsAreOne'
    <2>1. \A v \in Writers : (Asks(v)' <=> Asks(v)) /\ mine'[v] = mine[v]
      BY <1>3 DEF Asks, Logs!LogUsers
    <2> QED BY <1>1, <2>1 DEF LogsInv, RequestsAreOne, Recorded
  <1>7. DecisionsFollow'
    <2>1. \A b : AskedFor(b)' <=> AskedFor(b)
      BY <1>1 DEF AskedFor, Recorded
    <2>2. \A b : Settled(b)' <=> Settled(b)
      BY <1>1, <2>1 DEF Settled, Recorded
    <2>3. \A f, i, b : Recorded("request", f, i, b)' <=> Recorded("request", f, i, b)
      BY <1>1 DEF Recorded
    <2> QED BY <1>1, <1>2, <1>3, <1>4, <2>1, <2>2, <2>3
            DEF LogsInv, DecisionsFollow, Logs!LogUsers
  <1>8. TailFollows'
    BY <1>1 DEF LogsInv, TailFollows, TailOf, Shown, Logs!Text
  <1> QED BY <1>5, <1>6, <1>7, <1>8 DEF LogsInv

\* A write is added to the end of a file, and moves nothing.
LEMMA AppendIs ==
    ASSUME LogTypes, NEW h \in DOMAIN content, NEW w \in Writes,
           content' = [content EXCEPT ![h] = Append(@, w)]
    PROVE  /\ content' \in Contents /\ Len(content') = Len(content)
           /\ DOMAIN content' = DOMAIN content
           /\ content'[h] = Append(content[h], w)
           /\ \A f \in DOMAIN content : f # h => content'[f] = content[f]
           /\ content[h] \in Seq(Writes) /\ h \in Nat /\ Len(content[h]) \in Nat
  <1>1. content \in Seq(Seq(Writes)) /\ content[h] \in Seq(Writes) /\ h \in Nat
        /\ Append(content[h], w) \in Seq(Writes)
    BY DEF LogTypes, Contents
  <1>2. content' \in Contents /\ Len(content') = Len(content) /\ DOMAIN content' = DOMAIN content
    BY <1>1 DEF Contents
  <1>3. /\ content'[h] = Append(content[h], w)
        /\ \A f \in DOMAIN content : f # h => content'[f] = content[f]
    BY <1>1
  <1> QED BY <1>1, <1>2, <1>3

\* A file has what it had before, and the write.
LEMMA RecordedAfter ==
    ASSUME LogTypes, NEW h \in DOMAIN content, NEW w \in Writes,
           content' = [content EXCEPT ![h] = Append(@, w)]
    PROVE  \A kind, a, f, i : Recorded(kind, f, i, a)' <=>
                 \/ Recorded(kind, f, i, a)
                 \/ f = h /\ i = Len(content[h]) + 1 /\ w.kind = kind /\ w.of = a
  <1>1. content[h] \in Seq(Writes) /\ content'[h] = Append(content[h], w)
        /\ DOMAIN content' = DOMAIN content
        /\ \A f \in DOMAIN content : f # h => content'[f] = content[f]
    BY AppendIs
  <1> DEFINE longer == content'[h]
             last == Len(content[h]) + 1
  <1>2. /\ DOMAIN longer = (DOMAIN content[h]) \cup {last}
        /\ last \notin DOMAIN content[h] /\ longer[last] = w
        /\ \A i \in DOMAIN content[h] : longer[i] = content[h][i]
    <2>1. /\ Len(longer) = last /\ Len(content[h]) \in Nat /\ longer[last] = w
          /\ \A i \in 1..Len(content[h]) : longer[i] = content[h][i]
          /\ DOMAIN content[h] = 1..Len(content[h]) /\ DOMAIN longer = 1..last
      BY <1>1
    <2>2. 1..last = (1..Len(content[h])) \cup {last} /\ last \notin 1..Len(content[h])
      BY <2>1
    <2> QED BY <2>1, <2>2
  <1>3. ASSUME NEW kind, NEW a, NEW f, NEW i
        PROVE  Recorded(kind, f, i, a)' <=>
                 \/ Recorded(kind, f, i, a)
                 \/ f = h /\ i = last /\ w.kind = kind /\ w.of = a
    <2> HIDE DEF last
    <2>1. CASE f = h
      BY <1>1, <1>2, <2>1 DEF Recorded
    <2>2. CASE f # h
      BY <1>1, <2>2 DEF Recorded
    <2> QED BY <2>1, <2>2
  <1> QED BY <1>3

\* What is settled stays settled, unless it is asked for again.
LEMMA SettledStays ==
    ASSUME LogTypes, NEW h \in DOMAIN content, NEW w \in Writes,
           content' = [content EXCEPT ![h] = Append(@, w)],
           NEW a, Settled(a), w.kind # "request" \/ w.of # a
    PROVE  Settled(a)'
  <1>1. \A kind, b, f, i : Recorded(kind, f, i, b)' <=>
            \/ Recorded(kind, f, i, b)
            \/ f = h /\ i = Len(content[h]) + 1 /\ w.kind = kind /\ w.of = b
    BY RecordedAfter
  <1>2. \A f, i : Recorded("request", f, i, a)' <=> Recorded("request", f, i, a)
    BY <1>1
  <1>3. \A f, i : Recorded("decision", f, i, a) => Recorded("decision", f, i, a)'
    BY <1>1
  <1>4. AskedFor(a)'
    BY <1>2 DEF Settled, AskedFor
  <1> QED BY <1>2, <1>3, <1>4 DEF Settled

\* A write makes the entries older, not fewer.
LEMMA TailAfterWrite ==
    ASSUME LogsInv, NEW h \in DOMAIN content, NEW w \in Writes,
           content' = [content EXCEPT ![h] = Append(@, w)], UNCHANGED <<current, tail>>
    PROVE  TailFollows'
  <1>1. /\ Len(content') = Len(content) /\ content'[h] = Append(content[h], w)
        /\ \A f \in DOMAIN content : f # h => content'[f] = content[f]
        /\ content[h] \in Seq(Writes) /\ h \in Nat /\ Len(content[h]) \in Nat
    BY AppendIs DEF LogsInv
  <1>2. current \in 0..Len(content) /\ (current # 0 => current \in DOMAIN content)
    BY DEF LogsInv, LogTypes, Contents
  <1>3. CASE current # h
    <2>1. Logs!Text(current)' = Logs!Text(current)
      BY <1>1, <1>2, <1>3 DEF Logs!Text
    <2> QED BY <1>1, <2>1 DEF LogsInv, TailFollows, TailOf, Shown
  <1>4. CASE current = h
    <2> DEFINE text == content[h]
               longer == Append(text, w)
    <2>1. Logs!Text(current) = text /\ Logs!Text(current)' = longer
      BY <1>1, <1>2, <1>4 DEF Logs!Text, LogsInv, LogTypes, Contents
    <2>2. text \in Seq(Writes) /\ longer \in Seq(Writes) /\ Len(text) + 1 \in Nat
      BY <1>1
    <2>3. /\ Logs!Malformed(text) <= Logs!Malformed(longer)
          /\ Logs!Malformed(longer) = Logs!Malformed(text) =>
                 \/ Logs!Entries(longer) = Logs!Entries(text)
                 \/ Logs!Entries(longer) = Logs!Entries(text) \cup {Len(text) + 1}
      BY <2>2, EntriesGrow
    <2> HIDE DEF text, longer
    <2>4. Logs!Malformed(text) \in Nat /\ Logs!Malformed(longer) \in Nat
      BY <2>2, CleanIs
    <2>5. /\ Logs!Entries(text) \in SUBSET Nat /\ IsFiniteSet(Logs!Entries(text))
          /\ Logs!Entries(longer) \in SUBSET Nat /\ IsFiniteSet(Logs!Entries(longer))
      BY <2>2, CleanIs, FiniteTexts
    <2>6. ASSUME tail.active, tail.file = current PROVE TailOf(longer)
      <3>1. TailOf(text) /\ tail.skipped \in Nat /\ tail.offset \in Nat
        BY <2>1, <2>6 DEF LogsInv, TailFollows
      <3>2. tail.skipped <= Logs!Malformed(longer)
        BY <2>3, <2>4, <3>1 DEF TailOf
      <3>3. ASSUME Logs!Malformed(longer) = tail.skipped PROVE Shown(Logs!Entries(longer))
        <4> DEFINE S == Logs!Entries(text)
                   T == Logs!Entries(longer)
        <4>1. Logs!Malformed(text) = tail.skipped
          BY <2>3, <2>4, <3>1, <3>3 DEF TailOf
        <4>2. Shown(S) /\ (T = S \/ T = S \cup {Len(text) + 1})
          BY <2>3, <3>1, <3>3, <4>1 DEF TailOf
        <4> HIDE DEF S, T
        <4>3. S \in SUBSET Nat /\ IsFiniteSet(S) /\ T \in SUBSET Nat /\ IsFiniteSet(T)
          BY <2>5 DEF S, T
        <4>4. tail.first \subseteq S /\ S \subseteq T
          BY <4>2 DEF Shown
        <4>5. ASSUME NEW i \in tail.first \cap Logs!Newest(T)
              PROVE  /\ Logs!Later(i, S) \in Nat /\ Logs!Later(i, T) \in Nat
                     /\ Logs!Later(i, S) <= Logs!Later(i, T) /\ i \in Logs!Newest(S)
          <5>1. i \in S /\ i \in T /\ Logs!Later(i, T) < Window
            BY <4>4, <4>5 DEF Logs!Newest
          <5>2. Logs!Later(i, S) \in Nat /\ Logs!Later(i, T) \in Nat
            BY <4>3, <5>1, LaterIs
          <5>3. Logs!Later(i, S) <= Logs!Later(i, T)
            <6>1. CASE T = S
              BY <5>2, <6>1
            <6>2. CASE T = S \cup {Len(text) + 1}
              BY <2>2, <4>3, <5>1, <6>2, LaterGrows
            <6> QED BY <4>2, <6>1, <6>2
          <5>4. Logs!Later(i, S) < Window
            BY <5>1, <5>2, <5>3, LogsAssumption
          <5> QED BY <5>1, <5>2, <5>3, <5>4 DEF Logs!Newest
        <4>6. ASSUME NEW i \in tail.first \cap Logs!Newest(T), Logs!Later(i, T) < tail.offset
              PROVE  i \in tail.seen
          <5>1. Logs!Later(i, S) < tail.offset
            BY <3>1, <4>5, <4>6
          <5> QED BY <4>2, <4>5, <5>1 DEF Shown
        <4>7. tail.ended => tail.first \cap Logs!Newest(T) \subseteq tail.seen
          BY <4>2, <4>5 DEF Shown
        <4>8. Shown(T)
          BY <4>4, <4>6, <4>7 DEF Shown
        <4> QED BY <4>8 DEF T
      <3> QED BY <3>2, <3>3 DEF TailOf
    <2>7. ASSUME tail.active, tail.file = current PROVE TailOf(Logs!Text(current))'
      BY <2>1, <2>6, <2>7 DEF TailOf, Shown
    <2> QED BY <1>1, <2>7 DEF LogsInv, TailFollows
  <1> QED BY <1>3, <1>4

\* A file is opened, or created when the path names none: a decision goes to the file of its
\* request or to a later one.
LEMMA OpenLogs == ASSUME LogsInv, NEW p \in Logs!LogUsers, Logs!Open(p) PROVE LogsInv'
  <1>1. /\ pc[p] = "open" /\ pc' = [pc EXCEPT ![p] = "text"]
        /\ handle' = [handle EXCEPT ![p] = current']
        /\ UNCHANGED <<appended, mine, tail, decided>>
        /\ \/ current # 0 /\ current' = current /\ content' = content
           \/ current = 0 /\ current' = Len(content) + 1 /\ content' = Append(content, <<>>)
    BY DEF Logs!Open, Logs!Goto, Logs!rest
  <1>2. content \in Seq(Seq(Writes)) /\ Len(content) \in Nat /\ current \in 0..Len(content)
        /\ DOMAIN content = 1..Len(content)
    BY DEF LogsInv, LogTypes, Contents
  <1>3. /\ content' \in Contents /\ current' = Len(content') /\ current' \in DOMAIN content'
        /\ Len(content) <= Len(content') /\ Len(content') \in Nat
        /\ \A f \in DOMAIN content : f \in DOMAIN content' /\ content'[f] = content[f]
        /\ \A f \in DOMAIN content' : f \in DOMAIN content \/ DOMAIN content'[f] = {}
    <2>1. CASE current # 0
      <3>1. content' = content /\ current' = current /\ current = Len(content)
        BY <1>1, <2>1 DEF LogsInv, LogTypes
      <3>2. current \in DOMAIN content
        BY <1>2, <2>1
      <3> QED BY <1>2, <3>1, <3>2 DEF Contents
    <2>2. CASE current = 0
      <3>1. <<>> \in Seq(Writes)
        OBVIOUS
      <3>2. content' = Append(content, <<>>) /\ current' = Len(content) + 1
        BY <1>1, <2>2
      <3>3. content' \in Seq(Seq(Writes)) /\ Len(content') = Len(content) + 1
            /\ DOMAIN content' = 1..(Len(content) + 1)
            /\ \A f \in 1..Len(content) : content'[f] = content[f]
            /\ content'[Len(content) + 1] = <<>>
        BY <1>2, <3>1, <3>2
      <3>4. DOMAIN (<<>>) = {}
        OBVIOUS
      <3>5. \A f \in 1..(Len(content) + 1) : f \in 1..Len(content) \/ f = Len(content) + 1
        BY <1>2
      <3> QED BY <1>2, <3>2, <3>3, <3>4, <3>5 DEF Contents
    <2> QED BY <2>1, <2>2
  <1>4. \A kind, a, f, i : Recorded(kind, f, i, a)' <=> Recorded(kind, f, i, a)
    BY <1>3 DEF Recorded
  <1>5. /\ pc'[p] = "text" /\ handle'[p] = current'
        /\ \A q \in Logs!LogUsers : q # p => pc'[q] = pc[q] /\ handle'[q] = handle[q]
    BY <1>1 DEF LogsInv, LogTypes
  <1>6. LogTypes'
    <2>1. pc' \in [Logs!LogUsers -> Logs!LogSteps]
      BY <1>1 DEF LogsInv, LogTypes, Logs!LogSteps
    <2>2. handle' \in [Logs!LogUsers -> Nat]
      BY <1>1, <1>3 DEF LogsInv, LogTypes
    <2>3. \A q \in Logs!LogUsers :
            /\ pc'[q] # "idle" => mine'[q] \in LogTexts
            /\ pc'[q] \in {"text", "newline"} => handle'[q] \in DOMAIN content'
      BY <1>1, <1>3, <1>5 DEF LogsInv, LogTypes
    <2> QED BY <1>1, <1>3, <2>1, <2>2, <2>3 DEF LogsInv, LogTypes
  <1>7. RequestsAreOne'
    <2>1. \A v \in Writers : Asks(v)' <=> Asks(v)
      BY <1>1, <1>5 DEF Asks, Logs!LogUsers, Logs!LogSteps
    <2> QED BY <1>1, <1>4, <2>1 DEF LogsInv, RequestsAreOne
  <1>8. DecisionsFollow'
    <2>1. \A b : (AskedFor(b)' <=> AskedFor(b)) /\ (Settled(b)' <=> Settled(b))
      BY <1>4 DEF AskedFor, Settled
    <2>2. \A f, i, b : Recorded("request", f, i, b)' => f <= current'
      <3>1. \A f, i, b : Recorded("request", f, i, b) => f \in 1..Len(content)
        BY <1>2 DEF Recorded
      <3> QED BY <1>2, <1>3, <1>4, <3>1
    <2>3. ASSUME NEW d \in Deciders, pc'[d] # "idle"
          PROVE  /\ d \in Logs!LogUsers /\ pc[d] # "idle" /\ mine'[d] = mine[d]
                 /\ pc'[d] \in {"open", "text", "newline"} /\ mine[d].kind = "decision"
                 /\ d # p => pc'[d] = pc[d] /\ handle'[d] = handle[d]
      BY <1>1, <1>5, <2>3 DEF Logs!LogUsers, LogsInv, DecisionsFollow
    <2>4. \A a \in decided' : Settled(a)'
      BY <1>1, <2>1 DEF LogsInv, DecisionsFollow
    <2>5. ASSUME NEW d \in Deciders, NEW a \in Approvals, pc'[d] # "idle", mine'[d].of = a
          PROVE  /\ AskedFor(a)'
                 /\ pc'[d] = "text" => \A f \in Nat, i \in Nat :
                        Recorded("request", f, i, a)' => f <= handle'[d]
                 /\ pc'[d] = "newline" => Settled(a)'
      <3>1. AskedFor(a)'
        BY <2>1, <2>3, <2>5 DEF LogsInv, DecisionsFollow
      <3>2. CASE d = p
        BY <1>5, <2>2, <3>1, <3>2
      <3>3. CASE d # p
        BY <1>4, <2>1, <2>3, <2>5, <3>1, <3>3 DEF LogsInv, DecisionsFollow
      <3> QED BY <3>2, <3>3
    <2> QED BY <2>3, <2>4, <2>5 DEF DecisionsFollow
  <1>9. TailFollows'
    <2>1. CASE current # 0
      BY <1>1, <2>1 DEF LogsInv, TailFollows, TailOf, Shown, Logs!Text
    <2>2. CASE current = 0
      <3>1. tail.active => tail.file # current' /\ tail.file \in 0..Len(content')
        BY <1>1, <1>2, <1>3, <2>2 DEF LogsInv, TailFollows
      <3> QED BY <1>1, <3>1 DEF LogsInv, TailFollows
    <2> QED BY <2>1, <2>2
  <1> QED BY <1>6, <1>7, <1>8, <1>9 DEF LogsInv

\* The text of an entry is written into the file that was opened.
LEMMA WriteTextLogs == ASSUME LogsInv, NEW p \in Logs!LogUsers, Logs!WriteText(p) PROVE LogsInv'
  <1>1. pc[p] = "text" /\ handle[p] \in DOMAIN content /\ mine[p] \in LogTexts
    BY DEF Logs!WriteText, LogsInv, LogTypes
  <1>2. PICK h \in DOMAIN content, w \in LogTexts : h = handle[p] /\ w = mine[p]
    BY <1>1
  <1>3. /\ pc[p] = "text" /\ pc' = [pc EXCEPT ![p] = "newline"]
        /\ content' = [content EXCEPT ![h] = Append(@, w)]
        /\ UNCHANGED <<current, appended, mine, handle, tail, decided>>
    BY <1>2 DEF Logs!WriteText, Logs!Goto, Logs!rest
  <1>4. w \in Writes /\ w.of \in Approvals
    BY DEF LogTexts, Writes
  <1>5. PICK last \in Nat : last = Len(content[h]) + 1
    BY DEF LogsInv, LogTypes, Contents
  <1>6. /\ content' \in Contents /\ Len(content') = Len(content) /\ DOMAIN content' = DOMAIN content
        /\ h \in Nat
        /\ \A kind, a, f, i : Recorded(kind, f, i, a)' <=>
                 \/ Recorded(kind, f, i, a)
                 \/ f = h /\ i = last /\ w.kind = kind /\ w.of = a
    <2>1. LogTypes
      BY DEF LogsInv
    <2>2. content' = [content EXCEPT ![h] = Append(@, w)]
      BY <1>3
    <2>3. /\ content' \in Contents /\ Len(content') = Len(content)
          /\ DOMAIN content' = DOMAIN content /\ h \in Nat
      BY <1>4, <2>1, <2>2, AppendIs
    <2>4. \A kind, a, f, i : Recorded(kind, f, i, a)' <=>
                 \/ Recorded(kind, f, i, a)
                 \/ f = h /\ i = Len(content[h]) + 1 /\ w.kind = kind /\ w.of = a
      BY <1>4, <2>1, <2>2, RecordedAfter
    <2> QED BY <1>5, <2>3, <2>4
  <1>7. pc'[p] = "newline" /\ \A q \in Logs!LogUsers : q # p => pc'[q] = pc[q]
    BY <1>3 DEF LogsInv, LogTypes
  <1>8. LogTypes'
    <2>1. pc' \in [Logs!LogUsers -> Logs!LogSteps]
      BY <1>3 DEF LogsInv, LogTypes, Logs!LogSteps
    <2>2. \A q \in Logs!LogUsers :
            /\ pc'[q] # "idle" => mine'[q] \in LogTexts
            /\ pc'[q] \in {"text", "newline"} => handle'[q] \in DOMAIN content'
      BY <1>3, <1>6, <1>7 DEF LogsInv, LogTypes
    <2> QED BY <1>3, <1>6, <2>1, <2>2 DEF LogsInv, LogTypes
  <1>9. TailFollows'
    BY <1>3, <1>4, TailAfterWrite
  <1>10. w.kind = "request" => p \in Writers /\ Asks(p)
    BY <1>3, <1>2 DEF LogsInv, DecisionsFollow, Asks, Logs!LogUsers, Logs!LogSteps
  <1>11. w.kind = "request" => \A f \in Nat, i \in Nat : ~Recorded("request", f, i, w.of)
    BY <1>2, <1>10 DEF LogsInv, RequestsAreOne
  <1>12. ASSUME NEW a, Settled(a) PROVE Settled(a)'
    <2>1. w.kind # "request" \/ w.of # a
      BY <1>11, <1>12 DEF Settled, AskedFor
    <2>2. LogTypes
      BY DEF LogsInv
    <2> QED BY <1>3, <1>4, <1>12, <2>1, <2>2, SettledStays
  <1>13. \A a : AskedFor(a) => AskedFor(a)'
    BY <1>6 DEF AskedFor
  <1>14. RequestsAreOne'
    <2>1. \A v \in Writers : Asks(v)' <=> Asks(v) /\ v # p
      BY <1>3, <1>7 DEF Asks, Logs!LogUsers
    <2>2. ASSUME NEW a \in Approvals, NEW f \in Nat, NEW i \in Nat, NEW g \in Nat, NEW k \in Nat,
                 Recorded("request", f, i, a)', Recorded("request", g, k, a)'
          PROVE  f = g /\ i = k
      <3>1. CASE w.kind = "request" /\ w.of = a
        BY <1>6, <1>11, <2>2, <3>1
      <3>2. CASE ~(w.kind = "request" /\ w.of = a)
        BY <1>6, <2>2, <3>2 DEF LogsInv, RequestsAreOne
      <3> QED BY <3>1, <3>2
    <2>3. ASSUME NEW v \in Writers, Asks(v)', NEW f \in Nat, NEW i \in Nat
          PROVE  ~Recorded("request", f, i, mine[v].of)'
      <3>1. Asks(v) /\ v # p
        BY <2>1, <2>3
      <3>2. ~(w.kind = "request" /\ w.of = mine[v].of)
        BY <1>2, <1>10, <3>1 DEF LogsInv, RequestsAreOne
      <3> QED BY <1>3, <1>6, <3>1, <3>2 DEF LogsInv, RequestsAreOne
    <2>4. \A v, u \in Writers :
              Asks(v)' /\ Asks(u)' /\ mine'[u].of = mine'[v].of => u = v
      BY <1>3, <2>1 DEF LogsInv, RequestsAreOne
    <2> QED BY <1>3, <2>2, <2>3, <2>4 DEF RequestsAreOne
  <1>15. DecisionsFollow'
    <2>1. ASSUME NEW d \in Deciders, pc'[d] # "idle"
          PROVE  /\ d \in Logs!LogUsers /\ pc[d] # "idle" /\ mine'[d] = mine[d]
                 /\ pc'[d] \in {"open", "text", "newline"} /\ mine[d].kind = "decision"
                 /\ (d # p => pc'[d] = pc[d])
      BY <1>3, <1>7, <2>1 DEF Logs!LogUsers, LogsInv, DecisionsFollow
    <2>2. \A a \in decided' : Settled(a)'
      BY <1>3, <1>12 DEF LogsInv, DecisionsFollow
    <2>3. ASSUME NEW d \in Deciders, NEW a \in Approvals, pc'[d] # "idle", mine'[d].of = a
          PROVE  /\ AskedFor(a)'
                 /\ pc'[d] = "text" => \A f \in Nat, i \in Nat :
                        Recorded("request", f, i, a)' => f <= handle'[d]
                 /\ pc'[d] = "newline" => Settled(a)'
      <3>1. AskedFor(a) /\ mine[d].of = a
        BY <2>1, <2>3 DEF LogsInv, DecisionsFollow
      <3>2. AskedFor(a)'
        BY <1>13, <3>1
      <3>3. \A f, i : Recorded("request", f, i, a)' <=> Recorded("request", f, i, a)
        <4>1. ~(w.kind = "request" /\ w.of = a)
          BY <1>11, <3>1 DEF AskedFor
        <4> QED BY <1>6, <4>1
      <3>4. CASE d = p
        <4>1. w.kind = "decision" /\ w.of = a
          BY <1>2, <2>1, <2>3, <3>1, <3>4
        <4>2. ASSUME NEW f \in Nat, NEW i \in Nat, Recorded("request", f, i, a)
              PROVE  f < h \/ (f = h /\ i < last)
          <5>1. f <= h
            BY <1>3, <1>2, <2>1, <3>1, <3>4, <4>2 DEF LogsInv, DecisionsFollow
          <5>2. f = h => i < last
            BY <1>5, <4>2 DEF Recorded, LogsInv, LogTypes, Contents
          <5> QED BY <1>6, <5>1, <5>2
        <4>3. Recorded("decision", h, last, a)'
          BY <1>6, <4>1
        <4>4. Settled(a)'
          BY <1>6, <3>2, <3>3, <4>2, <4>3 DEF Settled
        <4> QED BY <1>7, <3>2, <3>4, <4>4
      <3>5. CASE d # p
        <4>1. pc'[d] = pc[d] /\ handle'[d] = handle[d]
          BY <1>3, <2>1, <2>3, <3>5
        <4>2. pc[d] = "newline" => Settled(a)'
          BY <1>12, <2>1, <2>3, <3>1 DEF LogsInv, DecisionsFollow
        <4>3. pc[d] = "text" => \A f \in Nat, i \in Nat :
                  Recorded("request", f, i, a) => f <= handle[d]
          BY <2>1, <2>3, <3>1 DEF LogsInv, DecisionsFollow
        <4> QED BY <3>2, <3>3, <4>1, <4>2, <4>3
      <3> QED BY <3>4, <3>5
    <2> QED BY <2>1, <2>2, <2>3 DEF DecisionsFollow
  <1> QED BY <1>8, <1>9, <1>14, <1>15 DEF LogsInv

\* The end of line is written, and a decision is reported as recorded.
LEMMA WriteNewlineLogs ==
    ASSUME LogsInv, NEW p \in Logs!LogUsers, Logs!WriteNewline(p) PROVE LogsInv'
  <1>1. pc[p] = "newline" /\ handle[p] \in DOMAIN content /\ mine[p] \in LogTexts
    BY DEF Logs!WriteNewline, LogsInv, LogTypes
  <1>2. PICK h \in DOMAIN content, nl \in {Logs!NL}, b \in Approvals :
            h = handle[p] /\ b = mine[p].of
    BY <1>1 DEF LogTexts
  <1>3. /\ pc' = [pc EXCEPT ![p] = "idle"] /\ handle' = [handle EXCEPT ![p] = 0]
        /\ content' = [content EXCEPT ![h] = Append(@, nl)]
        /\ UNCHANGED <<current, appended, mine, tail>>
        /\ \A a \in decided' : a \in decided \/ (p \in Deciders /\ a = b)
    BY <1>2 DEF Logs!WriteNewline, Logs!Goto
  <1>4. nl \in Writes /\ nl.kind = "newline"
    BY DEF Writes, Logs!NL
  <1>5. LogTypes
    BY DEF LogsInv
  <1>6. content' \in Contents /\ Len(content') = Len(content) /\ DOMAIN content' = DOMAIN content
    BY <1>3, <1>4, <1>5, AppendIs
  <1>7. \A a, f, i : Recorded("request", f, i, a)' <=> Recorded("request", f, i, a)
    <2>1. \A kind, a, f, i : Recorded(kind, f, i, a)' <=>
                 \/ Recorded(kind, f, i, a)
                 \/ f = h /\ i = Len(content[h]) + 1 /\ nl.kind = kind /\ nl.of = a
      BY <1>3, <1>4, <1>5, RecordedAfter
    <2>2. nl.kind # "request"
      BY <1>4
    <2> QED BY <2>1, <2>2
  <1>8. ASSUME NEW a, Settled(a) PROVE Settled(a)'
    <2>1. nl.kind # "request"
      BY <1>4
    <2> QED BY <1>3, <1>4, <1>5, <1>8, <2>1, SettledStays
  <1>9. /\ pc'[p] = "idle"
        /\ \A q \in Logs!LogUsers : q # p => pc'[q] = pc[q] /\ handle'[q] = handle[q]
    BY <1>3, <1>5 DEF LogTypes
  <1>10. LogTypes'
    <2>1. pc' \in [Logs!LogUsers -> Logs!LogSteps]
      BY <1>3, <1>5 DEF LogTypes, Logs!LogSteps
    <2>2. handle' \in [Logs!LogUsers -> Nat]
      BY <1>3, <1>5 DEF LogTypes
    <2>3. \A q \in Logs!LogUsers :
            /\ pc'[q] # "idle" => mine'[q] \in LogTexts
            /\ pc'[q] \in {"text", "newline"} => handle'[q] \in DOMAIN content'
      BY <1>3, <1>5, <1>6, <1>9 DEF LogTypes
    <2> QED BY <1>3, <1>5, <1>6, <2>1, <2>2, <2>3 DEF LogTypes
  <1>11. RequestsAreOne'
    <2>1. \A v \in Writers : Asks(v)' => Asks(v)
      BY <1>3, <1>9 DEF Asks, Logs!LogUsers
    <2> QED BY <1>3, <1>7, <2>1 DEF LogsInv, RequestsAreOne
  <1>12. DecisionsFollow'
    <2>1. ASSUME NEW d \in Deciders, pc'[d] # "idle"
          PROVE  d \in Logs!LogUsers /\ d # p /\ pc'[d] = pc[d] /\ handle'[d] = handle[d]
      BY <1>9, <2>1 DEF Logs!LogUsers
    <2>2. \A d \in Deciders : pc'[d] # "idle" =>
              pc'[d] \in {"open", "text", "newline"} /\ mine'[d].kind = "decision"
      BY <1>3, <2>1 DEF LogsInv, DecisionsFollow
    <2>3. ASSUME NEW d \in Deciders, NEW a \in Approvals, pc'[d] # "idle", mine'[d].of = a
          PROVE  /\ AskedFor(a)'
                 /\ pc'[d] = "text" => \A f \in Nat, i \in Nat :
                        Recorded("request", f, i, a)' => f <= handle'[d]
                 /\ pc'[d] = "newline" => Settled(a)'
      <3>1. pc[d] # "idle" /\ mine[d].of = a
        BY <1>3, <2>1, <2>3
      <3>2. AskedFor(a)'
        BY <1>7, <3>1 DEF LogsInv, DecisionsFollow, AskedFor
      <3>3. pc'[d] = "newline" => Settled(a)'
        BY <1>8, <2>1, <2>3, <3>1 DEF LogsInv, DecisionsFollow
      <3>4. pc[d] = "text" => \A f \in Nat, i \in Nat :
                Recorded("request", f, i, a) => f <= handle[d]
        BY <3>1 DEF LogsInv, DecisionsFollow
      <3> QED BY <1>7, <2>1, <2>3, <3>2, <3>3, <3>4
    <2>4. ASSUME NEW a \in decided' PROVE Settled(a)'
      <3>1. Settled(a)
        BY <1>1, <1>2, <1>3 DEF LogsInv, DecisionsFollow
      <3> QED BY <1>8, <3>1
    <2> QED BY <2>2, <2>3, <2>4 DEF DecisionsFollow
  <1>13. TailFollows'
    BY <1>3, <1>4, TailAfterWrite
  <1> QED BY <1>10, <1>11, <1>12, <1>13 DEF LogsInv

\* A page from the offset on shows what is older than the pages before.
LEMMA PageShows ==
    ASSUME NEW S \in SUBSET Nat, IsFiniteSet(S), NEW offset \in Nat, NEW shown,
           shown = {i \in S : Logs!Later(i, S) \in offset..(offset + PageLimit - 1)}
    PROVE  /\ Cardinality(shown) \in Nat
           /\ \A i \in S : Logs!Later(i, S) < offset + Cardinality(shown) =>
                 Logs!Later(i, S) < offset \/ i \in shown
           /\ offset + Cardinality(shown) >= Cardinality(S) =>
                 \A i \in S : Logs!Later(i, S) < offset + Cardinality(shown)
  <1>1. Cardinality(shown) \in Nat /\ Cardinality(shown) <= PageLimit
    BY PageIsShort
  <1>2. \A i \in S : Logs!Later(i, S) \in Nat /\ Logs!Later(i, S) < Cardinality(S)
    BY LaterIs
  <1>3. Cardinality(S) \in Nat
    BY FS_CardinalityType
  <1>4. ASSUME NEW i \in S, Logs!Later(i, S) < offset + Cardinality(shown),
               ~(Logs!Later(i, S) < offset)
        PROVE  i \in shown
    <2>1. Logs!Later(i, S) \in offset..(offset + PageLimit - 1)
      BY <1>1, <1>2, <1>4, LogsAssumption
    <2> QED BY <2>1
  <1>5. ASSUME offset + Cardinality(shown) >= Cardinality(S), NEW i \in S
        PROVE  Logs!Later(i, S) < offset + Cardinality(shown)
    <2> HIDE DEF Logs!Later
    <2> QED BY <1>1, <1>2, <1>3, <1>5
  <1> QED BY <1>1, <1>4, <1>5

\* A reader goes through the pages.
LEMMA TailLogs == ASSUME LogsInv, Logs!StartTail \/ Logs!NextPage PROVE LogsInv'
  <1>1. UNCHANGED <<content, current, appended, pc, mine, handle, decided>>
    BY DEF Logs!StartTail, Logs!NextPage, Logs!files
  <1>2. LogTypes' /\ RequestsAreOne' /\ DecisionsFollow'
    <2>1. \A kind, f, i, a : Recorded(kind, f, i, a)' <=> Recorded(kind, f, i, a)
      BY <1>1 DEF Recorded
    <2>2. \A a : (AskedFor(a)' <=> AskedFor(a)) /\ (Settled(a)' <=> Settled(a))
      BY <2>1 DEF AskedFor, Settled
    <2>3. \A v : Asks(v)' <=> Asks(v)
      BY <1>1 DEF Asks
    <2>4. LogTypes'
      BY <1>1 DEF LogsInv, LogTypes
    <2>5. RequestsAreOne'
      BY <1>1, <2>1, <2>3 DEF LogsInv, RequestsAreOne
    <2>6. DecisionsFollow'
      BY <1>1, <2>1, <2>2 DEF LogsInv, DecisionsFollow
    <2> QED BY <2>4, <2>5, <2>6
  <1> DEFINE text == Logs!Text(current)
  <1>3. Logs!Text(current)' = text
    BY <1>1 DEF Logs!Text
  <1>4. text \in Seq(Writes) /\ current \in 0..Len(content)
        /\ (current = 0 => Logs!Entries(text) = {})
    <2>1. current \in 0..Len(content) /\ text \in Seq(Writes)
      BY TextIs DEF LogsInv, LogTypes, Contents
    <2>2. current = 0 => DOMAIN text = {}
      BY DEF Logs!Text
    <2> QED BY <2>1, <2>2, CleanIs
  <1> HIDE DEF text
  <1> DEFINE E == Logs!Entries(text)
             S == Logs!Newest(E)
  <1>5. /\ E \in SUBSET Nat /\ IsFiniteSet(E) /\ S \in SUBSET Nat /\ IsFiniteSet(S)
        /\ S \subseteq E /\ (current = 0 => S = {}) /\ Logs!Malformed(text) \in Nat
    <2>1. E \in SUBSET DOMAIN text /\ Logs!Malformed(text) \in Nat
      BY <1>4, CleanIs
    <2>2. S \subseteq E
      BY DEF Logs!Newest
    <2> HIDE DEF E, S
    <2>3. S \in SUBSET DOMAIN text /\ (current = 0 => S = {})
      BY <1>4, <2>1, <2>2 DEF E
    <2> QED BY <1>4, <2>1, <2>2, <2>3, FiniteTexts
  <1>6. \A i \in S : Logs!Later(i, S) = Logs!Later(i, E)
    <2> SUFFICES ASSUME NEW i \in S PROVE Logs!Later(i, S) = Logs!Later(i, E)
      OBVIOUS
    <2> HIDE DEF E
    <2> QED BY <1>5, NewestLater
  <1>7. Logs!Newest(E) = S
    OBVIOUS
  <1> HIDE DEF S, E
  <1>8. CASE Logs!StartTail
    <2>1. tail' = [active |-> TRUE, offset |-> 0, seen |-> {}, ended |-> FALSE,
                   file |-> current, skipped |-> Logs!Malformed(text), first |-> S]
      BY <1>8 DEF Logs!StartTail, text, S, E
    <2>2. /\ tail'.active = TRUE /\ tail'.offset = 0 /\ tail'.seen = {} /\ tail'.ended = FALSE
          /\ tail'.file = current /\ tail'.skipped = Logs!Malformed(text) /\ tail'.first = S
      BY <2>1
    <2>3. \A i \in S : ~(Logs!Later(i, E) < 0)
      BY <1>5, LaterIs
    <2>4. TailOf(text)'
      <3>1. text' = text
        BY <1>3 DEF text
      <3>2. Logs!Malformed(text)' = Logs!Malformed(text)
            /\ Logs!Entries(text)' = E /\ Logs!Newest(Logs!Entries(text))' = S
        BY <1>7, <3>1 DEF E
      <3>3. Logs!Malformed(text) <= Logs!Malformed(text)
        BY <1>5
      <3>4. Shown(E)'
        BY <1>5, <1>7, <2>2, <2>3, <3>1, <3>2 DEF Shown, E
      <3> QED BY <2>2, <3>2, <3>3, <3>4 DEF TailOf, E
    <2>5. TailFollows'
      <3>1. current = 0 => Logs!Malformed(text) = 0
        <4>1. current = 0 => text = <<>>
          BY DEF text, Logs!Text
        <4>2. Logs!Malformed(<<>>) = 0
          <5>1. Clean(<<>>) /\ <<>> \in Seq(Writes)
            BY DEF Clean
          <5> QED BY <5>1, CleanIs
        <4> QED BY <4>1, <4>2
      <3> QED BY <1>1, <1>3, <1>4, <1>5, <2>1, <2>2, <2>4, <3>1 DEF TailFollows, text
    <2> QED BY <1>2, <2>5 DEF LogsInv
  <1>9. CASE Logs!NextPage
    <2> DEFINE shown == {i \in S : Logs!Later(i, S) \in tail.offset..(tail.offset + PageLimit - 1)}
               next == tail.offset + Cardinality(shown)
    <2>1. /\ tail.active /\ ~tail.ended
          /\ tail' = [tail EXCEPT !.offset = next, !.seen = @ \cup shown,
                                  !.ended = next >= Cardinality(S)]
      BY <1>9, LogCardinalityIs DEF Logs!NextPage, Logs!NextCursor, Logs!Page, text, S, E
    <2>2. /\ tail = [active |-> TRUE, offset |-> tail.offset, seen |-> tail.seen,
                     ended |-> tail.ended, file |-> tail.file, skipped |-> tail.skipped,
                     first |-> tail.first]
          /\ tail.offset \in Nat /\ tail.skipped \in Nat /\ tail.file \in 0..Len(content)
          /\ tail.file = 0 => tail.first = {} /\ tail.skipped = 0
      BY <2>1 DEF LogsInv, TailFollows
    <2>3. /\ Cardinality(shown) \in Nat
          /\ \A i \in S : Logs!Later(i, S) < next => Logs!Later(i, S) < tail.offset \/ i \in shown
          /\ next >= Cardinality(S) => \A i \in S : Logs!Later(i, S) < next
      <3> HIDE DEF shown
      <3>1. shown = {i \in S : Logs!Later(i, S) \in tail.offset..(tail.offset + PageLimit - 1)}
        BY DEF shown
      <3>2. tail.offset \in Nat /\ S \in SUBSET Nat /\ IsFiniteSet(S)
        BY <1>5, <2>2
      <3>3. Cardinality(shown) \in Nat
        BY <3>1, <3>2, PageShows
      <3>4. \A i \in S : Logs!Later(i, S) < tail.offset + Cardinality(shown) =>
                Logs!Later(i, S) < tail.offset \/ i \in shown
        BY <3>1, <3>2, PageShows
      <3>5. tail.offset + Cardinality(shown) >= Cardinality(S) =>
                \A i \in S : Logs!Later(i, S) < tail.offset + Cardinality(shown)
        BY <3>1, <3>2, PageShows
      <3> QED BY <3>3, <3>4, <3>5
    <2> HIDE DEF shown
    <2>4. tail' = [active |-> TRUE, offset |-> next, seen |-> tail.seen \cup shown,
                   ended |-> next >= Cardinality(S), file |-> tail.file,
                   skipped |-> tail.skipped, first |-> tail.first]
      BY <2>1, <2>2
    <2>5. next \in Nat
      BY <2>2, <2>3
    <2> HIDE DEF next
    <2>6. ASSUME tail.file = current, Logs!Malformed(text) = tail.skipped
          PROVE  /\ tail.first \subseteq E
                 /\ \A i \in tail.first \cap S : Logs!Later(i, E) < next =>
                        i \in tail.seen \cup shown
                 /\ next >= Cardinality(S) => tail.first \cap S \subseteq tail.seen \cup shown
      <3>1. Shown(E)
        BY <2>1, <2>6 DEF LogsInv, TailFollows, TailOf, text, E
      <3> QED BY <1>6, <1>7, <2>3, <3>1 DEF Shown
    <2>7. /\ tail'.active = TRUE /\ tail'.offset = next /\ tail'.seen = tail.seen \cup shown
          /\ tail'.ended = (next >= Cardinality(S)) /\ tail'.file = tail.file
          /\ tail'.skipped = tail.skipped /\ tail'.first = tail.first
      BY <2>4
    <2>8. tail'.ended \in BOOLEAN /\ (tail'.ended => next >= Cardinality(S))
      <3> DEFINE done == next >= Cardinality(S)
      <3>1. done \in BOOLEAN
        OBVIOUS
      <3>2. tail'.ended = done
        BY <2>7
      <3> HIDE DEF done
      <3>3. tail'.ended \in BOOLEAN /\ (tail'.ended => done)
        BY <3>1, <3>2
      <3> QED BY <3>3 DEF done
    <2>9. TailFollows'
      <3>1. text' = text
        BY <1>3 DEF text
      <3>2. tail' = [active |-> TRUE, offset |-> tail'.offset, seen |-> tail'.seen,
                     ended |-> tail'.ended, file |-> tail'.file, skipped |-> tail'.skipped,
                     first |-> tail'.first]
        BY <2>4, <2>7
      <3>3. E' = E /\ S' = S
        BY <3>1 DEF E, S
      <3>4. ASSUME tail.file = current PROVE TailOf(text)'
        <4>1. Logs!Malformed(text) = tail.skipped => Shown(E)'
          BY <1>7, <2>6, <2>7, <2>8, <3>1, <3>3, <3>4 DEF Shown, S
        <4>2. tail.skipped <= Logs!Malformed(text)
          BY <2>1, <3>4 DEF LogsInv, TailFollows, TailOf, text
        <4> QED BY <2>7, <3>1, <4>1, <4>2 DEF TailOf, E
      <3> QED BY <1>1, <1>3, <2>2, <2>5, <2>7, <2>8, <3>1, <3>2, <3>4 DEF TailFollows, text
    <2> QED BY <1>2, <2>9 DEF LogsInv
  <1> QED BY <1>8, <1>9

\* The invariant of the log, under its own specification.
THEOREM LogsInvariance == Logs!Spec => []LogsInv
  <1>1. LogsInv /\ [Logs!Next]_(Logs!vars) => LogsInv'
    <2> SUFFICES ASSUME LogsInv, [Logs!Next]_(Logs!vars) PROVE LogsInv'
      OBVIOUS
    <2>1. CASE UNCHANGED Logs!vars
      BY <2>1 DEF Logs!vars, LogsInv, LogTypes, RequestsAreOne, DecisionsFollow, TailFollows,
         TailOf, Shown, Recorded, AskedFor, Settled, Asks, Logs!Text
    <2>2. ASSUME NEW w \in Writers, Logs!Size(w) \/ Logs!FindOld(w) \/ Logs!FindCurrent(w)
          PROVE  LogsInv'
      BY <2>2, WriterMoves DEF Logs!Size, Logs!FindOld, Logs!FindCurrent, Logs!Goto, Logs!files,
         Logs!rest
    <2>3. ASSUME NEW w \in Writers, Logs!RemoveOld(w) PROVE LogsInv'
      BY <2>3, WriterMoves DEF Logs!RemoveOld, Logs!Goto, Logs!files, Logs!rest
    <2>4. ASSUME NEW w \in Writers, Logs!RenameCurrent(w) PROVE LogsInv'
      BY <2>4, WriterMoves DEF Logs!RenameCurrent, Logs!Goto, Logs!files, Logs!rest
    <2> QED BY <2>1, <2>2, <2>3, <2>4, BeginLogs, OpenLogs, WriteTextLogs, WriteNewlineLogs,
               ReadInboxLogs, TailLogs DEF Logs!Next
  <1> QED BY <1>1, InitLogs, PTL DEF Logs!Spec

\* Whoever reads the log sees what was written into it, for any writers, commands,
\* approvals, sizes and limits: logs.rs, read_recent_log_entries, and the inbox and the
\* pages of the CLI.
THEOREM ReadersAlwaysSeeTheLog == LibrariesSpec => []ReadersSeeTheLog
  <1>1. LogsInv => ReadersSeeTheLog
    BY LogsAreRead DEF ReadersSeeTheLog
  <1> QED BY <1>1, LogsInvariance, LogsIsAPart, PTL
=============================================================================
