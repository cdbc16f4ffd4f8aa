------------------------ MODULE WorkspaceWritesProofs ------------------------
(***************************************************************************)
(* What WorkspaceWrites guarantees for every number of files, placed in    *)
(* whatever directories, and for any number of edits and failures: a patch *)
(* can be reversed until all of it is done, one that failed left nothing,  *)
(* and only content that was read is replaced.                             *)
(*                                                                         *)
(* For each part of the inductive invariant IInv, a lemma says that steps  *)
(* preserve it; in its proof, one step per action.                         *)
(***************************************************************************)
EXTENDS WorkspaceWrites, TLAPS

USE WriteAssumption

\* A directory is dated with the time of the clock.
LEMMA EnterType ==
    ASSUME WorkspaceTypeOK, NEW files, Enter(files)
    PROVE  changed' \in [Dirs -> 0..MaxTicks]
BY DEF WorkspaceTypeOK, Enter

\* But for the removal of its copies, a job is at one of its files.
LEMMA AtFile ==
    ASSUME IInv, pc \in Steps \ {"clean"}
    PROVE  i \in Files
BY DEF IInv, TypeOK, JobTypeOK, PatchFits, WriteFits, Steps, Ends, Files

\* Every step keeps the types.
LEMMA TypeStep ==
    ASSUME IInv, [Next]_vars
    PROVE  TypeOK'
<1> USE DEF Files
<1>1. CASE Snapshot
  <2>0. i \in Files
    BY <1>1, AtFile DEF Snapshot, Steps
  <2>1. JobTypeOK'
    BY <1>1, <2>0 DEF Snapshot, Goto, Looks, workspace, IInv, TypeOK, JobTypeOK,
       WorkspaceTypeOK, Contents, Regular, Steps, Ends
  <2>2. WorkspaceTypeOK'
    BY <1>1, <2>0 DEF Snapshot, Goto, Looks, workspace, IInv, TypeOK, JobTypeOK,
       WorkspaceTypeOK, Contents, Regular, Steps, Ends
  <2>3. gap' \subseteq Files /\ blind' \subseteq Files /\ edits' \in 0..MaxEdits /\ faults' \in 0..MaxFaults
    BY <1>1, <2>0 DEF Snapshot, Goto, Looks, workspace, IInv, TypeOK, JobTypeOK,
       WorkspaceTypeOK, Contents, Regular, Steps, Ends
  <2> QED
    BY <2>1, <2>2, <2>3 DEF TypeOK
<1>2. CASE Read
  <2>1. JobTypeOK'
    <3>1. op' \in {"patch", "write"}
      BY <1>2 DEF Read, Goto, Looks, workspace, NextOfPatch, IInv, TypeOK, JobTypeOK,
         WorkspaceTypeOK, Contents, Regular, Steps, Ends
    <3>2. pc' \in Steps \cup Ends
      BY <1>2 DEF Read, Goto, Looks, workspace, NextOfPatch, IInv, TypeOK, JobTypeOK,
         WorkspaceTypeOK, Contents, Regular, Steps, Ends
    <3>3. i' \in 1..(N + 1)
      BY <1>2 DEF Read, Goto, Looks, workspace, NextOfPatch, IInv, TypeOK, JobTypeOK,
         WorkspaceTypeOK, Contents, Regular, Steps, Ends
    <3>4. read' \in [Files -> Contents]
      BY <1>2 DEF Read, Goto, Looks, workspace, NextOfPatch, IInv, TypeOK, JobTypeOK,
         WorkspaceTypeOK, Contents, Regular, Steps, Ends
    <3>5. seen' \in [Files -> 0..MaxTicks]
      BY <1>2 DEF Read, Goto, Looks, workspace, NextOfPatch, IInv, TypeOK, JobTypeOK,
         WorkspaceTypeOK, Contents, Regular, Steps, Ends
    <3>6. same' \subseteq Files
      BY <1>2 DEF Read, Goto, Looks, workspace, NextOfPatch, IInv, TypeOK, JobTypeOK,
         WorkspaceTypeOK, Contents, Regular, Steps, Ends
    <3>7. temps' \subseteq Files /\ copies' \subseteq Files
      BY <1>2 DEF Read, Goto, Looks, workspace, NextOfPatch, IInv, TypeOK, JobTypeOK,
         WorkspaceTypeOK, Contents, Regular, Steps, Ends
    <3>8. conflict' \in BOOLEAN
      BY <1>2 DEF Read, Goto, Looks, workspace, NextOfPatch, IInv, TypeOK, JobTypeOK,
         WorkspaceTypeOK, Contents, Regular, Steps, Ends
    <3> QED
      BY <3>1, <3>2, <3>3, <3>4, <3>5, <3>6, <3>7, <3>8 DEF JobTypeOK
  <2>2. WorkspaceTypeOK'
    BY <1>2 DEF Read, Goto, Looks, workspace, NextOfPatch, IInv, TypeOK, JobTypeOK,
       WorkspaceTypeOK, Contents, Regular, Steps, Ends
  <2>3. gap' \subseteq Files /\ blind' \subseteq Files /\ edits' \in 0..MaxEdits /\ faults' \in 0..MaxFaults
    BY <1>2 DEF Read, Goto, Looks, workspace, NextOfPatch, IInv, TypeOK, JobTypeOK,
       WorkspaceTypeOK, Contents, Regular, Steps, Ends
  <2> QED
    BY <2>1, <2>2, <2>3 DEF TypeOK
<1>3. CASE PrepareTemp
  <2>0. i \in Files
    BY <1>3, AtFile DEF PrepareTemp, Steps
  <2>1. JobTypeOK'
    BY <1>3, <2>0 DEF PrepareTemp, Goto, Enter, Copies, IInv, TypeOK, JobTypeOK,
       WorkspaceTypeOK, Contents, Regular, Steps, Ends
  <2>2. WorkspaceTypeOK'
    BY <1>3, <2>0 DEF PrepareTemp, Goto, Enter, Copies, IInv, TypeOK, JobTypeOK,
       WorkspaceTypeOK, Contents, Regular, Steps, Ends
  <2>3. gap' \subseteq Files /\ blind' \subseteq Files /\ edits' \in 0..MaxEdits /\ faults' \in 0..MaxFaults
    BY <1>3, <2>0 DEF PrepareTemp, Goto, Enter, Copies, IInv, TypeOK, JobTypeOK,
       WorkspaceTypeOK, Contents, Regular, Steps, Ends
  <2> QED
    BY <2>1, <2>2, <2>3 DEF TypeOK
<1>4. CASE PrepareCopy
  <2>0. i \in Files
    BY <1>4, AtFile DEF PrepareCopy, Steps
  <2>1. JobTypeOK'
    BY <1>4, <2>0, SMTT(30) DEF PrepareCopy, Goto, Enter, Copies, IInv, TypeOK, JobTypeOK,
       WorkspaceTypeOK, Contents, Regular, Steps, Ends
  <2>2. WorkspaceTypeOK'
    BY <1>4, <2>0 DEF PrepareCopy, Goto, Enter, Copies, IInv, TypeOK, JobTypeOK,
       WorkspaceTypeOK, Contents, Regular, Steps, Ends
  <2>3. gap' \subseteq Files /\ blind' \subseteq Files /\ edits' \in 0..MaxEdits /\ faults' \in 0..MaxFaults
    BY <1>4, <2>0 DEF PrepareCopy, Goto, Enter, Copies, IInv, TypeOK, JobTypeOK,
       WorkspaceTypeOK, Contents, Regular, Steps, Ends
  <2> QED
    BY <2>1, <2>2, <2>3 DEF TypeOK
<1>5. CASE PrepareFails
  <2>0. i \in Files
    BY <1>5, AtFile DEF PrepareFails, Steps
  <2>1. JobTypeOK'
    BY <1>5, <2>0 DEF PrepareFails, Goto, Enter, Fault, IInv, TypeOK, JobTypeOK,
       WorkspaceTypeOK, Contents, Regular, Steps, Ends
  <2>2. WorkspaceTypeOK'
    BY <1>5, <2>0 DEF PrepareFails, Goto, Enter, Fault, IInv, TypeOK, JobTypeOK,
       WorkspaceTypeOK, Contents, Regular, Steps, Ends
  <2>3. gap' \subseteq Files /\ blind' \subseteq Files /\ edits' \in 0..MaxEdits /\ faults' \in 0..MaxFaults
    BY <1>5, <2>0 DEF PrepareFails, Goto, Enter, Fault, IInv, TypeOK, JobTypeOK,
       WorkspaceTypeOK, Contents, Regular, Steps, Ends
  <2> QED
    BY <2>1, <2>2, <2>3 DEF TypeOK
<1>6. CASE Validate
  BY <1>6 DEF Validate, Goto, Looks, workspace, Unchanged, IInv, TypeOK, JobTypeOK,
     WorkspaceTypeOK, Contents, Regular, Steps, Ends
<1>7. CASE ValidateFails
  BY <1>7 DEF ValidateFails, Goto, Looks, workspace, Unchanged, IInv, TypeOK,
     JobTypeOK, WorkspaceTypeOK, Contents, Regular, Steps, Ends
<1>8. CASE Rename
  <2>1. JobTypeOK'
    <3>1. op' \in {"patch", "write"}
      BY <1>8 DEF Rename, Goto, Enter, IInv, TypeOK, JobTypeOK, WorkspaceTypeOK,
         Contents, Regular, Steps, Ends
    <3>2. pc' \in Steps \cup Ends
      BY <1>8 DEF Rename, Goto, Enter, IInv, TypeOK, JobTypeOK, WorkspaceTypeOK,
         Contents, Regular, Steps, Ends
    <3>3. i' \in 1..(N + 1)
      BY <1>8 DEF Rename, Goto, Enter, IInv, TypeOK, JobTypeOK, WorkspaceTypeOK,
         Contents, Regular, Steps, Ends
    <3>4. read' \in [Files -> Contents]
      BY <1>8 DEF Rename, Goto, Enter, IInv, TypeOK, JobTypeOK, WorkspaceTypeOK,
         Contents, Regular, Steps, Ends
    <3>5. seen' \in [Files -> 0..MaxTicks]
      BY <1>8 DEF Rename, Goto, Enter, IInv, TypeOK, JobTypeOK, WorkspaceTypeOK,
         Contents, Regular, Steps, Ends
    <3>6. same' \subseteq Files
      BY <1>8 DEF Rename, Goto, Enter, IInv, TypeOK, JobTypeOK, WorkspaceTypeOK,
         Contents, Regular, Steps, Ends
    <3>7. temps' \subseteq Files /\ copies' \subseteq Files
      BY <1>8 DEF Rename, Goto, Enter, IInv, TypeOK, JobTypeOK, WorkspaceTypeOK,
         Contents, Regular, Steps, Ends
    <3>8. conflict' \in BOOLEAN
      BY <1>8 DEF Rename, Goto, Enter, IInv, TypeOK, JobTypeOK, WorkspaceTypeOK,
         Contents, Regular, Steps, Ends
    <3> QED
      BY <3>1, <3>2, <3>3, <3>4, <3>5, <3>6, <3>7, <3>8 DEF JobTypeOK
  <2>2. WorkspaceTypeOK'
    BY <1>8 DEF Rename, Goto, Enter, IInv, TypeOK, JobTypeOK, WorkspaceTypeOK,
       Contents, Regular, Steps, Ends
  <2>3. gap' \subseteq Files /\ blind' \subseteq Files /\ edits' \in 0..MaxEdits /\ faults' \in 0..MaxFaults
    BY <1>8 DEF Rename, Goto, Enter, IInv, TypeOK, JobTypeOK, WorkspaceTypeOK,
       Contents, Regular, Steps, Ends
  <2> QED
    BY <2>1, <2>2, <2>3 DEF TypeOK
<1>9. CASE RenameFails
  <2>1. JobTypeOK'
    <3>1. op' \in {"patch", "write"}
      BY <1>9 DEF RenameFails, Goto, Fault, workspace, IInv, TypeOK, JobTypeOK,
         WorkspaceTypeOK, Contents, Regular, Steps, Ends
    <3>2. pc' \in Steps \cup Ends
      BY <1>9 DEF RenameFails, Goto, Fault, workspace, IInv, TypeOK, JobTypeOK,
         WorkspaceTypeOK, Contents, Regular, Steps, Ends
    <3>3. i' \in 1..(N + 1)
      BY <1>9 DEF RenameFails, Goto, Fault, workspace, IInv, TypeOK, JobTypeOK,
         WorkspaceTypeOK, Contents, Regular, Steps, Ends
    <3>4. read' \in [Files -> Contents]
      BY <1>9 DEF RenameFails, Goto, Fault, workspace, IInv, TypeOK, JobTypeOK,
         WorkspaceTypeOK, Contents, Regular, Steps, Ends
    <3>5. seen' \in [Files -> 0..MaxTicks]
      BY <1>9 DEF RenameFails, Goto, Fault, workspace, IInv, TypeOK, JobTypeOK,
         WorkspaceTypeOK, Contents, Regular, Steps, Ends
    <3>6. same' \subseteq Files
      BY <1>9 DEF RenameFails, Goto, Fault, workspace, IInv, TypeOK, JobTypeOK,
         WorkspaceTypeOK, Contents, Regular, Steps, Ends
    <3>7. temps' \subseteq Files /\ copies' \subseteq Files
      BY <1>9 DEF RenameFails, Goto, Fault, workspace, IInv, TypeOK, JobTypeOK,
         WorkspaceTypeOK, Contents, Regular, Steps, Ends
    <3>8. conflict' \in BOOLEAN
      BY <1>9 DEF RenameFails, Goto, Fault, workspace, IInv, TypeOK, JobTypeOK,
         WorkspaceTypeOK, Contents, Regular, Steps, Ends
    <3> QED
      BY <3>1, <3>2, <3>3, <3>4, <3>5, <3>6, <3>7, <3>8 DEF JobTypeOK
  <2>2. WorkspaceTypeOK'
    BY <1>9 DEF RenameFails, Goto, Fault, workspace, IInv, TypeOK, JobTypeOK,
       WorkspaceTypeOK, Contents, Regular, Steps, Ends
  <2>3. gap' \subseteq Files /\ blind' \subseteq Files /\ edits' \in 0..MaxEdits /\ faults' \in 0..MaxFaults
    BY <1>9, SMTT(30) DEF RenameFails, Goto, Fault, workspace, IInv, TypeOK, JobTypeOK,
       WorkspaceTypeOK, Contents, Regular, Steps, Ends
  <2> QED
    BY <2>1, <2>2, <2>3 DEF TypeOK
<1>10. CASE Verify
  <2>1. JobTypeOK'
    <3>1. op' \in {"patch", "write"}
      BY <1>10 DEF Verify, Goto, Looks, workspace, IInv, TypeOK, JobTypeOK,
         WorkspaceTypeOK, Contents, Regular, Steps, Ends
    <3>2. pc' \in Steps \cup Ends
      BY <1>10 DEF Verify, Goto, Looks, workspace, IInv, TypeOK, JobTypeOK,
         WorkspaceTypeOK, Contents, Regular, Steps, Ends
    <3>3. i' \in 1..(N + 1)
      <4>1. i \in 1..(N + 1) /\ N \in Nat
        BY WriteAssumption DEF IInv, TypeOK, JobTypeOK
      <4>2. i' = i \/ (i < N /\ i' = i + 1)
        BY <1>10 DEF Verify, Goto
      <4> QED
        BY <4>1, <4>2
    <3>4. read' \in [Files -> Contents]
      BY <1>10 DEF Verify, Goto, Looks, workspace, IInv, TypeOK, JobTypeOK,
         WorkspaceTypeOK, Contents, Regular, Steps, Ends
    <3>5. seen' \in [Files -> 0..MaxTicks]
      BY <1>10 DEF Verify, Goto, Looks, workspace, IInv, TypeOK, JobTypeOK,
         WorkspaceTypeOK, Contents, Regular, Steps, Ends
    <3>6. same' \subseteq Files
      BY <1>10 DEF Verify, Goto, Looks, workspace, IInv, TypeOK, JobTypeOK,
         WorkspaceTypeOK, Contents, Regular, Steps, Ends
    <3>7. temps' \subseteq Files /\ copies' \subseteq Files
      BY <1>10 DEF Verify, Goto, Looks, workspace, IInv, TypeOK, JobTypeOK,
         WorkspaceTypeOK, Contents, Regular, Steps, Ends
    <3>8. conflict' \in BOOLEAN
      BY <1>10 DEF Verify, Goto, Looks, workspace, IInv, TypeOK, JobTypeOK,
         WorkspaceTypeOK, Contents, Regular, Steps, Ends
    <3> QED
      BY <3>1, <3>2, <3>3, <3>4, <3>5, <3>6, <3>7, <3>8 DEF JobTypeOK
  <2>2. WorkspaceTypeOK'
    BY <1>10 DEF Verify, Goto, Looks, workspace, IInv, TypeOK, JobTypeOK,
       WorkspaceTypeOK, Contents, Regular, Steps, Ends
  <2>3. gap' \subseteq Files /\ blind' \subseteq Files /\ edits' \in 0..MaxEdits /\ faults' \in 0..MaxFaults
    BY <1>10 DEF Verify, Goto, Looks, workspace, IInv, TypeOK, JobTypeOK,
       WorkspaceTypeOK, Contents, Regular, Steps, Ends
  <2> QED
    BY <2>1, <2>2, <2>3 DEF TypeOK
<1>11. CASE Clean
  <2>1. JobTypeOK'
    <3>1. op' \in {"patch", "write"}
      BY <1>11 DEF Clean, Goto, Enter, Copies, IInv, TypeOK, JobTypeOK,
         WorkspaceTypeOK, Contents, Regular, Steps, Ends
    <3>2. pc' \in Steps \cup Ends
      BY <1>11 DEF Clean, Goto, Enter, Copies, IInv, TypeOK, JobTypeOK,
         WorkspaceTypeOK, Contents, Regular, Steps, Ends
    <3>3. i' \in 1..(N + 1)
      BY <1>11 DEF Clean, Goto, Enter, Copies, IInv, TypeOK, JobTypeOK,
         WorkspaceTypeOK, Contents, Regular, Steps, Ends
    <3>4. read' \in [Files -> Contents]
      BY <1>11 DEF Clean, Goto, Enter, Copies, IInv, TypeOK, JobTypeOK,
         WorkspaceTypeOK, Contents, Regular, Steps, Ends
    <3>5. seen' \in [Files -> 0..MaxTicks]
      BY <1>11 DEF Clean, Goto, Enter, Copies, IInv, TypeOK, JobTypeOK,
         WorkspaceTypeOK, Contents, Regular, Steps, Ends
    <3>6. same' \subseteq Files
      BY <1>11 DEF Clean, Goto, Enter, Copies, IInv, TypeOK, JobTypeOK,
         WorkspaceTypeOK, Contents, Regular, Steps, Ends
    <3>7. temps' \subseteq Files /\ copies' \subseteq Files
      BY <1>11 DEF Clean, Goto, Enter, Copies, IInv, TypeOK, JobTypeOK,
         WorkspaceTypeOK, Contents, Regular, Steps, Ends
    <3>8. conflict' \in BOOLEAN
      BY <1>11 DEF Clean, Goto, Enter, Copies, IInv, TypeOK, JobTypeOK,
         WorkspaceTypeOK, Contents, Regular, Steps, Ends
    <3> QED
      BY <3>1, <3>2, <3>3, <3>4, <3>5, <3>6, <3>7, <3>8 DEF JobTypeOK
  <2>2. WorkspaceTypeOK'
    BY <1>11 DEF Clean, Goto, Enter, Copies, IInv, TypeOK, JobTypeOK, WorkspaceTypeOK,
       Contents, Regular, Steps, Ends
  <2>3. gap' \subseteq Files /\ blind' \subseteq Files /\ edits' \in 0..MaxEdits /\ faults' \in 0..MaxFaults
    BY <1>11 DEF Clean, Goto, Enter, Copies, IInv, TypeOK, JobTypeOK, WorkspaceTypeOK,
       Contents, Regular, Steps, Ends
  <2> QED
    BY <2>1, <2>2, <2>3 DEF TypeOK
<1>12. CASE RemoveTemps
  <2>1. JobTypeOK'
    <3>1. op' \in {"patch", "write"}
      BY <1>12 DEF RemoveTemps, Goto, Enter, Copies, IInv, TypeOK, JobTypeOK,
         WorkspaceTypeOK, Contents, Regular, Steps, Ends
    <3>2. pc' \in Steps \cup Ends
      BY <1>12 DEF RemoveTemps, Goto, Enter, Copies, IInv, TypeOK, JobTypeOK,
         WorkspaceTypeOK, Contents, Regular, Steps, Ends
    <3>3. i' \in 1..(N + 1)
      BY <1>12 DEF RemoveTemps, Goto, Enter, Copies, IInv, TypeOK, JobTypeOK,
         WorkspaceTypeOK, Contents, Regular, Steps, Ends
    <3>4. read' \in [Files -> Contents]
      BY <1>12 DEF RemoveTemps, Goto, Enter, Copies, IInv, TypeOK, JobTypeOK,
         WorkspaceTypeOK, Contents, Regular, Steps, Ends
    <3>5. seen' \in [Files -> 0..MaxTicks]
      BY <1>12 DEF RemoveTemps, Goto, Enter, Copies, IInv, TypeOK, JobTypeOK,
         WorkspaceTypeOK, Contents, Regular, Steps, Ends
    <3>6. same' \subseteq Files
      BY <1>12 DEF RemoveTemps, Goto, Enter, Copies, IInv, TypeOK, JobTypeOK,
         WorkspaceTypeOK, Contents, Regular, Steps, Ends
    <3>7. temps' \subseteq Files /\ copies' \subseteq Files
      BY <1>12 DEF RemoveTemps, Goto, Enter, Copies, IInv, TypeOK, JobTypeOK,
         WorkspaceTypeOK, Contents, Regular, Steps, Ends
    <3>8. conflict' \in BOOLEAN
      BY <1>12 DEF RemoveTemps, Goto, Enter, Copies, IInv, TypeOK, JobTypeOK,
         WorkspaceTypeOK, Contents, Regular, Steps, Ends
    <3> QED
      BY <3>1, <3>2, <3>3, <3>4, <3>5, <3>6, <3>7, <3>8 DEF JobTypeOK
  <2>2. WorkspaceTypeOK'
    BY <1>12 DEF RemoveTemps, Goto, Enter, Copies, IInv, TypeOK, JobTypeOK,
       WorkspaceTypeOK, Contents, Regular, Steps, Ends
  <2>3. gap' \subseteq Files /\ blind' \subseteq Files /\ edits' \in 0..MaxEdits /\ faults' \in 0..MaxFaults
    BY <1>12 DEF RemoveTemps, Goto, Enter, Copies, IInv, TypeOK, JobTypeOK,
       WorkspaceTypeOK, Contents, Regular, Steps, Ends
  <2> QED
    BY <2>1, <2>2, <2>3 DEF TypeOK
<1>13. CASE Check
  BY <1>13 DEF Check, Goto, Looks, workspace, IInv, TypeOK, JobTypeOK,
     WorkspaceTypeOK, Contents, Regular, Steps, Ends
<1>14. CASE Restore
  <2>1. JobTypeOK'
    <3>1. op' \in {"patch", "write"}
      BY <1>14 DEF Restore, Goto, Enter, IInv, TypeOK, JobTypeOK, WorkspaceTypeOK,
         Contents, Regular, Steps, Ends
    <3>2. pc' \in Steps \cup Ends
      BY <1>14 DEF Restore, Goto, Enter, IInv, TypeOK, JobTypeOK, WorkspaceTypeOK,
         Contents, Regular, Steps, Ends
    <3>3. i' \in 1..(N + 1)
      BY <1>14 DEF Restore, Goto, Enter, IInv, TypeOK, JobTypeOK, WorkspaceTypeOK,
         Contents, Regular, Steps, Ends
    <3>4. read' \in [Files -> Contents]
      BY <1>14 DEF Restore, Goto, Enter, IInv, TypeOK, JobTypeOK, WorkspaceTypeOK,
         Contents, Regular, Steps, Ends
    <3>5. seen' \in [Files -> 0..MaxTicks]
      BY <1>14 DEF Restore, Goto, Enter, IInv, TypeOK, JobTypeOK, WorkspaceTypeOK,
         Contents, Regular, Steps, Ends
    <3>6. same' \subseteq Files
      BY <1>14 DEF Restore, Goto, Enter, IInv, TypeOK, JobTypeOK, WorkspaceTypeOK,
         Contents, Regular, Steps, Ends
    <3>7. temps' \subseteq Files /\ copies' \subseteq Files
      BY <1>14 DEF Restore, Goto, Enter, IInv, TypeOK, JobTypeOK, WorkspaceTypeOK,
         Contents, Regular, Steps, Ends
    <3>8. conflict' \in BOOLEAN
      BY <1>14 DEF Restore, Goto, Enter, IInv, TypeOK, JobTypeOK, WorkspaceTypeOK,
         Contents, Regular, Steps, Ends
    <3> QED
      BY <3>1, <3>2, <3>3, <3>4, <3>5, <3>6, <3>7, <3>8 DEF JobTypeOK
  <2>2. WorkspaceTypeOK'
    <3>1. file' \in [Files -> Contents]
      BY <1>14 DEF Restore, Goto, Enter, IInv, TypeOK, JobTypeOK, WorkspaceTypeOK,
         Contents, Regular, Steps, Ends
    <3>2. changed' \in [Dirs -> 0..MaxTicks]
      BY <1>14 DEF Restore, Goto, Enter, IInv, TypeOK, JobTypeOK, WorkspaceTypeOK,
         Contents, Regular, Steps, Ends
    <3>3. now' \in 0..MaxTicks
      BY <1>14 DEF Restore, Goto, Enter, IInv, TypeOK, JobTypeOK, WorkspaceTypeOK,
         Contents, Regular, Steps, Ends
    <3> QED
      BY <3>1, <3>2, <3>3 DEF WorkspaceTypeOK
  <2>3. gap' \subseteq Files /\ blind' \subseteq Files /\ edits' \in 0..MaxEdits /\ faults' \in 0..MaxFaults
    BY <1>14 DEF Restore, Goto, Enter, IInv, TypeOK, JobTypeOK, WorkspaceTypeOK,
       Contents, Regular, Steps, Ends
  <2> QED
    BY <2>1, <2>2, <2>3 DEF TypeOK
<1>15. CASE RollbackFails
  <2>1. JobTypeOK' /\ WorkspaceTypeOK'
    BY <1>15 DEF RollbackFails, Goto, Fault, workspace, IInv, TypeOK, JobTypeOK,
       WorkspaceTypeOK, Contents, Regular, Steps, Ends
  <2>2. gap' \subseteq Files /\ blind' \subseteq Files
    BY <1>15 DEF RollbackFails, IInv, TypeOK
  <2>3. edits' \in 0..MaxEdits /\ faults' \in 0..MaxFaults
    BY <1>15, WriteAssumption DEF RollbackFails, Fault, IInv, TypeOK
  <2> QED
    BY <2>1, <2>2, <2>3 DEF TypeOK
<1>16. CASE RemoveCopies
  <2>1. JobTypeOK'
    BY <1>16 DEF RemoveCopies, Goto, Copies, IInv, TypeOK, JobTypeOK, Steps, Ends
  <2>2. WorkspaceTypeOK'
    BY <1>16 DEF RemoveCopies, Enter, Copies, IInv, TypeOK, WorkspaceTypeOK
  <2> QED
    BY <1>16, <2>1, <2>2 DEF RemoveCopies, Copies, IInv, TypeOK
<1>17. CASE Crash
  <2>1. JobTypeOK' /\ WorkspaceTypeOK'
    BY <1>17 DEF Crash, workspace, IInv, TypeOK, JobTypeOK, WorkspaceTypeOK, Ends
  <2>2. edits' \in 0..MaxEdits /\ faults' \in 0..MaxFaults
    BY <1>17, WriteAssumption DEF Crash, Fault, IInv, TypeOK
  <2> QED
    BY <1>17, <2>1, <2>2 DEF Crash, IInv, TypeOK
<1>18. ASSUME NEW g \in Files, Edit(g) PROVE TypeOK'
  <2>1. JobTypeOK'
    BY <1>18, EnterType DEF Edit, Foreign, IInv, TypeOK, JobTypeOK, WorkspaceTypeOK,
       Contents, Regular, Steps, Ends
  <2>2. WorkspaceTypeOK'
    <3>1. file' \in [Files -> Contents]
      BY <1>18, EnterType DEF Edit, Foreign, IInv, TypeOK, JobTypeOK, WorkspaceTypeOK,
         Contents, Regular, Steps, Ends
    <3>2. changed' \in [Dirs -> 0..MaxTicks]
      BY <1>18, EnterType DEF Edit, IInv, TypeOK, WorkspaceTypeOK
    <3>3. now' \in 0..MaxTicks
      BY <1>18, EnterType DEF Edit, Foreign, IInv, TypeOK, JobTypeOK, WorkspaceTypeOK,
         Contents, Regular, Steps, Ends
    <3> QED
      BY <3>1, <3>2, <3>3 DEF WorkspaceTypeOK
  <2>3. gap' \subseteq Files /\ blind' \subseteq Files
    BY <1>18 DEF Edit, IInv, TypeOK
  <2>4. edits' \in 0..MaxEdits /\ faults' \in 0..MaxFaults
    BY <1>18, WriteAssumption DEF Edit, Foreign, IInv, TypeOK
  <2> QED
    BY <2>1, <2>2, <2>3, <2>4 DEF TypeOK
<1>19. ASSUME NEW d \in Dirs, TouchDirectory(d) PROVE TypeOK'
  <2>1. JobTypeOK'
    BY <1>19 DEF TouchDirectory, Foreign, job, IInv, TypeOK, JobTypeOK,
       WorkspaceTypeOK, Contents, Regular, Steps, Ends
  <2>2. WorkspaceTypeOK'
    <3>1. file' \in [Files -> Contents]
      BY <1>19 DEF TouchDirectory, Foreign, job, IInv, TypeOK, JobTypeOK,
         WorkspaceTypeOK, Contents, Regular, Steps, Ends
    <3>2. changed' \in [Dirs -> 0..MaxTicks]
      BY <1>19 DEF TouchDirectory, Foreign, job, IInv, TypeOK, JobTypeOK,
         WorkspaceTypeOK, Contents, Regular, Steps, Ends
    <3>3. now' \in 0..MaxTicks
      BY <1>19 DEF TouchDirectory, Foreign, job, IInv, TypeOK, JobTypeOK,
         WorkspaceTypeOK, Contents, Regular, Steps, Ends
    <3> QED
      BY <3>1, <3>2, <3>3 DEF WorkspaceTypeOK
  <2>3. gap' \subseteq Files /\ blind' \subseteq Files /\ edits' \in 0..MaxEdits /\ faults' \in 0..MaxFaults
    BY <1>19 DEF TouchDirectory, Foreign, job, IInv, TypeOK, JobTypeOK,
       WorkspaceTypeOK, Contents, Regular, Steps, Ends
  <2> QED
    BY <2>1, <2>2, <2>3 DEF TypeOK
<1>20. CASE Tick
  BY <1>20 DEF Tick, job, IInv, TypeOK, JobTypeOK, WorkspaceTypeOK, Contents, Regular,
     Steps, Ends
<1>21. CASE UNCHANGED vars
  BY <1>21 DEF vars, job, workspace, IInv, TypeOK, JobTypeOK, WorkspaceTypeOK,
     Contents, Regular, Steps, Ends
<1> QED
  BY <1>1, <1>2, <1>3, <1>4, <1>5, <1>6, <1>7, <1>8, <1>9, <1>10, <1>11, <1>12, <1>13,
     <1>14, <1>15, <1>16, <1>17, <1>18, <1>19, <1>20, <1>21 DEF Next, Reading,
     Writing, Undoing, Others

\* Every step of a patch leaves of it in the workspace what its place in the code says
\* (commit_patch_changes, rollback_patch_changes).
LEMMA PatchStep ==
    ASSUME IInv, [Next]_vars
    PROVE  PatchFits'
<1> USE DEF Files
<1>1. CASE Snapshot
  BY <1>1 DEF Snapshot, Goto, Looks, workspace, IInv, TypeOK, JobTypeOK,
     WorkspaceTypeOK, PatchIsReversible, PatchFits, Contents, Regular, Steps, Ends
<1>2. CASE Read
  <2> SUFFICES ASSUME op = "patch" PROVE PatchFits'
    BY <1>2 DEF PatchFits, Read, Goto, Looks, workspace, NextOfPatch
  <2>1. (pc # "verify")'
    BY <1>2 DEF Read, Goto, Looks, workspace, NextOfPatch, IInv, TypeOK, JobTypeOK,
       WorkspaceTypeOK, PatchIsReversible, PatchFits, Contents, Regular, Steps, Ends
  <2>2. (\A f \in Files : read[f] # "new")'
    BY <1>2 DEF Read, Goto, Looks, workspace, NextOfPatch, IInv, TypeOK, JobTypeOK,
       WorkspaceTypeOK, PatchIsReversible, PatchFits, Contents, Regular, Steps, Ends
  <2>3. (pc \in {"snapshot", "read", "conflict"} => temps \cup copies = {})'
    BY <1>2 DEF Read, Goto, Looks, workspace, NextOfPatch, IInv, TypeOK, JobTypeOK,
       WorkspaceTypeOK, PatchIsReversible, PatchFits, Contents, Regular, Steps, Ends
  <2>4. (pc \in {"check", "restore", "uncopy"} => temps = {})'
    BY <1>2 DEF Read, Goto, Looks, workspace, NextOfPatch, IInv, TypeOK, JobTypeOK,
       WorkspaceTypeOK, PatchIsReversible, PatchFits, Contents, Regular, Steps, Ends
  <2>5. (pc \in {"snapshot", "read", "conflict", "temp", "copy", "uncopy", "failed"} =>
            \A f \in Files : file[f] # "new")'
    BY <1>2 DEF Read, Goto, Looks, workspace, NextOfPatch, IInv, TypeOK, JobTypeOK,
       WorkspaceTypeOK, PatchIsReversible, PatchFits, Contents, Regular, Steps, Ends
  <2>6. (pc \in {"temp", "copy"} => \A f \in Files : f < i => f \in copies)'
    BY <1>2 DEF Read, Goto, Looks, workspace, NextOfPatch, IInv, TypeOK, JobTypeOK,
       WorkspaceTypeOK, PatchIsReversible, PatchFits, Contents, Regular, Steps, Ends
  <2>7. (pc \in {"validate", "rename", "untemp"} =>
            copies = Files /\ \A f \in Files : f >= i => file[f] # "new")'
    BY <1>2 DEF Read, Goto, Looks, workspace, NextOfPatch, IInv, TypeOK, JobTypeOK,
       WorkspaceTypeOK, PatchIsReversible, PatchFits, Contents, Regular, Steps, Ends
  <2>8. (pc \in {"check", "restore"} =>
            \A f \in Files : IF f <= i THEN f \in copies ELSE file[f] # "new")'
    BY <1>2 DEF Read, Goto, Looks, workspace, NextOfPatch, IInv, TypeOK, JobTypeOK,
       WorkspaceTypeOK, PatchIsReversible, PatchFits, Contents, Regular, Steps, Ends
  <2>9. (IF pc \in {"clean", "applied"} THEN i = N + 1 ELSE i <= N \/ pc = "crashed")'
    BY <1>2 DEF Read, Goto, Looks, workspace, NextOfPatch, IInv, TypeOK, JobTypeOK,
       WorkspaceTypeOK, PatchIsReversible, PatchFits, Contents, Regular, Steps, Ends
  <2> QED
    BY <2>1, <2>2, <2>3, <2>4, <2>5, <2>6, <2>7, <2>8, <2>9 DEF PatchFits
<1>3. CASE PrepareTemp
  BY <1>3 DEF PrepareTemp, Goto, Enter, Copies, IInv, TypeOK, JobTypeOK,
     WorkspaceTypeOK, PatchIsReversible, PatchFits, Contents, Regular, Steps, Ends
<1>4. CASE PrepareCopy
  <2> SUFFICES ASSUME op = "patch" PROVE PatchFits'
    BY <1>4 DEF PatchFits, PrepareCopy, Goto, Enter, Copies
  <2>1. (pc # "verify")'
    BY <1>4 DEF PrepareCopy, Goto, Enter, Copies, IInv, TypeOK, JobTypeOK,
       WorkspaceTypeOK, PatchIsReversible, PatchFits, Contents, Regular, Steps, Ends
  <2>2. (\A f \in Files : read[f] # "new")'
    BY <1>4 DEF PrepareCopy, Goto, Enter, Copies, IInv, TypeOK, JobTypeOK,
       WorkspaceTypeOK, PatchIsReversible, PatchFits, Contents, Regular, Steps, Ends
  <2>3. (pc \in {"snapshot", "read", "conflict"} => temps \cup copies = {})'
    BY <1>4 DEF PrepareCopy, Goto, Enter, Copies, IInv, TypeOK, JobTypeOK,
       WorkspaceTypeOK, PatchIsReversible, PatchFits, Contents, Regular, Steps, Ends
  <2>4. (pc \in {"check", "restore", "uncopy"} => temps = {})'
    BY <1>4 DEF PrepareCopy, Goto, Enter, Copies, IInv, TypeOK, JobTypeOK,
       WorkspaceTypeOK, PatchIsReversible, PatchFits, Contents, Regular, Steps, Ends
  <2>5. (pc \in {"snapshot", "read", "conflict", "temp", "copy", "uncopy", "failed"} =>
            \A f \in Files : file[f] # "new")'
    BY <1>4 DEF PrepareCopy, Goto, Enter, Copies, IInv, TypeOK, JobTypeOK,
       WorkspaceTypeOK, PatchIsReversible, PatchFits, Contents, Regular, Steps, Ends
  <2>6. (pc \in {"temp", "copy"} => \A f \in Files : f < i => f \in copies)'
    BY <1>4 DEF PrepareCopy, Goto, Enter, Copies, IInv, TypeOK, JobTypeOK,
       WorkspaceTypeOK, PatchIsReversible, PatchFits, Contents, Regular, Steps, Ends
  <2>7. (pc \in {"validate", "rename", "untemp"} =>
            copies = Files /\ \A f \in Files : f >= i => file[f] # "new")'
    <3>1. i = N /\ (pc' \in {"validate", "rename", "untemp"}) =>
             \A f \in Files : f \in copies' /\ file'[f] # "new"
      BY <1>4 DEF PrepareCopy, Goto, Enter, Copies, IInv, TypeOK, JobTypeOK,
         WorkspaceTypeOK, PatchIsReversible, PatchFits, Contents, Regular, Steps, Ends
    <3>2. i # N => pc' \notin {"validate", "rename", "untemp"}
      BY <1>4 DEF PrepareCopy, Goto, Enter, Copies, IInv, TypeOK, JobTypeOK,
         WorkspaceTypeOK, PatchIsReversible, PatchFits, Contents, Regular, Steps, Ends
    <3>3. copies' \subseteq Files
      BY <1>4 DEF PrepareCopy, Goto, Enter, Copies, IInv, TypeOK, JobTypeOK,
         WorkspaceTypeOK, PatchIsReversible, PatchFits, Contents, Regular, Steps, Ends
    <3> QED
      BY <3>1, <3>2, <3>3
  <2>8. (pc \in {"check", "restore"} =>
            \A f \in Files : IF f <= i THEN f \in copies ELSE file[f] # "new")'
    BY <1>4 DEF PrepareCopy, Goto, Enter, Copies, IInv, TypeOK, JobTypeOK,
       WorkspaceTypeOK, PatchIsReversible, PatchFits, Contents, Regular, Steps, Ends
  <2>9. (IF pc \in {"clean", "applied"} THEN i = N + 1 ELSE i <= N \/ pc = "crashed")'
    BY <1>4 DEF PrepareCopy, Goto, Enter, Copies, IInv, TypeOK, JobTypeOK,
       WorkspaceTypeOK, PatchIsReversible, PatchFits, Contents, Regular, Steps, Ends
  <2> QED
    BY <2>1, <2>2, <2>3, <2>4, <2>5, <2>6, <2>7, <2>8, <2>9 DEF PatchFits
<1>5. CASE PrepareFails
  BY <1>5 DEF PrepareFails, Goto, Enter, Fault, IInv, TypeOK, JobTypeOK,
     WorkspaceTypeOK, PatchIsReversible, PatchFits, Contents, Regular, Steps, Ends
<1>6. CASE Validate
  BY <1>6 DEF Validate, Goto, Looks, workspace, Unchanged, IInv, TypeOK, JobTypeOK,
     WorkspaceTypeOK, PatchIsReversible, PatchFits, Contents, Regular, Steps, Ends
<1>7. CASE ValidateFails
  BY <1>7 DEF ValidateFails, Goto, Looks, workspace, Unchanged, IInv, TypeOK,
     JobTypeOK, WorkspaceTypeOK, PatchIsReversible, PatchFits, Contents, Regular,
     Steps, Ends
<1>8. CASE Rename
  <2> SUFFICES ASSUME op = "patch" PROVE PatchFits'
    BY <1>8 DEF PatchFits, Rename, Goto, Enter
  <2>1. (pc # "verify")'
    BY <1>8 DEF Rename, Goto, Enter, IInv, TypeOK, JobTypeOK, WorkspaceTypeOK,
       PatchIsReversible, PatchFits, Contents, Regular, Steps, Ends
  <2>2. (\A f \in Files : read[f] # "new")'
    BY <1>8 DEF Rename, Goto, Enter, IInv, TypeOK, JobTypeOK, WorkspaceTypeOK,
       PatchIsReversible, PatchFits, Contents, Regular, Steps, Ends
  <2>3. (pc \in {"snapshot", "read", "conflict"} => temps \cup copies = {})'
    BY <1>8 DEF Rename, Goto, Enter, IInv, TypeOK, JobTypeOK, WorkspaceTypeOK,
       PatchIsReversible, PatchFits, Contents, Regular, Steps, Ends
  <2>4. (pc \in {"check", "restore", "uncopy"} => temps = {})'
    BY <1>8 DEF Rename, Goto, Enter, IInv, TypeOK, JobTypeOK, WorkspaceTypeOK,
       PatchIsReversible, PatchFits, Contents, Regular, Steps, Ends
  <2>5. (pc \in {"snapshot", "read", "conflict", "temp", "copy", "uncopy", "failed"} =>
            \A f \in Files : file[f] # "new")'
    BY <1>8 DEF Rename, Goto, Enter, IInv, TypeOK, JobTypeOK, WorkspaceTypeOK,
       PatchIsReversible, PatchFits, Contents, Regular, Steps, Ends
  <2>6. (pc \in {"temp", "copy"} => \A f \in Files : f < i => f \in copies)'
    BY <1>8 DEF Rename, Goto, Enter, IInv, TypeOK, JobTypeOK, WorkspaceTypeOK,
       PatchIsReversible, PatchFits, Contents, Regular, Steps, Ends
  <2>7. (pc \in {"validate", "rename", "untemp"} =>
            copies = Files /\ \A f \in Files : f >= i => file[f] # "new")'
    BY <1>8 DEF Rename, Goto, Enter, IInv, TypeOK, JobTypeOK, WorkspaceTypeOK,
       PatchIsReversible, PatchFits, Contents, Regular, Steps, Ends
  <2>8. (pc \in {"check", "restore"} =>
            \A f \in Files : IF f <= i THEN f \in copies ELSE file[f] # "new")'
    BY <1>8 DEF Rename, Goto, Enter, IInv, TypeOK, JobTypeOK, WorkspaceTypeOK,
       PatchIsReversible, PatchFits, Contents, Regular, Steps, Ends
  <2>9. (IF pc \in {"clean", "applied"} THEN i = N + 1 ELSE i <= N \/ pc = "crashed")'
    BY <1>8 DEF Rename, Goto, Enter, IInv, TypeOK, JobTypeOK, WorkspaceTypeOK,
       PatchIsReversible, PatchFits, Contents, Regular, Steps, Ends
  <2> QED
    BY <2>1, <2>2, <2>3, <2>4, <2>5, <2>6, <2>7, <2>8, <2>9 DEF PatchFits
<1>9. CASE RenameFails
  BY <1>9 DEF RenameFails, Goto, Fault, workspace, IInv, TypeOK, JobTypeOK,
     WorkspaceTypeOK, PatchIsReversible, PatchFits, Contents, Regular, Steps, Ends
<1>10. CASE Verify
  BY <1>10 DEF Verify, Goto, Looks, workspace, IInv, TypeOK, JobTypeOK,
     WorkspaceTypeOK, PatchIsReversible, PatchFits, Contents, Regular, Steps, Ends
<1>11. CASE Clean
  BY <1>11 DEF Clean, Goto, Enter, Copies, IInv, TypeOK, JobTypeOK, WorkspaceTypeOK,
     PatchIsReversible, PatchFits, Contents, Regular, Steps, Ends
<1>12. CASE RemoveTemps
  BY <1>12, SMTT(30) DEF RemoveTemps, Goto, Enter, Copies, IInv, TypeOK, JobTypeOK,
     WorkspaceTypeOK, PatchIsReversible, PatchFits, Contents, Regular, Steps, Ends
<1>13. CASE Check
  BY <1>13 DEF Check, Goto, Looks, workspace, IInv, TypeOK, JobTypeOK,
     WorkspaceTypeOK, PatchIsReversible, PatchFits, Contents, Regular, Steps, Ends
<1>14. CASE Restore
  <2> SUFFICES ASSUME op = "patch" PROVE PatchFits'
    BY <1>14 DEF PatchFits, Restore, Goto, Enter
  <2>1. (pc # "verify")'
    BY <1>14 DEF Restore, Goto, Enter, IInv, TypeOK, JobTypeOK, WorkspaceTypeOK,
       PatchIsReversible, PatchFits, Contents, Regular, Steps, Ends
  <2>2. (\A f \in Files : read[f] # "new")'
    BY <1>14 DEF Restore, Goto, Enter, IInv, TypeOK, JobTypeOK, WorkspaceTypeOK,
       PatchIsReversible, PatchFits, Contents, Regular, Steps, Ends
  <2>3. (pc \in {"snapshot", "read", "conflict"} => temps \cup copies = {})'
    BY <1>14 DEF Restore, Goto, Enter, IInv, TypeOK, JobTypeOK, WorkspaceTypeOK,
       PatchIsReversible, PatchFits, Contents, Regular, Steps, Ends
  <2>4. (pc \in {"check", "restore", "uncopy"} => temps = {})'
    BY <1>14 DEF Restore, Goto, Enter, IInv, TypeOK, JobTypeOK, WorkspaceTypeOK,
       PatchIsReversible, PatchFits, Contents, Regular, Steps, Ends
  <2>5. (pc \in {"snapshot", "read", "conflict", "temp", "copy", "uncopy", "failed"} =>
            \A f \in Files : file[f] # "new")'
    BY <1>14 DEF Restore, Goto, Enter, IInv, TypeOK, JobTypeOK, WorkspaceTypeOK,
       PatchIsReversible, PatchFits, Contents, Regular, Steps, Ends
  <2>6. (pc \in {"temp", "copy"} => \A f \in Files : f < i => f \in copies)'
    BY <1>14 DEF Restore, Goto, Enter, IInv, TypeOK, JobTypeOK, WorkspaceTypeOK,
       PatchIsReversible, PatchFits, Contents, Regular, Steps, Ends
  <2>7. (pc \in {"validate", "rename", "untemp"} =>
            copies = Files /\ \A f \in Files : f >= i => file[f] # "new")'
    BY <1>14 DEF Restore, Goto, Enter, IInv, TypeOK, JobTypeOK, WorkspaceTypeOK,
       PatchIsReversible, PatchFits, Contents, Regular, Steps, Ends
  <2>8. (pc \in {"check", "restore"} =>
            \A f \in Files : IF f <= i THEN f \in copies ELSE file[f] # "new")'
    BY <1>14, SMTT(30) DEF Restore, Goto, Enter, IInv, TypeOK, JobTypeOK, WorkspaceTypeOK,
       PatchIsReversible, PatchFits, Contents, Regular, Steps, Ends
  <2>9. (IF pc \in {"clean", "applied"} THEN i = N + 1 ELSE i <= N \/ pc = "crashed")'
    BY <1>14 DEF Restore, Goto, Enter, IInv, TypeOK, JobTypeOK, WorkspaceTypeOK,
       PatchIsReversible, PatchFits, Contents, Regular, Steps, Ends
  <2> QED
    BY <2>1, <2>2, <2>3, <2>4, <2>5, <2>6, <2>7, <2>8, <2>9 DEF PatchFits
<1>15. CASE RollbackFails
  BY <1>15 DEF RollbackFails, Goto, Fault, workspace, IInv, TypeOK, JobTypeOK,
     WorkspaceTypeOK, PatchIsReversible, PatchFits, Contents, Regular, Steps, Ends
<1>16. CASE RemoveCopies
  BY <1>16 DEF RemoveCopies, Goto, Enter, Copies, IInv, TypeOK, JobTypeOK,
     WorkspaceTypeOK, PatchIsReversible, PatchFits, Contents, Regular, Steps, Ends
<1>17. CASE Crash
  BY <1>17 DEF Crash, Fault, workspace, IInv, TypeOK, JobTypeOK, WorkspaceTypeOK,
     PatchIsReversible, PatchFits, Contents, Regular, Steps, Ends
<1>18. ASSUME NEW g \in Files, Edit(g) PROVE PatchFits'
  BY <1>18 DEF Edit, Foreign, Enter, IInv, TypeOK, JobTypeOK, WorkspaceTypeOK,
     PatchIsReversible, PatchFits, Contents, Regular, Steps, Ends
<1>19. ASSUME NEW d \in Dirs, TouchDirectory(d) PROVE PatchFits'
  BY <1>19 DEF TouchDirectory, Foreign, job, IInv, TypeOK, JobTypeOK, WorkspaceTypeOK,
     PatchIsReversible, PatchFits, Contents, Regular, Steps, Ends
<1>20. CASE Tick
  BY <1>20 DEF Tick, job, IInv, TypeOK, JobTypeOK, WorkspaceTypeOK, PatchIsReversible,
     PatchFits, Contents, Regular, Steps, Ends
<1>21. CASE UNCHANGED vars
  BY <1>21 DEF vars, job, workspace, IInv, TypeOK, JobTypeOK, WorkspaceTypeOK,
     PatchIsReversible, PatchFits, Contents, Regular, Steps, Ends
<1> QED
  BY <1>1, <1>2, <1>3, <1>4, <1>5, <1>6, <1>7, <1>8, <1>9, <1>10, <1>11, <1>12, <1>13,
     <1>14, <1>15, <1>16, <1>17, <1>18, <1>19, <1>20, <1>21 DEF Next, Reading,
     Writing, Undoing, Others

\* No step loses the old content of a renamed file while the patch is under way.
LEMMA ReversibleStep ==
    ASSUME IInv, [Next]_vars
    PROVE  PatchIsReversible'
<1> USE DEF Files
<1>1. CASE Snapshot
  BY <1>1 DEF Snapshot, Goto, Looks, workspace, IInv, TypeOK, JobTypeOK,
     WorkspaceTypeOK, PatchIsReversible, PatchFits, Contents, Regular, Steps, Ends
<1>2. CASE Read
  BY <1>2 DEF Read, Goto, Looks, workspace, NextOfPatch, IInv, TypeOK, JobTypeOK,
     WorkspaceTypeOK, PatchIsReversible, PatchFits, Contents, Regular, Steps, Ends
<1>3. CASE PrepareTemp
  BY <1>3 DEF PrepareTemp, Goto, Enter, Copies, IInv, TypeOK, JobTypeOK,
     WorkspaceTypeOK, PatchIsReversible, PatchFits, Contents, Regular, Steps, Ends
<1>4. CASE PrepareCopy
  BY <1>4 DEF PrepareCopy, Goto, Enter, Copies, IInv, TypeOK, JobTypeOK,
     WorkspaceTypeOK, PatchIsReversible, PatchFits, Contents, Regular, Steps, Ends
<1>5. CASE PrepareFails
  BY <1>5 DEF PrepareFails, Goto, Enter, Fault, IInv, TypeOK, JobTypeOK,
     WorkspaceTypeOK, PatchIsReversible, PatchFits, Contents, Regular, Steps, Ends
<1>6. CASE Validate
  BY <1>6 DEF Validate, Goto, Looks, workspace, Unchanged, IInv, TypeOK, JobTypeOK,
     WorkspaceTypeOK, PatchIsReversible, PatchFits, Contents, Regular, Steps, Ends
<1>7. CASE ValidateFails
  BY <1>7 DEF ValidateFails, Goto, Looks, workspace, Unchanged, IInv, TypeOK,
     JobTypeOK, WorkspaceTypeOK, PatchIsReversible, PatchFits, Contents, Regular,
     Steps, Ends
<1>8. CASE Rename
  BY <1>8 DEF Rename, Goto, Enter, IInv, TypeOK, JobTypeOK, WorkspaceTypeOK,
     PatchIsReversible, PatchFits, Contents, Regular, Steps, Ends
<1>9. CASE RenameFails
  BY <1>9 DEF RenameFails, Goto, Fault, workspace, IInv, TypeOK, JobTypeOK,
     WorkspaceTypeOK, PatchIsReversible, PatchFits, Contents, Regular, Steps, Ends
<1>10. CASE Verify
  BY <1>10 DEF Verify, Goto, Looks, workspace, IInv, TypeOK, JobTypeOK,
     WorkspaceTypeOK, PatchIsReversible, PatchFits, Contents, Regular, Steps, Ends
<1>11. CASE Clean
  BY <1>11 DEF Clean, Goto, Enter, Copies, IInv, TypeOK, JobTypeOK, WorkspaceTypeOK,
     PatchIsReversible, PatchFits, Contents, Regular, Steps, Ends
<1>12. CASE RemoveTemps
  BY <1>12 DEF RemoveTemps, Goto, Enter, Copies, IInv, TypeOK, JobTypeOK,
     WorkspaceTypeOK, PatchIsReversible, PatchFits, Contents, Regular, Steps, Ends
<1>13. CASE Check
  BY <1>13 DEF Check, Goto, Looks, workspace, IInv, TypeOK, JobTypeOK,
     WorkspaceTypeOK, PatchIsReversible, PatchFits, Contents, Regular, Steps, Ends
<1>14. CASE Restore
  BY <1>14 DEF Restore, Goto, Enter, IInv, TypeOK, JobTypeOK, WorkspaceTypeOK,
     PatchIsReversible, PatchFits, Contents, Regular, Steps, Ends
<1>15. CASE RollbackFails
  BY <1>15 DEF RollbackFails, Goto, Fault, workspace, IInv, TypeOK, JobTypeOK,
     WorkspaceTypeOK, PatchIsReversible, PatchFits, Contents, Regular, Steps, Ends
<1>16. CASE RemoveCopies
  BY <1>16 DEF RemoveCopies, Goto, Enter, Copies, IInv, TypeOK, JobTypeOK,
     WorkspaceTypeOK, PatchIsReversible, PatchFits, Contents, Regular, Steps, Ends
<1>17. CASE Crash
  BY <1>17 DEF Crash, Fault, workspace, IInv, TypeOK, JobTypeOK, WorkspaceTypeOK,
     PatchIsReversible, PatchFits, Contents, Regular, Steps, Ends
<1>18. ASSUME NEW g \in Files, Edit(g) PROVE PatchIsReversible'
  BY <1>18 DEF Edit, Foreign, Enter, IInv, TypeOK, JobTypeOK, WorkspaceTypeOK,
     PatchIsReversible, PatchFits, Contents, Regular, Steps, Ends
<1>19. ASSUME NEW d \in Dirs, TouchDirectory(d) PROVE PatchIsReversible'
  BY <1>19 DEF TouchDirectory, Foreign, job, IInv, TypeOK, JobTypeOK, WorkspaceTypeOK,
     PatchIsReversible, PatchFits, Contents, Regular, Steps, Ends
<1>20. CASE Tick
  BY <1>20 DEF Tick, job, IInv, TypeOK, JobTypeOK, WorkspaceTypeOK, PatchIsReversible,
     PatchFits, Contents, Regular, Steps, Ends
<1>21. CASE UNCHANGED vars
  BY <1>21 DEF vars, job, workspace, IInv, TypeOK, JobTypeOK, WorkspaceTypeOK,
     PatchIsReversible, PatchFits, Contents, Regular, Steps, Ends
<1> QED
  BY <1>1, <1>2, <1>3, <1>4, <1>5, <1>6, <1>7, <1>8, <1>9, <1>10, <1>11, <1>12, <1>13,
     <1>14, <1>15, <1>16, <1>17, <1>18, <1>19, <1>20, <1>21 DEF Next, Reading,
     Writing, Undoing, Others

\* A step that ends a patch with an error leaves nothing of it.
LEMMA FailureStep ==
    ASSUME IInv, [Next]_vars
    PROVE  FailedPatchLeavesNothing'
<1> USE DEF Files
<1>1. CASE Snapshot
  BY <1>1 DEF Snapshot, Goto, Looks, workspace, IInv, TypeOK, JobTypeOK,
     WorkspaceTypeOK, FailedPatchLeavesNothing, PatchFits, Contents, Regular, Steps,
     Ends
<1>2. CASE Read
  BY <1>2 DEF Read, Goto, Looks, workspace, NextOfPatch, IInv, TypeOK, JobTypeOK,
     WorkspaceTypeOK, FailedPatchLeavesNothing, PatchFits, Contents, Regular, Steps,
     Ends
<1>3. CASE PrepareTemp
  BY <1>3 DEF PrepareTemp, Goto, Enter, Copies, IInv, TypeOK, JobTypeOK,
     WorkspaceTypeOK, FailedPatchLeavesNothing, PatchFits, Contents, Regular, Steps,
     Ends
<1>4. CASE PrepareCopy
  BY <1>4 DEF PrepareCopy, Goto, Enter, Copies, IInv, TypeOK, JobTypeOK,
     WorkspaceTypeOK, FailedPatchLeavesNothing, PatchFits, Contents, Regular, Steps,
     Ends
<1>5. CASE PrepareFails
  BY <1>5 DEF PrepareFails, Goto, Enter, Fault, IInv, TypeOK, JobTypeOK,
     WorkspaceTypeOK, FailedPatchLeavesNothing, PatchFits, Contents, Regular, Steps,
     Ends
<1>6. CASE Validate
  BY <1>6 DEF Validate, Goto, Looks, workspace, Unchanged, IInv, TypeOK, JobTypeOK,
     WorkspaceTypeOK, FailedPatchLeavesNothing, PatchFits, Contents, Regular, Steps,
     Ends
<1>7. CASE ValidateFails
  BY <1>7 DEF ValidateFails, Goto, Looks, workspace, Unchanged, IInv, TypeOK,
     JobTypeOK, WorkspaceTypeOK, FailedPatchLeavesNothing, PatchFits, Contents,
     Regular, Steps, Ends
<1>8. CASE Rename
  BY <1>8 DEF Rename, Goto, Enter, IInv, TypeOK, JobTypeOK, WorkspaceTypeOK,
     FailedPatchLeavesNothing, PatchFits, Contents, Regular, Steps, Ends
<1>9. CASE RenameFails
  BY <1>9 DEF RenameFails, Goto, Fault, workspace, IInv, TypeOK, JobTypeOK,
     WorkspaceTypeOK, FailedPatchLeavesNothing, PatchFits, Contents, Regular, Steps,
     Ends
<1>10. CASE Verify
  BY <1>10 DEF Verify, Goto, Looks, workspace, IInv, TypeOK, JobTypeOK,
     WorkspaceTypeOK, FailedPatchLeavesNothing, PatchFits, Contents, Regular, Steps,
     Ends
<1>11. CASE Clean
  BY <1>11 DEF Clean, Goto, Enter, Copies, IInv, TypeOK, JobTypeOK, WorkspaceTypeOK,
     FailedPatchLeavesNothing, PatchFits, Contents, Regular, Steps, Ends
<1>12. CASE RemoveTemps
  BY <1>12 DEF RemoveTemps, Goto, Enter, Copies, IInv, TypeOK, JobTypeOK,
     WorkspaceTypeOK, FailedPatchLeavesNothing, PatchFits, Contents, Regular, Steps,
     Ends
<1>13. CASE Check
  BY <1>13 DEF Check, Goto, Looks, workspace, IInv, TypeOK, JobTypeOK,
     WorkspaceTypeOK, FailedPatchLeavesNothing, PatchFits, Contents, Regular, Steps,
     Ends
<1>14. CASE Restore
  BY <1>14 DEF Restore, Goto, Enter, IInv, TypeOK, JobTypeOK, WorkspaceTypeOK,
     FailedPatchLeavesNothing, PatchFits, Contents, Regular, Steps, Ends
<1>15. CASE RollbackFails
  BY <1>15 DEF RollbackFails, Goto, Fault, workspace, IInv, TypeOK, JobTypeOK,
     WorkspaceTypeOK, FailedPatchLeavesNothing, PatchFits, Contents, Regular, Steps,
     Ends
<1>16. CASE RemoveCopies
  BY <1>16 DEF RemoveCopies, Goto, Enter, Copies, IInv, TypeOK, JobTypeOK,
     WorkspaceTypeOK, FailedPatchLeavesNothing, PatchFits, Contents, Regular, Steps,
     Ends
<1>17. CASE Crash
  BY <1>17 DEF Crash, Fault, workspace, IInv, TypeOK, JobTypeOK, WorkspaceTypeOK,
     FailedPatchLeavesNothing, PatchFits, Contents, Regular, Steps, Ends
<1>18. ASSUME NEW g \in Files, Edit(g) PROVE FailedPatchLeavesNothing'
  BY <1>18 DEF Edit, Foreign, Enter, IInv, TypeOK, JobTypeOK, WorkspaceTypeOK,
     FailedPatchLeavesNothing, PatchFits, Contents, Regular, Steps, Ends
<1>19. ASSUME NEW d \in Dirs, TouchDirectory(d) PROVE FailedPatchLeavesNothing'
  BY <1>19 DEF TouchDirectory, Foreign, job, IInv, TypeOK, JobTypeOK, WorkspaceTypeOK,
     FailedPatchLeavesNothing, PatchFits, Contents, Regular, Steps, Ends
<1>20. CASE Tick
  BY <1>20 DEF Tick, job, IInv, TypeOK, JobTypeOK, WorkspaceTypeOK,
     FailedPatchLeavesNothing, PatchFits, Contents, Regular, Steps, Ends
<1>21. CASE UNCHANGED vars
  BY <1>21 DEF vars, job, workspace, IInv, TypeOK, JobTypeOK, WorkspaceTypeOK,
     FailedPatchLeavesNothing, PatchFits, Contents, Regular, Steps, Ends
<1> QED
  BY <1>1, <1>2, <1>3, <1>4, <1>5, <1>6, <1>7, <1>8, <1>9, <1>10, <1>11, <1>12, <1>13,
     <1>14, <1>15, <1>16, <1>17, <1>18, <1>19, <1>20, <1>21 DEF Next, Reading,
     Writing, Undoing, Others

\* Every step of a write keeps to the file at work (fs_write).
LEMMA WriteStep ==
    ASSUME IInv, [Next]_vars
    PROVE  WriteFits'
<1> USE DEF Files
<1>1. CASE Snapshot
  BY <1>1 DEF Snapshot, Goto, Looks, workspace, IInv, TypeOK, JobTypeOK,
     WorkspaceTypeOK, WriteFits, Contents, Regular, Steps, Ends
<1>2. CASE Read
  BY <1>2 DEF Read, Goto, Looks, workspace, NextOfPatch, IInv, TypeOK, JobTypeOK,
     WorkspaceTypeOK, WriteFits, Contents, Regular, Steps, Ends
<1>3. CASE PrepareTemp
  BY <1>3 DEF PrepareTemp, Goto, Enter, Copies, IInv, TypeOK, JobTypeOK,
     WorkspaceTypeOK, WriteFits, Contents, Regular, Steps, Ends
<1>4. CASE PrepareCopy
  BY <1>4 DEF PrepareCopy, Goto, Enter, Copies, IInv, TypeOK, JobTypeOK,
     WorkspaceTypeOK, WriteFits, Contents, Regular, Steps, Ends
<1>5. CASE PrepareFails
  BY <1>5 DEF PrepareFails, Goto, Enter, Fault, IInv, TypeOK, JobTypeOK,
     WorkspaceTypeOK, WriteFits, Contents, Regular, Steps, Ends
<1>6. CASE Validate
  BY <1>6 DEF Validate, Goto, Looks, workspace, Unchanged, IInv, TypeOK, JobTypeOK,
     WorkspaceTypeOK, WriteFits, Contents, Regular, Steps, Ends
<1>7. CASE ValidateFails
  BY <1>7 DEF ValidateFails, Goto, Looks, workspace, Unchanged, IInv, TypeOK,
     JobTypeOK, WorkspaceTypeOK, WriteFits, Contents, Regular, Steps, Ends
<1>8. CASE Rename
  BY <1>8 DEF Rename, Goto, Enter, IInv, TypeOK, JobTypeOK, WorkspaceTypeOK,
     WriteFits, Contents, Regular, Steps, Ends
<1>9. CASE RenameFails
  BY <1>9 DEF RenameFails, Goto, Fault, workspace, IInv, TypeOK, JobTypeOK,
     WorkspaceTypeOK, WriteFits, Contents, Regular, Steps, Ends
<1>10. CASE Verify
  BY <1>10, SMTT(30) DEF Verify, Goto, Looks, workspace, IInv, TypeOK, JobTypeOK,
     WorkspaceTypeOK, WriteFits, Contents, Regular, Steps, Ends
<1>11. CASE Clean
  BY <1>11 DEF Clean, Goto, Enter, Copies, IInv, TypeOK, JobTypeOK, WorkspaceTypeOK,
     WriteFits, Contents, Regular, Steps, Ends
<1>12. CASE RemoveTemps
  BY <1>12 DEF RemoveTemps, Goto, Enter, Copies, IInv, TypeOK, JobTypeOK,
     WorkspaceTypeOK, WriteFits, Contents, Regular, Steps, Ends
<1>13. CASE Check
  BY <1>13 DEF Check, Goto, Looks, workspace, IInv, TypeOK, JobTypeOK,
     WorkspaceTypeOK, WriteFits, Contents, Regular, Steps, Ends
<1>14. CASE Restore
  BY <1>14 DEF Restore, Goto, Enter, IInv, TypeOK, JobTypeOK, WorkspaceTypeOK,
     WriteFits, Contents, Regular, Steps, Ends
<1>15. CASE RollbackFails
  BY <1>15 DEF RollbackFails, Goto, Fault, workspace, IInv, TypeOK, JobTypeOK,
     WorkspaceTypeOK, WriteFits, Contents, Regular, Steps, Ends
<1>16. CASE RemoveCopies
  BY <1>16 DEF RemoveCopies, Goto, Enter, Copies, IInv, TypeOK, JobTypeOK,
     WorkspaceTypeOK, WriteFits, Contents, Regular, Steps, Ends
<1>17. CASE Crash
  BY <1>17 DEF Crash, Fault, workspace, IInv, TypeOK, JobTypeOK, WorkspaceTypeOK,
     WriteFits, Contents, Regular, Steps, Ends
<1>18. ASSUME NEW g \in Files, Edit(g) PROVE WriteFits'
  BY <1>18 DEF Edit, Foreign, Enter, IInv, TypeOK, JobTypeOK, WorkspaceTypeOK,
     WriteFits, Contents, Regular, Steps, Ends
<1>19. ASSUME NEW d \in Dirs, TouchDirectory(d) PROVE WriteFits'
  BY <1>19 DEF TouchDirectory, Foreign, job, IInv, TypeOK, JobTypeOK, WorkspaceTypeOK,
     WriteFits, Contents, Regular, Steps, Ends
<1>20. CASE Tick
  BY <1>20 DEF Tick, job, IInv, TypeOK, JobTypeOK, WorkspaceTypeOK, WriteFits,
     Contents, Regular, Steps, Ends
<1>21. CASE UNCHANGED vars
  BY <1>21 DEF vars, job, workspace, IInv, TypeOK, JobTypeOK, WorkspaceTypeOK,
     WriteFits, Contents, Regular, Steps, Ends
<1> QED
  BY <1>1, <1>2, <1>3, <1>4, <1>5, <1>6, <1>7, <1>8, <1>9, <1>10, <1>11, <1>12, <1>13,
     <1>14, <1>15, <1>16, <1>17, <1>18, <1>19, <1>20, <1>21 DEF Next, Reading,
     Writing, Undoing, Others

\* No step changes a file and leaves its identity as it was recorded.
LEMMA SameStep ==
    ASSUME IInv, [Next]_vars
    PROVE  SameIsRead'
<1> USE DEF Files
<1>1. CASE Snapshot
  BY <1>1 DEF Snapshot, Goto, Looks, workspace, IInv, TypeOK, JobTypeOK,
     WorkspaceTypeOK, PatchFits, WriteFits, SameIsRead, Contents, Regular, Steps, Ends
<1>2. CASE Read
  BY <1>2 DEF Read, Goto, Looks, workspace, NextOfPatch, IInv, TypeOK, JobTypeOK,
     WorkspaceTypeOK, PatchFits, WriteFits, SameIsRead, Contents, Regular, Steps, Ends
<1>3. CASE PrepareTemp
  BY <1>3 DEF PrepareTemp, Goto, Enter, Copies, IInv, TypeOK, JobTypeOK,
     WorkspaceTypeOK, PatchFits, WriteFits, SameIsRead, Contents, Regular, Steps, Ends
<1>4. CASE PrepareCopy
  BY <1>4 DEF PrepareCopy, Goto, Enter, Copies, IInv, TypeOK, JobTypeOK,
     WorkspaceTypeOK, PatchFits, WriteFits, SameIsRead, Contents, Regular, Steps, Ends
<1>5. CASE PrepareFails
  BY <1>5 DEF PrepareFails, Goto, Enter, Fault, IInv, TypeOK, JobTypeOK,
     WorkspaceTypeOK, PatchFits, WriteFits, SameIsRead, Contents, Regular, Steps, Ends
<1>6. CASE Validate
  BY <1>6 DEF Validate, Goto, Looks, workspace, Unchanged, IInv, TypeOK, JobTypeOK,
     WorkspaceTypeOK, PatchFits, WriteFits, SameIsRead, Contents, Regular, Steps, Ends
<1>7. CASE ValidateFails
  BY <1>7 DEF ValidateFails, Goto, Looks, workspace, Unchanged, IInv, TypeOK,
     JobTypeOK, WorkspaceTypeOK, PatchFits, WriteFits, SameIsRead, Contents, Regular,
     Steps, Ends
<1>8. CASE Rename
  BY <1>8, SMTT(30) DEF Rename, Goto, Enter, IInv, TypeOK, JobTypeOK, WorkspaceTypeOK,
     PatchFits, WriteFits, SameIsRead, Contents, Regular, Steps, Ends
<1>9. CASE RenameFails
  BY <1>9 DEF RenameFails, Goto, Fault, workspace, IInv, TypeOK, JobTypeOK,
     WorkspaceTypeOK, PatchFits, WriteFits, SameIsRead, Contents, Regular, Steps, Ends
<1>10. CASE Verify
  BY <1>10 DEF Verify, Goto, Looks, workspace, IInv, TypeOK, JobTypeOK,
     WorkspaceTypeOK, PatchFits, WriteFits, SameIsRead, Contents, Regular, Steps, Ends
<1>11. CASE Clean
  BY <1>11 DEF Clean, Goto, Enter, Copies, IInv, TypeOK, JobTypeOK, WorkspaceTypeOK,
     PatchFits, WriteFits, SameIsRead, Contents, Regular, Steps, Ends
<1>12. CASE RemoveTemps
  BY <1>12 DEF RemoveTemps, Goto, Enter, Copies, IInv, TypeOK, JobTypeOK,
     WorkspaceTypeOK, PatchFits, WriteFits, SameIsRead, Contents, Regular, Steps, Ends
<1>13. CASE Check
  BY <1>13 DEF Check, Goto, Looks, workspace, IInv, TypeOK, JobTypeOK,
     WorkspaceTypeOK, PatchFits, WriteFits, SameIsRead, Contents, Regular, Steps, Ends
<1>14. CASE Restore
  BY <1>14 DEF Restore, Goto, Enter, IInv, TypeOK, JobTypeOK, WorkspaceTypeOK,
     PatchFits, WriteFits, SameIsRead, Contents, Regular, Steps, Ends
<1>15. CASE RollbackFails
  BY <1>15 DEF RollbackFails, Goto, Fault, workspace, IInv, TypeOK, JobTypeOK,
     WorkspaceTypeOK, PatchFits, WriteFits, SameIsRead, Contents, Regular, Steps, Ends
<1>16. CASE RemoveCopies
  BY <1>16 DEF RemoveCopies, Goto, Enter, Copies, IInv, TypeOK, JobTypeOK,
     WorkspaceTypeOK, PatchFits, WriteFits, SameIsRead, Contents, Regular, Steps, Ends
<1>17. CASE Crash
  BY <1>17 DEF Crash, Fault, workspace, IInv, TypeOK, JobTypeOK, WorkspaceTypeOK,
     PatchFits, WriteFits, SameIsRead, Contents, Regular, Steps, Ends
<1>18. ASSUME NEW g \in Files, Edit(g) PROVE SameIsRead'
  <2>1. UNCHANGED <<op, pc, i, read>> /\ same' \subseteq same /\ blind \subseteq blind'
    BY <1>18 DEF Edit
  <2>2. g \notin same' \/ g \in blind'
    BY <1>18 DEF Edit
  <2>3. \A f \in Files : f # g => file'[f] = file[f]
    BY <1>18 DEF Edit, IInv, TypeOK, WorkspaceTypeOK
  <2>4. same \subseteq Files
    BY DEF IInv, TypeOK, JobTypeOK
  <2> QED
    BY <2>1, <2>2, <2>3, <2>4 DEF IInv, SameIsRead
<1>19. ASSUME NEW d \in Dirs, TouchDirectory(d) PROVE SameIsRead'
  BY <1>19 DEF TouchDirectory, Foreign, job, IInv, TypeOK, JobTypeOK, WorkspaceTypeOK,
     PatchFits, WriteFits, SameIsRead, Contents, Regular, Steps, Ends
<1>20. CASE Tick
  BY <1>20 DEF Tick, job, IInv, TypeOK, JobTypeOK, WorkspaceTypeOK, PatchFits,
     WriteFits, SameIsRead, Contents, Regular, Steps, Ends
<1>21. CASE UNCHANGED vars
  BY <1>21 DEF vars, job, workspace, IInv, TypeOK, JobTypeOK, WorkspaceTypeOK,
     PatchFits, WriteFits, SameIsRead, Contents, Regular, Steps, Ends
<1> QED
  BY <1>1, <1>2, <1>3, <1>4, <1>5, <1>6, <1>7, <1>8, <1>9, <1>10, <1>11, <1>12, <1>13,
     <1>14, <1>15, <1>16, <1>17, <1>18, <1>19, <1>20, <1>21 DEF Next, Reading,
     Writing, Undoing, Others

\* Before the rename, the file has what was read or changed after it was validated.
LEMMA RenameStep ==
    ASSUME IInv, [Next]_vars
    PROVE  RenamesWhatWasRead'
<1> USE DEF Files
<1>1. CASE Snapshot
  BY <1>1 DEF Snapshot, Goto, Looks, workspace, IInv, TypeOK, JobTypeOK,
     WorkspaceTypeOK, PatchFits, WriteFits, SameIsRead, RenamesWhatWasRead, Contents,
     Regular, Steps, Ends
<1>2. CASE Read
  BY <1>2 DEF Read, Goto, Looks, workspace, NextOfPatch, IInv, TypeOK, JobTypeOK,
     WorkspaceTypeOK, PatchFits, WriteFits, SameIsRead, RenamesWhatWasRead, Contents,
     Regular, Steps, Ends
<1>3. CASE PrepareTemp
  BY <1>3 DEF PrepareTemp, Goto, Enter, Copies, IInv, TypeOK, JobTypeOK,
     WorkspaceTypeOK, PatchFits, WriteFits, SameIsRead, RenamesWhatWasRead, Contents,
     Regular, Steps, Ends
<1>4. CASE PrepareCopy
  BY <1>4 DEF PrepareCopy, Goto, Enter, Copies, IInv, TypeOK, JobTypeOK,
     WorkspaceTypeOK, PatchFits, WriteFits, SameIsRead, RenamesWhatWasRead, Contents,
     Regular, Steps, Ends
<1>5. CASE PrepareFails
  BY <1>5 DEF PrepareFails, Goto, Enter, Fault, IInv, TypeOK, JobTypeOK,
     WorkspaceTypeOK, PatchFits, WriteFits, SameIsRead, RenamesWhatWasRead, Contents,
     Regular, Steps, Ends
<1>6. CASE Validate
  BY <1>6 DEF Validate, Goto, Looks, workspace, Unchanged, IInv, TypeOK, JobTypeOK,
     WorkspaceTypeOK, PatchFits, WriteFits, SameIsRead, RenamesWhatWasRead, Contents,
     Regular, Steps, Ends
<1>7. CASE ValidateFails
  BY <1>7 DEF ValidateFails, Goto, Looks, workspace, Unchanged, IInv, TypeOK,
     JobTypeOK, WorkspaceTypeOK, PatchFits, WriteFits, SameIsRead, RenamesWhatWasRead,
     Contents, Regular, Steps, Ends
<1>8. CASE Rename
  BY <1>8 DEF Rename, Goto, Enter, IInv, TypeOK, JobTypeOK, WorkspaceTypeOK,
     PatchFits, WriteFits, SameIsRead, RenamesWhatWasRead, Contents, Regular, Steps,
     Ends
<1>9. CASE RenameFails
  BY <1>9 DEF RenameFails, Goto, Fault, workspace, IInv, TypeOK, JobTypeOK,
     WorkspaceTypeOK, PatchFits, WriteFits, SameIsRead, RenamesWhatWasRead, Contents,
     Regular, Steps, Ends
<1>10. CASE Verify
  BY <1>10 DEF Verify, Goto, Looks, workspace, IInv, TypeOK, JobTypeOK,
     WorkspaceTypeOK, PatchFits, WriteFits, SameIsRead, RenamesWhatWasRead, Contents,
     Regular, Steps, Ends
<1>11. CASE Clean
  BY <1>11 DEF Clean, Goto, Enter, Copies, IInv, TypeOK, JobTypeOK, WorkspaceTypeOK,
     PatchFits, WriteFits, SameIsRead, RenamesWhatWasRead, Contents, Regular, Steps,
     Ends
<1>12. CASE RemoveTemps
  BY <1>12 DEF RemoveTemps, Goto, Enter, Copies, IInv, TypeOK, JobTypeOK,
     WorkspaceTypeOK, PatchFits, WriteFits, SameIsRead, RenamesWhatWasRead, Contents,
     Regular, Steps, Ends
<1>13. CASE Check
  BY <1>13 DEF Check, Goto, Looks, workspace, IInv, TypeOK, JobTypeOK,
     WorkspaceTypeOK, PatchFits, WriteFits, SameIsRead, RenamesWhatWasRead, Contents,
     Regular, Steps, Ends
<1>14. CASE Restore
  BY <1>14 DEF Restore, Goto, Enter, IInv, TypeOK, JobTypeOK, WorkspaceTypeOK,
     PatchFits, WriteFits, SameIsRead, RenamesWhatWasRead, Contents, Regular, Steps,
     Ends
<1>15. CASE RollbackFails
  BY <1>15 DEF RollbackFails, Goto, Fault, workspace, IInv, TypeOK, JobTypeOK,
     WorkspaceTypeOK, PatchFits, WriteFits, SameIsRead, RenamesWhatWasRead, Contents,
     Regular, Steps, Ends
<1>16. CASE RemoveCopies
  BY <1>16 DEF RemoveCopies, Goto, Enter, Copies, IInv, TypeOK, JobTypeOK,
     WorkspaceTypeOK, PatchFits, WriteFits, SameIsRead, RenamesWhatWasRead, Contents,
     Regular, Steps, Ends
<1>17. CASE Crash
  BY <1>17 DEF Crash, Fault, workspace, IInv, TypeOK, JobTypeOK, WorkspaceTypeOK,
     PatchFits, WriteFits, SameIsRead, RenamesWhatWasRead, Contents, Regular, Steps,
     Ends
<1>18. ASSUME NEW g \in Files, Edit(g) PROVE RenamesWhatWasRead'
  BY <1>18 DEF Edit, Foreign, Enter, IInv, TypeOK, JobTypeOK, WorkspaceTypeOK,
     PatchFits, WriteFits, SameIsRead, RenamesWhatWasRead, Contents, Regular, Steps,
     Ends
<1>19. ASSUME NEW d \in Dirs, TouchDirectory(d) PROVE RenamesWhatWasRead'
  BY <1>19 DEF TouchDirectory, Foreign, job, IInv, TypeOK, JobTypeOK, WorkspaceTypeOK,
     PatchFits, WriteFits, SameIsRead, RenamesWhatWasRead, Contents, Regular, Steps,
     Ends
<1>20. CASE Tick
  BY <1>20 DEF Tick, job, IInv, TypeOK, JobTypeOK, WorkspaceTypeOK, PatchFits,
     WriteFits, SameIsRead, RenamesWhatWasRead, Contents, Regular, Steps, Ends
<1>21. CASE UNCHANGED vars
  BY <1>21 DEF vars, job, workspace, IInv, TypeOK, JobTypeOK, WorkspaceTypeOK,
     PatchFits, WriteFits, SameIsRead, RenamesWhatWasRead, Contents, Regular, Steps,
     Ends
<1> QED
  BY <1>1, <1>2, <1>3, <1>4, <1>5, <1>6, <1>7, <1>8, <1>9, <1>10, <1>11, <1>12, <1>13,
     <1>14, <1>15, <1>16, <1>17, <1>18, <1>19, <1>20, <1>21 DEF Next, Reading,
     Writing, Undoing, Others

\* A job that has not begun satisfies the invariant.
LEMMA InitInv == Init => IInv
<1> SUFFICES ASSUME Init PROVE IInv
  OBVIOUS
<1> USE DEF Init, Files, Contents, Regular, Steps, Ends
<1>1. JobTypeOK
  <2>1. op \in {"patch", "write"}
    BY DEF Init
  <2>2. pc \in Steps \cup Ends
    BY DEF Init
  <2>3. i \in 1..(N + 1)
    BY DEF Init
  <2>4. read \in [Files -> Contents]
    BY DEF Init
  <2>5. seen \in [Files -> 0..MaxTicks]
    BY DEF Init
  <2>6. same \subseteq Files
    BY DEF Init
  <2>7. temps \subseteq Files /\ copies \subseteq Files
    BY DEF Init
  <2>8. conflict \in BOOLEAN
    BY DEF Init
  <2> QED
    BY <2>1, <2>2, <2>3, <2>4, <2>5, <2>6, <2>7, <2>8 DEF JobTypeOK
<1>2. WorkspaceTypeOK
  BY DEF WorkspaceTypeOK
<1>3. TypeOK
  BY <1>1, <1>2 DEF TypeOK
<1>4. PatchIsReversible /\ FailedPatchLeavesNothing /\ PatchFits
  BY SMTT(30) DEF PatchIsReversible, FailedPatchLeavesNothing, PatchFits
<1>5. WriteFits /\ SameIsRead /\ RenamesWhatWasRead
  BY DEF WriteFits, SameIsRead, RenamesWhatWasRead
<1> QED
  BY <1>3, <1>4, <1>5 DEF IInv

\* Every step, of the job and of the other programs, keeps the invariant.
LEMMA Preserved == IInv /\ [Next]_vars => IInv'
BY TypeStep, PatchStep, ReversibleStep, FailureStep, WriteStep, SameStep, RenameStep
   DEF IInv

\* The inductive invariant holds of every job, however many files it has.
THEOREM Invariance == Spec => []IInv
<1>1. Init => IInv
  BY InitInv
<1>2. IInv /\ [Next]_vars => IInv'
  BY Preserved
<1> QED
  BY <1>1, <1>2, PTL DEF Spec

\* A patch that did not finish, wherever it was stopped, has kept the old content of
\* every file it replaced (prepare_atomic_write of change.before).
THEOREM PatchCanBeReversed == Spec => []PatchIsReversible
<1>1. IInv => PatchIsReversible
  BY DEF IInv
<1> QED
  BY <1>1, Invariance, PTL

\* A patch that reported an error or a conflict left no new content
\* (rollback_patch_changes, cleanup_patch_journal).
THEOREM FailureLeavesNothing == Spec => []FailedPatchLeavesNothing
<1>1. IInv => FailedPatchLeavesNothing
  BY DEF IInv
<1> QED
  BY <1>1, Invariance, PTL

\* A rename replaces what was read, or what came after validate_snapshot or kept the
\* identity of the file.
THEOREM ReplacesWhatWasRead == Spec => ReplacesOnlyWhatWasRead
<1>1. IInv => [Rename => file[i] = read[i] \/ i \in gap \/ i \in blind]_vars
  BY DEF IInv, RenamesWhatWasRead, Rename
<1> QED
  BY <1>1, Invariance, PTL DEF ReplacesOnlyWhatWasRead

==============================================================================
