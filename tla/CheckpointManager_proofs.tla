----------------------- MODULE CheckpointManager_proofs -----------------------
(***************************************************************************)
(* Theorems about CheckpointManager for every number of steps, saves,      *)
(* crashes and component files, and every keep_last_n.                     *)
(***************************************************************************)
EXTENDS CheckpointManager, FiniteSetTheorems, WellFoundedInduction, TLAPS

------------------------------------------------------------------------------
(***************************************************************************)
(* The inductive invariant: what save() has achieved at each point.        *)
(***************************************************************************)

\* A complete staging directory is what gets committed.
StagedInv == pc \in {"commit", "swap"} => job.files = Files

\* Between the two renames the name is free, and the renamed copy counts as
\* recoverable exactly if it was complete.
SwapInv ==
  pc = "swap" =>
    /\ moved # None
    /\ ~Exists(job.step)
    /\ aside[job.step] # None =>
         moved.files = Files /\ aside[job.step] = moved.gen

\* The old copy is removed only when the new one is in place.
DropInv == pc = "drop" => moved # None

CommittedInv ==
  pc \in {"drop", "json", "unlink", "symlink"} => Whole(job.step)

\* The JSON file is ahead of the symlink, never behind.
PointerInv ==
  pc \in {"unlink", "symlink"} => json[PointerOf(job.kind)] = job.step

\* No directory chosen for removal is the target of a pointer.
VictimsInv ==
  pc = "delete" =>
    \A n \in victims : Exists(n) /\ \A k \in Pointers : Named(k) # n

IInv ==
  /\ TypeOK
  /\ VanishedStepHasBackup
  /\ PointerTargetKept
  /\ StagedInv /\ SwapInv /\ DropInv /\ CommittedInv /\ PointerInv /\ VictimsInv


------------------------------------------------------------------------------
\* The operators of the disk map into their ranges.
LEMMA ReadersTyped ==
  ASSUME TypeOK
  PROVE  /\ Prunable \subseteq Steps
         /\ PointerOf(job.kind) \in Pointers
BY DEF TypeOK, Prunable, Listed, PointerOf, Pointers, Kinds

\* The component's variables keep their types.
THEOREM TypeCorrect == Spec => []TypeOK
<1> USE ManagerAssumption
<1>1. Init => TypeOK
  BY DEF Init, TypeOK, NoJob, Steps, Gens, Kinds, Pointers, Files, Dir
<1>2. TypeOK /\ [Next]_vars => TypeOK'
  <2> SUFFICES ASSUME TypeOK, [Next]_vars PROVE TypeOK'
    OBVIOUS
  <2> USE DEF TypeOK, disk
  <2> DEFINE jobs == [step : Steps, kind : Kinds, gen : 0..MaxSaves,
                      files : SUBSET Files]
  <2>0. NoJob \in jobs
    BY DEF NoJob, Steps, Kinds
  <2>p. PointerOf(job.kind) \in Pointers
    BY ReadersTyped
  <2>s. job.step \in Steps
    OBVIOUS
  <2>d. PointerDone =>
          /\ job' \in jobs /\ pc' \in {"prune", "idle"}
          /\ pc' # "idle" => UNCHANGED job
    BY <2>0 DEF PointerDone
  <2>1. CASE Advance
    BY <2>1 DEF Advance, Steps
  <2>2. ASSUME NEW kind \in Kinds, StartSave(kind) PROVE TypeOK'
    BY <2>2 DEF StartSave, Gens
  <2>3. ASSUME NEW f \in Parts, WritePart(f) PROVE TypeOK'
    BY <2>3 DEF WritePart, Files
  <2>4. CASE WriteManifest
    BY <2>4 DEF WriteManifest, Files
  <2>g. pc \in {"commit", "swap"} /\ job.gen \in Gens => Staged \in Dir
    BY DEF Staged, Dir
  <2>5. CASE CommitFresh
    BY <2>5, <2>g, <2>s DEF CommitFresh
  <2>6. CASE MoveAside
    BY <2>6, <2>s DEF MoveAside, Exists, Whole, Dir
  <2>7. CASE SwapIn
    BY <2>7, <2>g, <2>s DEF SwapIn
  <2>8. CASE SwapFails
    BY <2>8, <2>0, <2>s DEF SwapFails
  <2>9. CASE DropBackup
    BY <2>9 DEF DropBackup
  <2>10. CASE WriteJson
    BY <2>10, <2>p, <2>s DEF WriteJson
  <2>11. CASE Unlink
    BY <2>11, <2>p DEF Unlink
  <2>12. CASE UnlinkFails
    BY <2>12, <2>d DEF UnlinkFails
  <2>13. CASE Symlink
    BY <2>13, <2>d, <2>p, <2>s DEF Symlink
  <2>14. CASE StartPrune
    BY <2>14, ReadersTyped DEF StartPrune
  <2>15. ASSUME NEW n \in Steps, NEW f \in Files, RemoveFile(n, f) PROVE TypeOK'
    <3>1. dirs[n] \in Dir
      BY <2>15 DEF RemoveFile, Exists
    <3>2. [dirs[n] EXCEPT !.files = @ \ {f}] \in Dir
      BY <3>1 DEF Dir
    <3>3. dirs' = [dirs EXCEPT ![n] = [dirs[n] EXCEPT !.files = @ \ {f}]]
      BY <2>15 DEF RemoveFile
    <3>4. QED
      BY <2>15, <3>2, <3>3 DEF RemoveFile
  <2>16. ASSUME NEW n \in Steps, RemoveDir(n) PROVE TypeOK'
    BY <2>16 DEF RemoveDir
  <2>17. ASSUME NEW n \in Steps, RemoveFails(n) PROVE TypeOK'
    BY <2>17 DEF RemoveFails
  <2>18. CASE EndPrune
    BY <2>18, <2>0 DEF EndPrune
  <2>19. CASE Crash
    BY <2>19, <2>0 DEF Crash
  <2>20. CASE Resume
    BY <2>20 DEF Resume
  <2>21. CASE UNCHANGED vars
    BY <2>21 DEF vars
  <2>22. QED
    BY <2>1, <2>2, <2>3, <2>4, <2>5, <2>6, <2>7, <2>8, <2>9, <2>10, <2>11,
       <2>12, <2>13, <2>14, <2>15, <2>16, <2>17, <2>18, <2>19, <2>20, <2>21
       DEF Next
<1>3. QED
  BY <1>1, <1>2, PTL DEF Spec

------------------------------------------------------------------------------
(***************************************************************************)
(* A pointer's target keeps a complete copy, whatever is interrupted.      *)
(***************************************************************************)

\* Steps that leave the disk alone.
LEMMA DiskUnchanged ==
  ASSUME UNCHANGED <<disk, aside>>, VanishedStepHasBackup, PointerTargetKept
  PROVE  VanishedStepHasBackup' /\ PointerTargetKept'
BY DEF disk, VanishedStepHasBackup, PointerTargetKept, Exists, Recoverable,
       Named, Whole

\* Steps that touch one step directory and move no pointer.
LEMMA OneDirChanged ==
  ASSUME NEW n \in Steps, TypeOK, PointerTargetKept,
         UNCHANGED <<json, link>>,
         \A m \in Steps \ {n} : dirs'[m] = dirs[m] /\ aside'[m] = aside[m],
         \/ Recoverable(n) # None => Recoverable(n)' # None
         \/ \A k \in Pointers : Named(k) # n
  PROVE  PointerTargetKept'
<1> SUFFICES ASSUME NEW k \in Pointers, Named(k)' # None
             PROVE  (Recoverable(Named(k)) # None)'
  BY DEF PointerTargetKept
<1>1. Named(k)' = Named(k)
  BY DEF Named
<1>2. Named(k) \in Steps
  BY <1>1 DEF Named, TypeOK
<1>3. Recoverable(Named(k)) # None
  BY <1>1 DEF PointerTargetKept
<1>4. CASE Named(k) = n
  BY <1>1, <1>3, <1>4
<1>5. CASE Named(k) # n
  BY <1>1, <1>2, <1>3, <1>5 DEF Recoverable, Whole, Exists
<1>6. QED
  BY <1>4, <1>5

LEMMA InitIInv == Init => IInv
<1> SUFFICES ASSUME Init PROVE IInv
  OBVIOUS
<1>1. TypeOK
  BY ManagerAssumption
     DEF Init, TypeOK, NoJob, Steps, Gens, Kinds, Pointers, Files, Dir
<1>2. VanishedStepHasBackup /\ PointerTargetKept
  BY DEF Init, VanishedStepHasBackup, PointerTargetKept, Named
<1>3. QED
  BY <1>1, <1>2 DEF Init, IInv, StagedInv, SwapInv, DropInv, CommittedInv,
     PointerInv, VictimsInv

LEMMA StepIInv == TypeOK' /\ IInv /\ [Next]_vars => IInv'
<1> SUFFICES ASSUME TypeOK', IInv, [Next]_vars PROVE IInv'
  OBVIOUS
<1>t. TypeOK
  BY DEF IInv
<1>s. job.step \in Steps /\ PointerOf(job.kind) \in Pointers
  BY <1>t, ReadersTyped DEF TypeOK
<1> DEFINE Progress == StagedInv /\ SwapInv /\ DropInv /\ CommittedInv
                         /\ PointerInv /\ VictimsInv
<1> USE DEF IInv
<1>q. (VanishedStepHasBackup /\ PointerTargetKept /\ Progress)' => IInv'
  OBVIOUS
<1>1. ASSUME UNCHANGED <<disk, aside>>, Progress' PROVE IInv'
  BY <1>1, <1>q, DiskUnchanged
<1> HIDE DEF IInv
<1>2. CASE Advance
  <2>1. Progress'
    BY <1>2 DEF Advance, disk, StagedInv, SwapInv, DropInv, CommittedInv,
       PointerInv, VictimsInv
  <2>2. QED
    BY <1>1, <1>2, <2>1 DEF Advance
<1>3. ASSUME NEW kind \in Kinds, StartSave(kind) PROVE IInv'
  <2>1. Progress'
    BY <1>3 DEF StartSave, disk, StagedInv, SwapInv, DropInv, CommittedInv,
       PointerInv, VictimsInv
  <2>2. QED
    BY <1>1, <1>3, <2>1 DEF StartSave
<1>4. ASSUME NEW f \in Parts, WritePart(f) PROVE IInv'
  <2>1. Progress'
    BY <1>4 DEF WritePart, disk, StagedInv, SwapInv, DropInv, CommittedInv,
       PointerInv, VictimsInv
  <2>2. QED
    BY <1>1, <1>4, <2>1 DEF WritePart
<1>5. CASE WriteManifest
  <2>1. job'.files = Files
    BY <1>5, <1>t DEF WriteManifest, TypeOK, Files
  <2>2. Progress'
    BY <1>5, <2>1 DEF WriteManifest, disk, StagedInv, SwapInv, DropInv,
       CommittedInv, PointerInv, VictimsInv
  <2>3. QED
    BY <1>1, <1>5, <2>2 DEF WriteManifest
<1> DEFINE others == \A m \in Steps \ {job.step} :
                       dirs'[m] = dirs[m] /\ aside'[m] = aside[m]
<1>o. ASSUME others, aside'[job.step] = None, UNCHANGED backups
      PROVE  VanishedStepHasBackup'
  BY <1>o DEF IInv, VanishedStepHasBackup, Exists
<1>w. ASSUME Whole(job.step)', aside'[job.step] = None, TypeOK'
      PROVE  (Recoverable(job.step) # None)'
  BY <1>s, <1>w, ManagerAssumption
     DEF Recoverable, Whole, Exists, TypeOK, Dir, Gens
<1> HIDE DEF others
<1>6. CASE CommitFresh
  <2>1. Whole(job.step)' /\ aside'[job.step] = None /\ others
    BY <1>6, <1>s, <1>t, ManagerAssumption
       DEF CommitFresh, Whole, Exists, Staged, TypeOK, IInv, StagedInv, Dir,
           Gens, others
  <2>2. UNCHANGED <<json, link, backups, job>>
    BY <1>6 DEF CommitFresh
  <2>3. PointerTargetKept'
    BY <1>s, <1>t, <1>w, <2>1, <2>2, OneDirChanged DEF IInv, others
  <2>4. VanishedStepHasBackup'
    BY <1>o, <2>1, <2>2
  <2>5. Progress'
    BY <1>6, <2>1, <2>2 DEF CommitFresh, StagedInv, SwapInv, DropInv,
       CommittedInv, PointerInv, VictimsInv
  <2>6. QED
    BY <1>q, <2>3, <2>4, <2>5
<1>7. CASE MoveAside
  <2>1. aside[job.step] = None
    BY <1>7, <1>s DEF MoveAside, IInv, VanishedStepHasBackup
  <2>2. others /\ ~Exists(job.step)' /\ moved' = dirs[job.step]
    BY <1>7, <1>s, <1>t DEF MoveAside, TypeOK, Exists, others
  <2>3. CASE Whole(job.step)
    <3>1. moved' \in Dir /\ moved'.files = Files
      BY <1>7, <1>s, <1>t, <2>3 DEF MoveAside, TypeOK, Whole, Exists
    <3>2. /\ aside'[job.step] = moved'.gen /\ moved'.gen \in Gens
          /\ backups \subseteq backups'
          /\ [step |-> job.step, gen |-> moved'.gen] \in backups'
      BY <1>7, <1>s, <1>t, <2>3, <3>1 DEF MoveAside, TypeOK, Dir
    <3>3. (Recoverable(job.step) # None)'
      BY <1>7, <3>2, ManagerAssumption DEF MoveAside, Recoverable, Gens
    <3>4. PointerTargetKept'
      BY <1>7, <1>s, <1>t, <2>2, <3>3, OneDirChanged
         DEF MoveAside, IInv, others
    <3>5. VanishedStepHasBackup'
      <4> SUFFICES ASSUME NEW n \in Steps, aside'[n] # None
                   PROVE  /\ ~Exists(n)'
                          /\ [step |-> n, gen |-> aside'[n]] \in backups'
        BY DEF VanishedStepHasBackup
      <4>1. CASE n = job.step
        BY <1>7, <2>2, <3>2, <4>1 DEF MoveAside
      <4>2. CASE n # job.step
        BY <2>2, <3>2, <4>2 DEF IInv, VanishedStepHasBackup, Exists, others
      <4>3. QED
        BY <4>1, <4>2
    <3>6. Progress'
      BY <1>7, <2>2, <3>1, <3>2, ManagerAssumption
         DEF MoveAside, IInv, StagedInv, SwapInv, DropInv, CommittedInv,
             PointerInv, VictimsInv
    <3>7. QED
      BY <1>q, <3>4, <3>5, <3>6
  <2>4. CASE ~Whole(job.step)
    <3>1. UNCHANGED <<backups, aside>>
      BY <1>7, <2>4 DEF MoveAside
    <3>2. \A k \in Pointers : Named(k) # job.step
      BY <2>1, <2>4, <1>s, <1>t, ManagerAssumption
         DEF IInv, PointerTargetKept, Recoverable, TypeOK, Steps
    <3>3. PointerTargetKept'
      BY <1>7, <1>s, <1>t, <2>2, <3>2, OneDirChanged
         DEF MoveAside, IInv, others
    <3>4. VanishedStepHasBackup'
      BY <1>o, <2>1, <2>2, <3>1
    <3>5. Progress'
      BY <1>7, <1>s, <1>t, <2>1, <2>2, <3>1
         DEF MoveAside, IInv, TypeOK, StagedInv, SwapInv, DropInv,
             CommittedInv, PointerInv, VictimsInv, Exists
    <3>6. QED
      BY <1>q, <3>3, <3>4, <3>5
  <2>5. QED
    BY <2>3, <2>4
<1>8. CASE SwapIn
  <2>1. Whole(job.step)' /\ aside'[job.step] = None /\ others
    BY <1>8, <1>s, <1>t, ManagerAssumption
       DEF SwapIn, Whole, Exists, Staged, TypeOK, IInv, StagedInv, Dir, Gens,
           others
  <2>2. UNCHANGED <<json, link, backups, job, moved>>
    BY <1>8 DEF SwapIn
  <2>3. PointerTargetKept'
    BY <1>s, <1>t, <1>w, <2>1, <2>2, OneDirChanged DEF IInv, others
  <2>4. VanishedStepHasBackup'
    BY <1>o, <2>1, <2>2
  <2>5. Progress'
    BY <1>8, <2>1, <2>2 DEF SwapIn, IInv, StagedInv, SwapInv, DropInv,
       CommittedInv, PointerInv, VictimsInv
  <2>6. QED
    BY <1>q, <2>3, <2>4, <2>5
<1>9. CASE SwapFails
  <2> PICK n \in Steps : n = job.step
    BY <1>s
  <2>1. /\ dirs'[n] = moved /\ aside'[n] = None
        /\ \A m \in Steps \ {n} : dirs'[m] = dirs[m] /\ aside'[m] = aside[m]
    BY <1>9, <1>t DEF SwapFails, TypeOK
  <2>2. UNCHANGED <<json, link>> /\ backups' = backups \ MovedCopy
    BY <1>9 DEF SwapFails
  <2>3. Recoverable(n) # None => moved \in Dir /\ moved.files = Files
    BY <1>9, <1>t DEF SwapFails, IInv, SwapInv, TypeOK, Recoverable, Whole
  <2>4. Recoverable(n) # None => (Recoverable(n) # None)'
    BY <2>1, <2>3, ManagerAssumption DEF Recoverable, Whole, Exists, Dir, Gens
  <2>5. PointerTargetKept'
    BY <1>t, <2>1, <2>2, <2>4, OneDirChanged DEF IInv
  <2>6. VanishedStepHasBackup'
    BY <2>1, <2>2 DEF IInv, VanishedStepHasBackup, MovedCopy, Exists
  <2>7. Progress'
    BY <1>9 DEF SwapFails, StagedInv, SwapInv, DropInv, CommittedInv,
       PointerInv, VictimsInv
  <2>8. QED
    BY <1>q, <2>5, <2>6, <2>7
<1>10. CASE DropBackup
  <2>1. UNCHANGED <<dirs, aside, json, link, job>> /\ pc' = "json"
    BY <1>10 DEF DropBackup
  <2>2. PointerTargetKept'
    BY <2>1 DEF IInv, PointerTargetKept, Named, Recoverable, Whole, Exists
  <2>3. aside[job.step] = None
    BY <1>10, <1>s DEF DropBackup, IInv, CommittedInv, Whole,
       VanishedStepHasBackup
  <2>4. VanishedStepHasBackup'
    BY <1>10, <2>1, <2>3
       DEF DropBackup, IInv, VanishedStepHasBackup, MovedCopy, Exists
  <2>5. Progress'
    BY <1>10, <2>1 DEF DropBackup, IInv, StagedInv, SwapInv, DropInv,
       CommittedInv, PointerInv, VictimsInv, Whole, Exists
  <2>6. QED
    BY <1>q, <2>2, <2>4, <2>5
<1>c. ASSUME pc \in {"json", "unlink", "symlink"}
      PROVE  Recoverable(job.step) # None
  BY <1>c, <1>s, <1>t, ManagerAssumption
     DEF IInv, CommittedInv, Recoverable, Whole, Exists, TypeOK, Dir, Gens
<1>p. ASSUME UNCHANGED <<dirs, aside, backups>>,
             \A k \in Pointers : Named(k)' \in {Named(k), job.step},
             Recoverable(job.step) # None
      PROVE  VanishedStepHasBackup' /\ PointerTargetKept'
  BY <1>p DEF IInv, VanishedStepHasBackup, PointerTargetKept, Recoverable,
     Whole, Exists
<1>11. CASE WriteJson
  <2>1. \A k \in Pointers : Named(k)' \in {Named(k), job.step}
    BY <1>11, <1>s, <1>t DEF WriteJson, Named, TypeOK
  <2>2. Progress'
    BY <1>11, <1>s, <1>t DEF WriteJson, TypeOK, IInv, StagedInv, SwapInv,
       DropInv, CommittedInv, PointerInv, VictimsInv, Whole, Exists, PointerOf
  <2>3. QED
    BY <1>11, <1>c, <1>p, <1>q, <2>1, <2>2 DEF WriteJson
<1>12. CASE Unlink
  <2>1. \A k \in Pointers : Named(k)' \in {Named(k), job.step}
    BY <1>12, <1>s, <1>t DEF Unlink, Named, TypeOK, IInv, PointerInv
  <2>2. Progress'
    BY <1>12 DEF Unlink, IInv, StagedInv, SwapInv, DropInv, CommittedInv,
       PointerInv, VictimsInv, Whole, Exists, PointerOf
  <2>3. QED
    BY <1>12, <1>c, <1>p, <1>q, <2>1, <2>2 DEF Unlink
<1>13. CASE UnlinkFails
  <2>1. Progress'
    BY <1>13 DEF UnlinkFails, PointerDone, IInv, StagedInv, SwapInv, DropInv,
       CommittedInv, PointerInv, VictimsInv
  <2>2. QED
    BY <1>1, <1>13, <2>1 DEF UnlinkFails
<1>14. CASE Symlink
  <2>1. \A k \in Pointers : Named(k)' \in {Named(k), job.step}
    BY <1>14, <1>s, <1>t, ManagerAssumption DEF Symlink, Named, TypeOK, Steps
  <2>2. Progress'
    BY <1>14 DEF Symlink, PointerDone, IInv, StagedInv, SwapInv, DropInv,
       CommittedInv, PointerInv, VictimsInv
  <2>3. QED
    BY <1>14, <1>c, <1>p, <1>q, <2>1, <2>2 DEF Symlink
<1>15. CASE StartPrune
  <2>1. \A n \in Prunable : Exists(n) /\ \A k \in Pointers : Named(k) # n
    BY DEF Prunable, Listed, ReadPointer, Named
  <2>2. VictimsInv'
    BY <1>15, <2>1 DEF StartPrune, disk, VictimsInv, Exists, Named
  <2>3. Progress'
    BY <1>15, <2>2 DEF StartPrune, StagedInv, SwapInv, DropInv, CommittedInv,
       PointerInv
  <2>4. QED
    BY <1>1, <1>15, <2>3 DEF StartPrune
<1>v. ASSUME NEW n \in victims, pc = "delete"
      PROVE  /\ n \in Steps /\ Exists(n) /\ aside[n] = None
             /\ \A k \in Pointers : Named(k) # n
  BY <1>v, <1>t DEF IInv, VictimsInv, TypeOK, VanishedStepHasBackup
<1>r. ASSUME NEW n \in victims, pc = "delete",
             UNCHANGED <<json, link, backups, aside>>,
             \A m \in Steps \ {n} : dirs'[m] = dirs[m]
      PROVE  VanishedStepHasBackup' /\ PointerTargetKept'
  <2>1. PointerTargetKept'
    BY <1>t, <1>r, <1>v, OneDirChanged DEF IInv
  <2>2. VanishedStepHasBackup'
    BY <1>r, <1>v DEF IInv, VanishedStepHasBackup, Exists
  <2>3. QED
    BY <2>1, <2>2
<1>16. ASSUME NEW n \in Steps, NEW f \in Files, RemoveFile(n, f) PROVE IInv'
  <2>1. /\ n \in victims /\ pc = "delete"
        /\ UNCHANGED <<json, link, backups, aside, victims, pc, job>>
        /\ \A m \in Steps \ {n} : dirs'[m] = dirs[m]
    BY <1>16, <1>t DEF RemoveFile, Lowest, TypeOK
  <2>2. dirs[n] \in Dir
    BY <1>16, <1>t DEF RemoveFile, TypeOK, Exists
  <2>3. dirs'[n] # None
    <3>1. dirs'[n] = [dirs[n] EXCEPT !.files = @ \ {f}]
      BY <1>16, <1>t DEF RemoveFile, TypeOK
    <3>2. dirs'[n] \in Dir
      BY <2>2, <3>1 DEF Dir
    <3>3. QED
      BY <3>2, ManagerAssumption
  <2>4. VictimsInv'
    BY <1>t, <2>1, <2>3 DEF IInv, TypeOK, VictimsInv, Exists, Named
  <2>5. Progress'
    BY <2>1, <2>4 DEF StagedInv, SwapInv, DropInv, CommittedInv, PointerInv
  <2>6. QED
    BY <1>q, <1>r, <2>1, <2>5
<1>17. ASSUME NEW n \in Steps, RemoveDir(n) PROVE IInv'
  <2>1. /\ n \in victims /\ pc = "delete" /\ victims' = victims \ {n}
        /\ UNCHANGED <<json, link, backups, aside, pc, job>>
        /\ \A m \in Steps \ {n} : dirs'[m] = dirs[m]
    BY <1>17, <1>t DEF RemoveDir, Lowest, TypeOK
  <2>2. VictimsInv'
    BY <1>t, <2>1 DEF IInv, TypeOK, VictimsInv, Exists, Named
  <2>3. Progress'
    BY <2>1, <2>2 DEF StagedInv, SwapInv, DropInv, CommittedInv, PointerInv
  <2>4. QED
    BY <1>q, <1>r, <2>1, <2>3
<1>18. ASSUME NEW n \in Steps, RemoveFails(n) PROVE IInv'
  <2>1. Progress'
    BY <1>18 DEF RemoveFails, disk, IInv, StagedInv, SwapInv, DropInv,
       CommittedInv, PointerInv, VictimsInv, Exists, Named
  <2>2. QED
    BY <1>1, <1>18, <2>1 DEF RemoveFails
<1>19. CASE EndPrune
  <2>1. Progress'
    BY <1>19 DEF EndPrune, StagedInv, SwapInv, DropInv, CommittedInv, PointerInv,
       VictimsInv
  <2>2. QED
    BY <1>1, <1>19, <2>1 DEF EndPrune
<1>20. CASE Crash
  <2>1. Progress'
    BY <1>20 DEF Crash, StagedInv, SwapInv, DropInv, CommittedInv, PointerInv,
       VictimsInv
  <2>2. QED
    BY <1>1, <1>20, <2>1 DEF Crash
<1>21. CASE Resume
  <2>1. Progress'
    BY <1>21 DEF Resume, StagedInv, SwapInv, DropInv, CommittedInv, PointerInv,
       VictimsInv
  <2>2. QED
    BY <1>1, <1>21, <2>1 DEF Resume
<1>22. CASE UNCHANGED vars
  <2>1. Progress'
    BY <1>22 DEF vars, IInv, StagedInv, SwapInv, DropInv, CommittedInv,
       PointerInv, VictimsInv, Whole, Exists, Named
  <2>2. QED
    BY <1>1, <1>22, <2>1 DEF vars, disk
<1>23. QED
  BY <1>2, <1>3, <1>4, <1>5, <1>6, <1>7, <1>8, <1>9, <1>10, <1>11, <1>12,
     <1>13, <1>14, <1>15, <1>16, <1>17, <1>18, <1>19, <1>20, <1>21, <1>22
     DEF Next

\* The inductive invariant holds in every behaviour.
THEOREM Invariance == Spec => []IInv
<1>1. IInv /\ TypeOK' /\ [Next]_vars => IInv'
  BY StepIInv
<1>2. QED
  BY InitIInv, <1>1, TypeCorrect, PTL DEF Spec

\* A pointer always resolves to a step with a complete copy on disk.
THEOREM PointersSafe == Spec => []PointerTargetKept
<1>1. IInv => PointerTargetKept
  BY DEF IInv
<1>2. QED
  BY <1>1, Invariance, PTL

\* A step that an interrupted overwrite made vanish has a complete backup.
THEOREM VanishedStepsSafe == Spec => []VanishedStepHasBackup
<1>1. IInv => VanishedStepHasBackup
  BY DEF IInv
<1>2. QED
  BY <1>1, Invariance, PTL

------------------------------------------------------------------------------
(***************************************************************************)
(* What the implementation of CheckpointStore, and the answer of latest(), *)
(* rest on: generations only grow, every save is at a step that no listed  *)
(* one exceeds, and what is half removed has something newer above it.     *)
(***************************************************************************)
GenInv ==
  /\ \A n \in Steps : /\ Exists(n) => dirs[n].gen <= saves
                      /\ aside[n] # None => aside[n] <= saves
  /\ pc \in {"stage", "commit", "swap"} =>
       /\ job.gen = saves
       /\ \A n \in Steps : /\ Exists(n) => dirs[n].gen < saves
                           /\ aside[n] # None => aside[n] < saves
  /\ pc = "swap" => moved.gen < saves

\* A directory renamed aside that does not count as recoverable is incomplete.
MovedInv == pc = "swap" /\ aside[job.step] = None => moved.files # Files

AtInv ==
  /\ pc # "down" => \A n \in Listed : n <= at
  /\ pc \notin {"idle", "down"} => job.step = at

\* The save that a retention pass follows is newer than all it removes.
RetentionInv ==
  /\ pc \in {"prune", "delete"} => Whole(job.step)
  /\ pc = "delete" => \A n \in victims : n < job.step

PartialInv ==
  /\ \A n \in Steps : Exists(n) /\ ~Whole(n) => \E m \in Held : m > n
  /\ pc = "swap" /\ moved.files # Files => \E m \in Held : m > job.step

StoreInv == GenInv /\ MovedInv /\ AtInv /\ RetentionInv /\ PartialInv

------------------------------------------------------------------------------
\* Steps that rename and remove nothing leave what the readers find.
LEMMA SameDirs ==
  ASSUME UNCHANGED <<dirs, aside>>
  PROVE  /\ Held' = Held /\ Listed' = Listed
         /\ \A n \in Steps : /\ Exists(n)' <=> Exists(n)
                             /\ Whole(n)' <=> Whole(n)
                             /\ Recoverable(n)' = Recoverable(n)
BY DEF Held, Listed, Exists, Whole, Recoverable

\* A set of numbers with a bound and a member has a largest one.
LEMMA LargestExists ==
  ASSUME NEW b \in Nat, NEW S \in SUBSET (0..b), S # {}
  PROVE  \E n \in S : \A m \in S : m <= n
<1> DEFINE T == {b - n : n \in S}
           R == {ss \in Nat \X Nat : ss[1] < ss[2]}
<1>1. T \subseteq Nat /\ T # {}
  <2>1. T \subseteq Nat
    OBVIOUS
  <2>2. T # {}
    OBVIOUS
  <2> QED BY <2>1, <2>2
<1>2. IsWellFoundedOn(R, Nat)
  <2>1. OpToRel(<, Nat) = R
    BY Zenon DEF OpToRel
  <2> QED BY <2>1, NatLessThanWellFounded
<1>3. PICK x \in T : \A y \in T : ~(<<y, x>> \in R)
  <2> HIDE DEF R
  <2> QED BY <1>1, <1>2, WFMin
<1>4. PICK n \in S : x = b - n
  OBVIOUS
<1>5. ASSUME NEW m \in S PROVE m <= n
  <2>1. b - m \in T /\ <<b - m, x>> \in Nat \X Nat
    BY <1>1, <1>3
  <2>2. ~(b - m < x)
    <3>1. <<b - m, x>> \notin R
      BY <1>3, <2>1
    <3>2. <<b - m, x>>[1] = b - m /\ <<b - m, x>>[2] = x
      OBVIOUS
    <3> QED BY <2>1, <3>1, <3>2
  <2> QED BY <1>4, <2>2
<1> QED BY <1>5

\* A set of steps has a largest one, and Newest is it.
LEMMA NewestIsLargest ==
  ASSUME NEW S \in SUBSET Steps, S # {}
  PROVE  Newest(S) \in S /\ \A m \in S : m <= Newest(S)
<1>1. MaxStep \in Nat /\ S \in SUBSET (0..MaxStep)
  BY ManagerAssumption DEF Steps
<1>2. \E n \in S : \A m \in S : m <= n
  BY <1>1, LargestExists
<1> QED
  BY <1>2, Zenon DEF Newest

\* A complete directory makes its step recoverable, with its own generation.
LEMMA WholeIsHeld ==
  ASSUME TypeOK, VanishedStepHasBackup, NEW n \in Steps, Whole(n)
  PROVE  /\ aside[n] = None /\ Recoverable(n) = dirs[n].gen
         /\ Recoverable(n) # None /\ n \in Held /\ n \in Listed
<1>1. aside[n] = None
  BY DEF VanishedStepHasBackup, Whole
<1>2. dirs[n] \in Dir
  BY DEF TypeOK, Whole, Exists
<1>3. dirs[n].gen # None
  BY <1>2, ManagerAssumption DEF Dir, Gens
<1> QED
  BY <1>1, <1>3 DEF Recoverable, Held, Listed, Whole, Files

\* A save that lands keeps what was held, and its own step is the newest.
LEMMA Landed ==
  ASSUME IInv, IInv', StoreInv, NEW n \in Steps, n = job.step, pc \in {"commit", "swap"},
         dirs' = [dirs EXCEPT ![n] = Staged], aside' = [aside EXCEPT ![n] = None]
  PROVE  /\ Whole(n)' /\ Recoverable(n)' = job.gen /\ job.gen \in Gens
         /\ \A m \in Steps \ {n} : /\ dirs'[m] = dirs[m] /\ aside'[m] = aside[m]
                                   /\ Recoverable(m)' = Recoverable(m)
         /\ Recoverable(n) # None => Recoverable(n) < job.gen
         /\ Held \subseteq Held'
<1>t. TypeOK /\ TypeOK'
  BY DEF IInv
<1>1. dirs'[n] = Staged /\ aside'[n] = None
  BY <1>t DEF TypeOK
<1>2. job.gen \in Gens /\ job.files = Files
  BY <1>t DEF TypeOK, IInv, StagedInv
<1>3. Staged \in Dir /\ Staged.gen = job.gen /\ Staged.files = Files
  BY <1>2 DEF Staged, Dir, Files
<1>4. Whole(n)'
  BY <1>1, <1>3, ManagerAssumption DEF Whole, Exists
<1>5. Recoverable(n)' = job.gen
  BY <1>1, <1>3, <1>4 DEF Recoverable
<1>6. \A m \in Steps \ {n} : dirs'[m] = dirs[m] /\ aside'[m] = aside[m]
  BY <1>t DEF TypeOK
<1>7. \A m \in Steps \ {n} : Recoverable(m)' = Recoverable(m)
  BY <1>6 DEF Recoverable, Whole, Exists
<1>8. Recoverable(n) # None => Recoverable(n) < job.gen
  BY DEF StoreInv, GenInv, Recoverable, Whole
<1>9. Held \subseteq Held'
  BY <1>2, <1>5, <1>7, ManagerAssumption DEF Held, Gens
<1> QED
  BY <1>2, <1>4, <1>5, <1>6, <1>7, <1>8, <1>9

LEMMA InitStoreInv == Init => StoreInv
BY DEF Init, StoreInv, GenInv, MovedInv, AtInv, RetentionInv, PartialInv, Exists, Listed

LEMMA StepStoreInv ==
  ASSUME IInv, IInv', StoreInv, [Next]_vars
  PROVE  StoreInv'
<1>t. TypeOK /\ TypeOK' /\ VanishedStepHasBackup /\ VanishedStepHasBackup'
  BY DEF IInv
<1>s. job.step \in Steps /\ \A n \in Steps : n \in Int
  BY <1>t DEF TypeOK, Steps
<1>a. ASSUME UNCHANGED <<dirs, aside>>, pc' # "swap", GenInv', AtInv', RetentionInv'
      PROVE  StoreInv'
  BY <1>a, SameDirs DEF StoreInv, MovedInv, PartialInv
<1>g. ASSUME UNCHANGED <<dirs, aside, saves>>, pc' \notin {"stage", "commit", "swap"}
      PROVE  GenInv'
  BY <1>g DEF StoreInv, GenInv, Exists
<1>1. CASE Advance
  <2>1. AtInv' /\ RetentionInv'
    BY <1>1, <1>t, <1>s, SameDirs DEF Advance, disk, TypeOK, StoreInv, AtInv, RetentionInv, Listed
  <2> QED
    BY <1>1, <1>a, <1>g, <2>1 DEF Advance, disk
<1>2. ASSUME NEW kind \in Kinds, StartSave(kind) PROVE StoreInv'
  <2>1. AtInv' /\ RetentionInv'
    BY <1>2, <1>t, SameDirs DEF StartSave, disk, TypeOK, StoreInv, AtInv, RetentionInv
  <2>2. GenInv'
    <3>1. \A n \in Steps : /\ Exists(n) => dirs[n].gen \in Nat
                           /\ aside[n] # None => aside[n] \in Nat
      BY <1>t DEF TypeOK, Exists, Dir, Gens
    <3>2. saves \in Nat
      BY <1>t DEF TypeOK
    <3>3. \A n \in Steps : /\ Exists(n) => dirs[n].gen <= saves
                           /\ aside[n] # None => aside[n] <= saves
      BY DEF StoreInv, GenInv
    <3>4. /\ saves' = saves + 1 /\ UNCHANGED <<dirs, aside>> /\ job'.gen = saves + 1
          /\ pc' = "stage"
      BY <1>2 DEF StartSave, disk
    <3>5. ASSUME NEW n \in Steps
          PROVE  /\ Exists(n)' => dirs'[n].gen < saves' /\ dirs'[n].gen <= saves'
                 /\ aside'[n] # None => aside'[n] < saves' /\ aside'[n] <= saves'
      <4>1. ASSUME Exists(n) PROVE dirs'[n].gen < saves' /\ dirs'[n].gen <= saves'
        <5>1. dirs'[n].gen \in Nat /\ dirs'[n].gen <= saves
          BY <3>1, <3>3, <3>4, <4>1
        <5> QED
          BY <3>2, <3>4, <5>1
      <4>2. aside'[n] # None => aside'[n] < saves' /\ aside'[n] <= saves'
        <5>1. aside'[n] # None => aside'[n] \in Nat /\ aside'[n] <= saves
          BY <3>1, <3>3, <3>4
        <5> QED
          BY <3>2, <3>4, <5>1
      <4>3. Exists(n)' <=> Exists(n)
        BY <3>4 DEF Exists
      <4> QED
        BY <4>1, <4>2, <4>3
    <3>6. /\ \A n \in Steps : /\ Exists(n)' => dirs'[n].gen <= saves'
                              /\ aside'[n] # None => aside'[n] <= saves'
          /\ \A n \in Steps : /\ Exists(n)' => dirs'[n].gen < saves'
                              /\ aside'[n] # None => aside'[n] < saves'
      BY <3>5
    <3>7. job'.gen = saves' /\ pc' # "swap"
      BY <3>4
    <3> QED
      BY <3>6, <3>7 DEF GenInv, Exists
  <2> QED
    BY <1>2, <1>a, <2>1, <2>2 DEF StartSave, disk
<1>3. ASSUME UNCHANGED <<at, saves, dirs, aside>>, pc = "stage", pc' \in {"stage", "commit"},
             job'.step = job.step, job'.gen = job.gen
      PROVE  StoreInv'
  <2>1. GenInv' /\ AtInv' /\ RetentionInv'
    BY <1>3, SameDirs DEF StoreInv, GenInv, AtInv, RetentionInv
  <2> QED
    BY <1>3, <1>a, <2>1
<1>4. ASSUME NEW f \in Parts, WritePart(f) PROVE StoreInv'
  BY <1>3, <1>4, <1>t DEF WritePart, disk, TypeOK
<1>5. CASE WriteManifest
  BY <1>3, <1>5, <1>t DEF WriteManifest, disk, TypeOK
<1>l. ASSUME pc \in {"commit", "swap"}, pc' \in {"json", "drop"},
             UNCHANGED <<at, saves, job>>,
             dirs' = [dirs EXCEPT ![job.step] = Staged],
             aside' = [aside EXCEPT ![job.step] = None]
      PROVE  StoreInv'
  <2> PICK n \in Steps : n = job.step
    BY <1>s
  <2>1. /\ Whole(n)' /\ Recoverable(n)' = job.gen
        /\ \A m \in Steps \ {n} : dirs'[m] = dirs[m] /\ aside'[m] = aside[m]
        /\ Held \subseteq Held'
    BY <1>l, Landed
  <2>2. dirs'[n] = Staged /\ aside'[n] = None /\ saves \in Nat
    BY <1>l, <1>t DEF TypeOK
  <2>3. GenInv'
    BY <1>l, <2>1, <2>2 DEF StoreInv, GenInv, Exists, Staged
  <2>4. AtInv'
    <3>1. n = at /\ \A m \in Listed : m <= at
      BY <1>l DEF StoreInv, AtInv
    <3>2. Listed' \subseteq Listed \cup {n}
      BY <2>1 DEF Listed, Exists
    <3> QED
      BY <1>l, <1>s, <3>1, <3>2 DEF AtInv
  <2>5. PartialInv'
    BY <1>l, <2>1 DEF StoreInv, PartialInv, Exists, Whole
  <2> QED
    BY <1>l, <2>3, <2>4, <2>5 DEF StoreInv, MovedInv, RetentionInv
<1>6. CASE CommitFresh
  BY <1>6, <1>l DEF CommitFresh
<1>7. CASE MoveAside
  <2> PICK n \in Steps : n = job.step
    BY <1>s
  <2>1. /\ Exists(n) /\ moved' = dirs[n] /\ dirs'[n] = None /\ dirs[n] \in Dir
        /\ aside[n] = None
        /\ \A m \in Steps \ {n} : dirs'[m] = dirs[m] /\ aside'[m] = aside[m]
        /\ pc = "commit" /\ pc' = "swap" /\ UNCHANGED <<at, saves, job>>
    BY <1>7, <1>t DEF MoveAside, TypeOK, Exists, VanishedStepHasBackup
  <2>2. aside'[n] = IF Whole(n) THEN dirs[n].gen ELSE None
    BY <1>7, <1>t, <2>1 DEF MoveAside, TypeOK
  <2>3. dirs[n].gen \in Gens /\ dirs[n].gen # None
    BY <2>1, ManagerAssumption DEF Dir, Gens
  <2>4. Held' = Held
    <3>1. \A m \in Steps \ {n} : Recoverable(m)' = Recoverable(m)
      BY <2>1 DEF Recoverable, Whole, Exists
    <3>2. Recoverable(n)' = Recoverable(n)
      BY <2>1, <2>2, <2>3 DEF Recoverable, Whole, Exists
    <3> QED
      BY <3>1, <3>2 DEF Held
  <2>5. GenInv'
    BY <2>1, <2>2 DEF StoreInv, GenInv, Exists
  <2>6. MovedInv'
    BY <2>1, <2>2, <2>3 DEF MovedInv, Whole
  <2>7. AtInv' /\ RetentionInv'
    <3>1. Listed' \subseteq Listed
      BY <2>1 DEF Listed, Exists
    <3> QED
      BY <2>1, <3>1 DEF StoreInv, AtInv, RetentionInv
  <2>8. PartialInv'
    BY <2>1, <2>4 DEF StoreInv, PartialInv, Exists, Whole
  <2> QED
    BY <2>5, <2>6, <2>7, <2>8 DEF StoreInv
<1>8. CASE SwapIn
  BY <1>8, <1>l DEF SwapIn
<1>9. CASE SwapFails
  <2> PICK n \in Steps : n = job.step
    BY <1>s
  <2>1. /\ dirs'[n] = moved /\ aside'[n] = None /\ pc = "swap" /\ pc' = "down"
        /\ \A m \in Steps \ {n} : dirs'[m] = dirs[m] /\ aside'[m] = aside[m]
        /\ UNCHANGED saves /\ moved \in Dir /\ ~Exists(n)
    BY <1>9, <1>t DEF SwapFails, TypeOK, IInv, SwapInv
  <2>2. moved.gen \in Nat /\ moved.gen # None /\ saves \in Nat
    BY <1>t, <2>1, ManagerAssumption DEF TypeOK, Dir, Gens
  <2>3. Held \subseteq Held'
    <3>1. \A m \in Steps \ {n} : Recoverable(m)' = Recoverable(m)
      BY <2>1 DEF Recoverable, Whole, Exists
    <3>2. Recoverable(n) # None => moved.files = Files
      BY <2>1 DEF IInv, SwapInv, Recoverable, Whole
    <3>3. moved.files = Files => Recoverable(n)' # None
      BY <2>1, <2>2, ManagerAssumption DEF Recoverable, Whole, Exists
    <3> QED
      BY <3>1, <3>2, <3>3 DEF Held
  <2>4. GenInv'
    BY <2>1, <2>2 DEF StoreInv, GenInv, Exists
  <2>5. PartialInv'
    BY <2>1, <2>3 DEF StoreInv, PartialInv, Exists, Whole
  <2> QED
    BY <2>1, <2>4, <2>5 DEF StoreInv, MovedInv, AtInv, RetentionInv
<1>d. ASSUME UNCHANGED <<at, saves, dirs, aside>>,
             pc' \notin {"stage", "commit", "swap"}, pc # "down", pc # "idle",
             pc' \in {"idle", "down"} \/ job' = job,
             pc' \in {"prune", "delete"} => Whole(job.step),
             pc' = "delete" => \A n \in victims' : n < job.step
      PROVE  StoreInv'
  <2>1. AtInv'
    BY <1>d, SameDirs DEF StoreInv, AtInv
  <2>2. RetentionInv'
    BY <1>d, <1>s, SameDirs DEF RetentionInv
  <2> QED
    BY <1>a, <1>d, <1>g, <2>1, <2>2
<1>10. CASE DropBackup
  BY <1>10, <1>d DEF DropBackup
<1>11. CASE WriteJson
  BY <1>11, <1>d DEF WriteJson
<1>12. CASE Unlink
  BY <1>12, <1>d DEF Unlink
<1>13. CASE UnlinkFails
  BY <1>13, <1>d DEF UnlinkFails, PointerDone, disk, IInv, CommittedInv
<1>14. CASE Symlink
  BY <1>14, <1>d DEF Symlink, PointerDone, IInv, CommittedInv
<1>15. CASE StartPrune
  <2>1. ASSUME NEW n \in Prunable PROVE n < job.step
    <3>1. n \in Steps /\ KeepLastN > 0 /\ Cardinality({m \in Listed : m > n}) >= KeepLastN
      BY <2>1 DEF Prunable, Listed
    <3>2. {m \in Listed : m > n} # {}
      BY <3>1, FS_EmptySet, ManagerAssumption
    <3>3. PICK m \in Listed : m > n
      BY <3>2
    <3>4. m <= job.step /\ m \in Steps
      BY <1>15 DEF StartPrune, StoreInv, AtInv, Listed
    <3> QED
      BY <1>s, <3>1, <3>3, <3>4
  <2> QED
    BY <1>15, <1>d, <2>1 DEF StartPrune, disk, StoreInv, RetentionInv
<1>r. ASSUME NEW n \in victims, pc = "delete", pc' = "delete",
             UNCHANGED <<at, saves, job, aside>>, victims' \subseteq victims,
             \A m \in Steps \ {n} : dirs'[m] = dirs[m],
             Exists(n)' => dirs'[n].gen = dirs[n].gen,
             n \in Listed' => n \in Listed
      PROVE  StoreInv'
  <2>1. n \in Steps /\ n < job.step /\ Whole(job.step) /\ Exists(n)
    BY <1>r, <1>t DEF StoreInv, RetentionInv, IInv, VictimsInv, TypeOK
  <2>2. Whole(job.step)'
    BY <1>r, <1>s, <2>1 DEF Whole, Exists
  <2>3. job.step \in Held'
    <3> PICK w \in Steps : w = job.step
      BY <1>s
    <3>1. aside'[w] = None /\ dirs'[w] \in Dir /\ Whole(w)'
      BY <1>r, <1>t, <2>1, <2>2 DEF VanishedStepHasBackup, Whole, Exists, TypeOK
    <3>2. dirs'[w].gen # None
      BY <3>1, ManagerAssumption DEF Dir, Gens
    <3> QED
      BY <3>1, <3>2 DEF Held, Recoverable
  <2>4. Held \ {n} \subseteq Held'
    BY <1>r DEF Held, Recoverable, Whole, Exists
  <2>5. GenInv'
    BY <1>r, <2>1 DEF StoreInv, GenInv, Exists
  <2>6. AtInv'
    <3>1. Listed' \subseteq Listed
      BY <1>r DEF Listed, Exists
    <3> QED
      BY <1>r, <3>1 DEF StoreInv, AtInv
  <2>7. PartialInv'
    <3> SUFFICES ASSUME NEW m \in Steps, (Exists(m) /\ ~Whole(m))'
                 PROVE  \E w \in Held' : w > m
      BY <1>r DEF PartialInv
    <3>1. CASE m = n
      BY <2>1, <2>3, <3>1
    <3>2. CASE m # n
      <4>1. Exists(m) /\ ~Whole(m)
        BY <1>r, <3>2 DEF Exists, Whole
      <4>2. PICK w \in Held : w > m
        BY <4>1 DEF StoreInv, PartialInv
      <4>3. CASE w = n
        BY <1>s, <2>1, <2>3, <4>2, <4>3
      <4>4. CASE w # n
        BY <2>4, <4>2, <4>4
      <4> QED
        BY <4>3, <4>4
    <3> QED
      BY <3>1, <3>2
  <2> QED
    BY <1>r, <2>2, <2>5, <2>6, <2>7 DEF StoreInv, MovedInv, RetentionInv
<1>16. ASSUME NEW n \in Steps, NEW f \in Files, RemoveFile(n, f) PROVE StoreInv'
  <2>1. /\ n \in victims /\ pc = "delete" /\ UNCHANGED <<pc, at, saves, job, aside, victims>>
        /\ \A m \in Steps \ {n} : dirs'[m] = dirs[m]
    BY <1>16, <1>t DEF RemoveFile, Lowest, TypeOK
  <2>2. dirs'[n] = [dirs[n] EXCEPT !.files = @ \ {f}] /\ dirs[n] \in Dir /\ Exists(n)
    BY <1>16, <1>t DEF RemoveFile, TypeOK, Exists
  <2>3. dirs'[n].gen = dirs[n].gen /\ dirs'[n].files \subseteq dirs[n].files
    BY <2>2 DEF Dir
  <2>4. n \in Listed' => n \in Listed
    BY <2>2, <2>3 DEF Listed
  <2> QED
    BY <1>r, <2>1, <2>3, <2>4
<1>17. ASSUME NEW n \in Steps, RemoveDir(n) PROVE StoreInv'
  <2>1. /\ n \in victims /\ pc = "delete" /\ UNCHANGED <<pc, at, saves, job, aside>>
        /\ victims' \subseteq victims
        /\ \A m \in Steps \ {n} : dirs'[m] = dirs[m]
        /\ dirs'[n] = None
    BY <1>17, <1>t DEF RemoveDir, Lowest, TypeOK
  <2>2. ~Exists(n)' /\ n \notin Listed'
    BY <2>1 DEF Listed, Exists
  <2> QED
    BY <1>r, <2>1, <2>2
<1>18. ASSUME NEW n \in Steps, RemoveFails(n) PROVE StoreInv'
  BY <1>18, <1>d DEF RemoveFails, disk, StoreInv, RetentionInv
<1>19. CASE EndPrune
  BY <1>19, <1>d DEF EndPrune, disk
<1>20. CASE Crash
  <2>1. AtInv' /\ RetentionInv'
    BY <1>20 DEF Crash, AtInv, RetentionInv
  <2> QED
    BY <1>20, <1>a, <1>g, <2>1 DEF Crash, disk
<1>21. CASE Resume
  <2>1. at' \in Steps /\ at' = Latest /\ Whole(at')
    BY <1>21 DEF Resume
  <2>2. at' \in Listed
    BY <1>t, <2>1, WholeIsHeld
  <2>3. at' = Newest(Listed) /\ Listed \in SUBSET Steps
    BY <2>1, <2>2 DEF Latest, Listed
  <2>4. \A n \in Listed : n <= at'
    BY <2>2, <2>3, NewestIsLargest
  <2>5. AtInv' /\ RetentionInv'
    BY <1>21, <2>4, SameDirs DEF Resume, disk, AtInv, RetentionInv
  <2> QED
    BY <1>21, <1>a, <1>g, <2>5 DEF Resume, disk
<1>22. CASE UNCHANGED vars
  <2>1. /\ UNCHANGED <<dirs, aside, pc, saves, job, moved, at, victims>>
    BY <1>22 DEF vars
  <2>2. GenInv' /\ MovedInv'
    BY <2>1 DEF StoreInv, GenInv, MovedInv, Exists
  <2>3. AtInv' /\ PartialInv'
    BY <2>1, SameDirs DEF StoreInv, AtInv, PartialInv
  <2>4. RetentionInv'
    BY <2>1 DEF StoreInv, RetentionInv, Whole, Exists
  <2> QED
    BY <2>2, <2>3, <2>4 DEF StoreInv
<1> QED
  BY <1>1, <1>2, <1>4, <1>5, <1>6, <1>7, <1>8, <1>9, <1>10, <1>11, <1>12, <1>13, <1>14,
     <1>15, <1>16, <1>17, <1>18, <1>19, <1>20, <1>21, <1>22 DEF Next

\* So does its part about what the abstract store is told of.
THEOREM StoreInvariance == Spec => [](IInv /\ StoreInv)
<1>1. IInv /\ IInv' /\ StoreInv /\ [Next]_vars => StoreInv'
  BY StepStoreInv
<1> QED
  BY <1>1, InitStoreInv, Invariance, PTL DEF Spec

\* latest() answers with the newest complete step, however often retention was
\* cut short, unless an overwrite was cut between its two renames.
THEOREM LatestIsTheNewest == Spec => []LatestIsNewest
<1>1. IInv /\ StoreInv => LatestIsNewest
  <2> SUFFICES ASSUME IInv, StoreInv, \A n \in Steps : aside[n] = None
               PROVE  Latest = IF Held = {} THEN None ELSE Newest(Held)
    BY DEF LatestIsNewest
  <2>t. TypeOK /\ VanishedStepHasBackup
    BY DEF IInv
  <2>1. \A n \in Held : n \in Steps /\ Whole(n) /\ n \in Listed
    BY <2>t, WholeIsHeld DEF Held, Recoverable
  <2>2. CASE Listed = {}
    <3>1. Held = {}
      BY <2>1, <2>2
    <3>2. Latest = ReadPointer("last")
      BY <2>2 DEF Latest
    <3>3. Named("last") = None
      <4>1. Named("last") # None => Named("last") \in Steps /\ Recoverable(Named("last")) # None
        BY <2>t DEF IInv, PointerTargetKept, Pointers, TypeOK, Named
      <4> QED
        BY <3>1, <4>1 DEF Held
    <3>4. ReadPointer("last") = None
      BY <3>3 DEF ReadPointer, Named
    <3> QED
      BY <3>1, <3>2, <3>4
  <2>3. CASE Listed # {}
    <3> DEFINE x == Newest(Listed)
    <3>1. x \in Listed /\ x \in Steps /\ \A m \in Listed : m <= x
      BY <2>3, NewestIsLargest DEF Listed
    <3> HIDE DEF x
    <3>2. Whole(x)
      <4> SUFFICES ASSUME ~Whole(x) PROVE FALSE
        OBVIOUS
      <4>1. Exists(x)
        BY <3>1 DEF Listed
      <4>2. PICK m \in Held : m > x
        BY <3>1, <4>1 DEF StoreInv, PartialInv
      <4>3. m <= x /\ m \in Int /\ x \in Int
        BY <2>1, <3>1, <4>2 DEF Steps
      <4> QED
        BY <4>2, <4>3
    <3>3. x \in Held /\ \A m \in Held : m <= x
      BY <2>1, <2>t, <3>1, <3>2, WholeIsHeld
    <3>4. Newest(Held) \in Held /\ \A m \in Held : m <= Newest(Held)
      BY <3>3, NewestIsLargest DEF Held
    <3>5. Newest(Held) = x
      <4> DEFINE y == Newest(Held)
      <4>1. y \in Steps /\ y \in Held /\ x <= y /\ y <= x
        BY <2>1, <3>3, <3>4
      <4> HIDE DEF y
      <4>2. x \in Int /\ y \in Int
        BY <3>1, <4>1 DEF Steps
      <4>3. x = y
        BY <4>1, <4>2
      <4> QED
        BY <4>3 DEF y
    <3> QED
      BY <2>3, <3>3, <3>5 DEF Latest, x
  <2> QED
    BY <2>2, <2>3
<1> QED
  BY <1>1, StoreInvariance, PTL

------------------------------------------------------------------------------
(***************************************************************************)
(* The manager implements CheckpointStore.  What a step does to the copies *)
(* and the pointers is one of four things.                                 *)
(***************************************************************************)
LEMMA Stutters ==
  ASSUME \A n \in Steps : Recoverable(n)' = Recoverable(n),
         \A k \in Pointers : Named(k)' = Named(k)
  PROVE  UNCHANGED Store!vars
BY DEF Store!vars

LEMMA Commits ==
  ASSUME NEW n \in Steps, NEW g \in Gens,
         Recoverable(n) # None => Recoverable(n) < g,
         Recoverable(n)' = g,
         \A m \in Steps \ {n} : Recoverable(m)' = Recoverable(m),
         UNCHANGED <<json, link>>
  PROVE  Store!Next
<1>1. \A k \in Pointers : Named(k)' = Named(k)
  BY DEF Named
<1>2. Store!Commit(n, g)
  BY <1>1 DEF Store!Commit
<1> QED
  BY <1>2 DEF Store!Next

LEMMA Points ==
  ASSUME NEW n \in Steps, NEW k \in Pointers, Recoverable(n) # None,
         UNCHANGED <<dirs, aside>>,
         Named(k)' = n, \A j \in Pointers \ {k} : Named(j)' = Named(j)
  PROVE  Store!Next
<1>1. \A m \in Steps : Recoverable(m)' = Recoverable(m)
  BY SameDirs
<1>2. Store!Point(k, n)
  BY <1>1 DEF Store!Point, Store!Held
<1> QED
  BY <1>2 DEF Store!Next

LEMMA Forgets ==
  ASSUME NEW n \in Steps, Recoverable(n) # None, \A k \in Pointers : Named(k) # n,
         NEW w \in Steps, w > n, Recoverable(w) # None,
         Recoverable(n)' = None,
         \A m \in Steps \ {n} : Recoverable(m)' = Recoverable(m),
         UNCHANGED <<json, link>>
  PROVE  Store!Next
<1>1. \A k \in Pointers : Named(k)' = Named(k)
  BY DEF Named
<1>2. Store!Forget(n)
  BY <1>1 DEF Store!Forget, Store!Held
<1> QED
  BY <1>2 DEF Store!Next

LEMMA StoreStep ==
  ASSUME IInv, IInv', StoreInv, [Next]_vars
  PROVE  [Store!Next]_(Store!vars)
<1>t. TypeOK /\ TypeOK' /\ VanishedStepHasBackup /\ VanishedStepHasBackup'
  BY DEF IInv
<1>s. job.step \in Steps /\ PointerOf(job.kind) \in Pointers
  BY <1>t, ReadersTyped DEF TypeOK
<1>1. ASSUME UNCHANGED <<dirs, aside, json, link>> PROVE UNCHANGED Store!vars
  <2>1. \A k \in Pointers : Named(k)' = Named(k)
    BY <1>1 DEF Named
  <2> QED
    BY <1>1, <2>1, SameDirs, Stutters
<1>2. ASSUME pc \in {"commit", "swap"}, UNCHANGED <<json, link>>,
             dirs' = [dirs EXCEPT ![job.step] = Staged],
             aside' = [aside EXCEPT ![job.step] = None]
      PROVE  Store!Next
  BY <1>2, <1>s, Landed, Commits
<1>3. CASE CommitFresh
  BY <1>2, <1>3 DEF CommitFresh
<1>4. CASE SwapIn
  BY <1>2, <1>4 DEF SwapIn
<1>5. ASSUME UNCHANGED <<json, link>>, NEW n \in Steps,
             \A m \in Steps \ {n} : dirs'[m] = dirs[m] /\ aside'[m] = aside[m],
             Recoverable(n)' = Recoverable(n)
      PROVE  UNCHANGED Store!vars
  <2>1. \A m \in Steps \ {n} : Recoverable(m)' = Recoverable(m)
    BY <1>5 DEF Recoverable, Whole, Exists
  <2>2. \A k \in Pointers : Named(k)' = Named(k)
    BY <1>5 DEF Named
  <2> QED
    BY <1>5, <2>1, <2>2, Stutters
<1>6. CASE MoveAside
  <2> PICK n \in Steps : n = job.step
    BY <1>s
  <2>1. /\ Exists(n) /\ dirs'[n] = None /\ dirs[n] \in Dir /\ aside[n] = None
        /\ \A m \in Steps \ {n} : dirs'[m] = dirs[m] /\ aside'[m] = aside[m]
        /\ UNCHANGED <<json, link>>
    BY <1>6, <1>t DEF MoveAside, TypeOK, Exists, VanishedStepHasBackup
  <2>2. aside'[n] = IF Whole(n) THEN dirs[n].gen ELSE None
    BY <1>6, <1>t, <2>1 DEF MoveAside, TypeOK
  <2>3. dirs[n].gen # None
    BY <2>1, ManagerAssumption DEF Dir, Gens
  <2>4. Recoverable(n)' = Recoverable(n)
    BY <2>1, <2>2, <2>3 DEF Recoverable, Whole, Exists
  <2> QED
    BY <1>5, <2>1, <2>4
<1>7. CASE SwapFails
  <2> PICK n \in Steps : n = job.step
    BY <1>s
  <2>1. /\ dirs'[n] = moved /\ aside'[n] = None /\ pc = "swap"
        /\ \A m \in Steps \ {n} : dirs'[m] = dirs[m] /\ aside'[m] = aside[m]
        /\ moved # None /\ ~Exists(n) /\ UNCHANGED <<json, link>>
    BY <1>7, <1>t DEF SwapFails, TypeOK, IInv, SwapInv
  <2>2. /\ aside[n] # None => moved.files = Files /\ aside[n] = moved.gen
        /\ aside[n] = None => moved.files # Files
    BY <2>1 DEF IInv, SwapInv, StoreInv, MovedInv
  <2>3. Recoverable(n)' = Recoverable(n)
    BY <2>1, <2>2 DEF Recoverable, Whole, Exists
  <2> QED
    BY <1>5, <2>1, <2>3
<1>p. PICK ptr \in Pointers : ptr = PointerOf(job.kind)
  BY <1>s
<1>8. ASSUME pc \in {"json", "unlink", "symlink"}, UNCHANGED <<dirs, aside>>,
             Named(ptr)' \in {Named(ptr), job.step},
             \A j \in Pointers \ {ptr} : Named(j)' = Named(j)
      PROVE  [Store!Next]_(Store!vars)
  <2>1. Recoverable(job.step) # None
    BY <1>8, <1>s, <1>t, WholeIsHeld DEF IInv, CommittedInv
  <2>2. CASE Named(ptr)' = job.step
    BY <1>8, <1>s, <2>1, <2>2, Points
  <2>3. CASE Named(ptr)' = Named(ptr)
    <3>1. \A j \in Pointers : Named(j)' = Named(j)
      BY <1>8, <2>3
    <3> QED
      BY <1>8, <3>1, SameDirs, Stutters
  <2> QED
    BY <1>8, <2>2, <2>3
<1>9. CASE WriteJson
  <2>1. /\ \A j \in Pointers \ {ptr} : Named(j)' = Named(j)
        /\ Named(ptr)' \in {Named(ptr), job.step}
    BY <1>9, <1>p, <1>t DEF WriteJson, Named, TypeOK
  <2> QED
    BY <1>8, <1>9, <2>1 DEF WriteJson
<1>10. CASE Unlink
  <2>1. /\ \A j \in Pointers \ {ptr} : Named(j)' = Named(j)
        /\ Named(ptr)' \in {Named(ptr), job.step}
    BY <1>10, <1>p, <1>t DEF Unlink, Named, TypeOK, IInv, PointerInv
  <2> QED
    BY <1>8, <1>10, <2>1 DEF Unlink
<1>11. CASE Symlink
  <2>1. /\ \A j \in Pointers \ {ptr} : Named(j)' = Named(j)
        /\ Named(ptr)' \in {Named(ptr), job.step}
    BY <1>11, <1>p, <1>t, ManagerAssumption DEF Symlink, Named, TypeOK, Steps
  <2> QED
    BY <1>8, <1>11, <2>1 DEF Symlink
<1>12. ASSUME NEW n \in Steps, NEW f \in Files, RemoveFile(n, f)
       PROVE  [Store!Next]_(Store!vars)
  <2>1. /\ n \in victims /\ pc = "delete" /\ UNCHANGED <<json, link, aside>>
        /\ \A m \in Steps \ {n} : dirs'[m] = dirs[m]
        /\ Exists(n) /\ dirs[n] \in Dir
        /\ dirs'[n] = [dirs[n] EXCEPT !.files = @ \ {f}]
    BY <1>12, <1>t DEF RemoveFile, Lowest, TypeOK, Exists
  <2>2. aside[n] = None /\ dirs'[n].files = dirs[n].files \ {f}
    BY <1>t, <2>1 DEF VanishedStepHasBackup, Dir
  <2>3. Recoverable(n)' = None
    BY <2>1, <2>2 DEF Recoverable, Whole
  <2>4. CASE Recoverable(n) = None
    BY <1>5, <2>1, <2>3, <2>4
  <2>5. CASE Recoverable(n) # None
    <3>1. job.step > n /\ Recoverable(job.step) # None
      <4>1. Whole(job.step) /\ n < job.step
        BY <2>1 DEF StoreInv, RetentionInv
      <4> QED
        BY <1>s, <1>t, <4>1, WholeIsHeld DEF Steps
    <3>2. \A k \in Pointers : Named(k) # n
      BY <2>1 DEF IInv, VictimsInv
    <3>3. \A m \in Steps \ {n} : Recoverable(m)' = Recoverable(m)
      BY <2>1 DEF Recoverable, Whole, Exists
    <3> QED
      BY <1>s, <2>1, <2>3, <2>5, <3>1, <3>2, <3>3, Forgets
  <2> QED
    BY <2>4, <2>5
<1>13. ASSUME NEW n \in Steps, RemoveDir(n) PROVE UNCHANGED Store!vars
  <2>1. /\ UNCHANGED <<json, link, aside>> /\ Exists(n) /\ dirs[n].files = {}
        /\ \A m \in Steps \ {n} : dirs'[m] = dirs[m]
        /\ dirs'[n] = None
    BY <1>13, <1>t DEF RemoveDir, TypeOK
  <2>2. Recoverable(n)' = Recoverable(n)
    BY <2>1 DEF Recoverable, Whole, Exists, Files
  <2> QED
    BY <1>5, <2>1, <2>2
<1>14. CASE DropBackup
  BY <1>1, <1>14 DEF DropBackup
<1>15. CASE \/ Advance \/ (\E kind \in Kinds : StartSave(kind))
            \/ (\E f \in Parts : WritePart(f)) \/ WriteManifest \/ UnlinkFails
            \/ StartPrune \/ (\E n \in Steps : RemoveFails(n)) \/ EndPrune
            \/ Crash \/ Resume \/ UNCHANGED vars
  BY <1>1, <1>15 DEF Advance, StartSave, WritePart, WriteManifest, UnlinkFails, StartPrune,
     RemoveFails, EndPrune, Crash, Resume, vars, disk
<1> QED
  BY <1>3, <1>4, <1>6, <1>7, <1>9, <1>10, <1>11, <1>12, <1>13, <1>14, <1>15 DEF Next

\* The manager keeps the promises of CheckpointStore for every number of steps,
\* saves and crashes: a save lands whole and never behind a newer one, and
\* retention forgets neither the newest step nor a pointer's target.
THEOREM ManagerImplementsStore == Spec => ImplementsStore
<1>1. Init => Store!Init
  BY DEF Init, Store!Init, Recoverable, Whole, Exists, Named
<1>2. IInv /\ IInv' /\ StoreInv /\ [Next]_vars => [Store!Next]_(Store!vars)
  BY StoreStep
<1> QED
  BY <1>1, <1>2, StoreInvariance, PTL DEF Spec, ImplementsStore, Store!Spec
==============================================================================
