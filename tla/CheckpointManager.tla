-------------------------- MODULE CheckpointManager --------------------------
(***************************************************************************)
(* engine/checkpoint/manager.py at the granularity of its system calls,    *)
(* driven by one trainer (rank 0) that saves at the step it has reached,   *)
(* may be killed between any two calls and is resumed from latest().       *)
(*                                                                         *)
(* A crash is the death of the process: completed renames and unlinks      *)
(* survive it.  Staging directories a dead save leaves behind are never    *)
(* read again, so only the files of the save in progress are kept.         *)
(***************************************************************************)
EXTENDS Integers, FiniteSets

CONSTANTS
  MaxStep,      \* bound: the last training step
  KeepLastN,    \* keep_last_n; 0 or less turns retention off
  Parts,        \* component files of a checkpoint ("model", "optimizer", ...)
  MaxSaves,     \* bound: calls of save() in a behaviour
  MaxCrashes,   \* bound: deaths of the process
  None

Steps == 0..MaxStep
Gens == 1..MaxSaves
Pointers == {"last", "best"}
Kinds == {"step", "best"}
Files == Parts \cup {"manifest"}
Dir == [gen : Gens, files : SUBSET Files]

ASSUME ManagerAssumption ==
  /\ MaxStep \in Nat /\ MaxSaves \in Nat /\ MaxCrashes \in Nat
  /\ KeepLastN \in Int
  /\ None \notin Nat /\ None \notin Dir
  /\ "manifest" \notin Parts

VARIABLES
  pc,        \* where save() stands; "idle" between calls, "down" after a crash
  at,        \* ctx.step of the trainer
  saves,     \* calls of save() so far
  crashes,   \* deaths of the process so far
  job,       \* the save in progress: step, kind, generation, staged files
  moved,     \* the directory _commit_dir has renamed aside, or None
  dirs,      \* step_<n>/ on disk, or None when absent
  backups,   \* complete copies on disk under a *.old.* name
  json,      \* target in <pointer>.json, or None
  link,      \* target of the <pointer> symlink, or None
  victims,   \* directories _prune still has to remove
  aside      \* history: generation of a step whose only copy is a backup

vars == <<pc, at, saves, crashes, job, moved, dirs, backups, json, link,
          victims, aside>>
disk == <<dirs, backups, json, link>>

------------------------------------------------------------------------------
\* Readers: what the code concludes from the files it finds.

Exists(n) == dirs[n] # None
Whole(n) == Exists(n) /\ dirs[n].files = Files

\* list_steps(): a directory counts as soon as it has a manifest.
Listed == {n \in Steps : Exists(n) /\ "manifest" \in dirs[n].files}

\* The step a pointer resolves to; a symlink hides the JSON file.
Named(k) == IF link[k] # None THEN link[k] ELSE json[k]

\* _read_pointer(): a JSON target must exist, a link target need not.
ReadPointer(k) ==
  IF link[k] = None /\ json[k] # None
  THEN IF Exists(json[k]) THEN json[k] ELSE None
  ELSE link[k]

Newest(S) == CHOOSE n \in S : \A m \in S : m <= n

Latest == IF Listed # {} THEN Newest(Listed) ELSE ReadPointer("last")

\* Mutants for the runs: retention that takes no notice of the pointers, and
\* one that removes a directory too many.
PrunableUnprotected ==
  {n \in Listed :
     KeepLastN > 0 /\ Cardinality({m \in Listed : m > n}) >= KeepLastN}

PrunableOneTooMany ==
  {n \in Listed :
     /\ KeepLastN > 0
     /\ Cardinality({m \in Listed : m > n}) >= KeepLastN - 1
     /\ \A k \in Pointers : ReadPointer(k) # n}

\* steps[:excess] without the pointer targets.
Prunable ==
  {n \in Listed :
     /\ KeepLastN > 0
     /\ Cardinality({m \in Listed : m > n}) >= KeepLastN
     /\ \A k \in Pointers : ReadPointer(k) # n}

PointerOf(kind) == IF kind = "step" THEN "last" ELSE "best"
NoJob == [step |-> 0, kind |-> "step", gen |-> 0, files |-> {}]

\* What follows the pointer update: the retention pass of a step save, or the
\* return of save().
PointerDone ==
  IF job.kind = "step"
  THEN pc' = "prune" /\ UNCHANGED job
  ELSE pc' = "idle" /\ job' = NoJob

------------------------------------------------------------------------------

Init ==
  /\ pc = "idle" /\ at = 0 /\ saves = 0 /\ crashes = 0
  /\ job = NoJob /\ moved = None /\ victims = {}
  /\ dirs = [n \in Steps |-> None]
  /\ backups = {}
  /\ json = [k \in Pointers |-> None]
  /\ link = [k \in Pointers |-> None]
  /\ aside = [n \in Steps |-> None]

\* The training loop moves on between two saves.
Advance ==
  /\ pc = "idle" /\ at < MaxStep
  /\ at' = at + 1
  /\ UNCHANGED <<pc, saves, crashes, job, moved, victims, aside, disk>>

\* save(): the staging directory is made; the trainer saves any number of
\* times at one step (step, best, final).
StartSave(kind) ==
  /\ pc = "idle" /\ saves < MaxSaves
  /\ saves' = saves + 1
  /\ job' = [step |-> at, kind |-> kind, gen |-> saves + 1, files |-> {}]
  /\ pc' = "stage"
  /\ UNCHANGED <<at, crashes, moved, victims, aside, disk>>

WritePart(f) ==
  /\ pc = "stage" /\ f \in Parts \ job.files
  /\ job' = [job EXCEPT !.files = @ \cup {f}]
  /\ UNCHANGED <<pc, at, saves, crashes, moved, victims, aside, disk>>

\* Mutant: the manifest is not the last file of the staging directory.
ManifestNotLast ==
  /\ pc = "stage"
  /\ job' = [job EXCEPT !.files = @ \cup {"manifest"}]
  /\ pc' = "commit"
  /\ UNCHANGED <<at, saves, crashes, moved, victims, aside, disk>>

WriteManifest ==
  /\ pc = "stage" /\ job.files = Parts
  /\ job' = [job EXCEPT !.files = @ \cup {"manifest"}]
  /\ pc' = "commit"
  /\ UNCHANGED <<at, saves, crashes, moved, victims, aside, disk>>

Staged == [gen |-> job.gen, files |-> job.files]

\* _commit_dir() onto a free name: one rename.
CommitFresh ==
  /\ pc = "commit" /\ ~Exists(job.step)
  /\ dirs' = [dirs EXCEPT ![job.step] = Staged]
  /\ aside' = [aside EXCEPT ![job.step] = None]
  /\ pc' = "json"
  /\ UNCHANGED <<at, saves, crashes, job, moved, victims, backups, json, link>>

\* _commit_dir() over an existing directory: first rename it aside ...
MoveAside ==
  /\ pc = "commit" /\ Exists(job.step)
  /\ moved' = dirs[job.step]
  /\ dirs' = [dirs EXCEPT ![job.step] = None]
  /\ IF Whole(job.step)
     THEN /\ backups' = backups \cup {[step |-> job.step, gen |-> moved'.gen]}
          /\ aside' = [aside EXCEPT ![job.step] = moved'.gen]
     ELSE UNCHANGED <<backups, aside>>
  /\ pc' = "swap"
  /\ UNCHANGED <<at, saves, crashes, job, victims, json, link>>

\* ... then rename the staging directory in ...
SwapIn ==
  /\ pc = "swap"
  /\ dirs' = [dirs EXCEPT ![job.step] = Staged]
  /\ aside' = [aside EXCEPT ![job.step] = None]
  /\ pc' = "drop"
  /\ UNCHANGED <<at, saves, crashes, job, moved, victims, backups, json, link>>

MovedCopy == {[step |-> job.step, gen |-> moved.gen]}

\* ... or, when that rename fails, put the old one back and raise; the
\* exception ends the run.
SwapFails ==
  /\ pc = "swap"
  /\ dirs' = [dirs EXCEPT ![job.step] = moved]
  /\ backups' = backups \ MovedCopy
  /\ aside' = [aside EXCEPT ![job.step] = None]
  /\ moved' = None /\ job' = NoJob /\ pc' = "down"
  /\ UNCHANGED <<at, saves, crashes, victims, json, link>>

\* ... and last remove the old copy, ignoring errors.
DropBackup ==
  /\ pc = "drop"
  /\ \/ backups' = backups \ MovedCopy
     \/ UNCHANGED backups
  /\ moved' = None /\ pc' = "json"
  /\ UNCHANGED <<at, saves, crashes, job, victims, aside, dirs, json, link>>

\* _update_pointer(): the JSON file first, then unlink and symlink, each of
\* which may fail and end the update.
WriteJson ==
  /\ pc = "json"
  /\ json' = [json EXCEPT ![PointerOf(job.kind)] = job.step]
  /\ pc' = "unlink"
  /\ UNCHANGED <<at, saves, crashes, job, moved, victims, aside, dirs, backups,
                 link>>

Unlink ==
  /\ pc = "unlink"
  /\ link' = [link EXCEPT ![PointerOf(job.kind)] = None]
  /\ pc' = "symlink"
  /\ UNCHANGED <<at, saves, crashes, job, moved, victims, aside, dirs, backups,
                 json>>

UnlinkFails ==
  /\ pc = "unlink" /\ link[PointerOf(job.kind)] # None
  /\ PointerDone
  /\ UNCHANGED <<at, saves, crashes, moved, victims, aside, disk>>

Symlink ==
  /\ pc = "symlink"
  /\ \/ link' = [link EXCEPT ![PointerOf(job.kind)] = job.step]
     \/ UNCHANGED link
  /\ PointerDone
  /\ UNCHANGED <<at, saves, crashes, moved, victims, aside, dirs, backups, json>>

\* _prune(): the directories to remove are fixed before the first removal.
StartPrune ==
  /\ pc = "prune"
  /\ victims' = Prunable
  /\ pc' = "delete"
  /\ UNCHANGED <<at, saves, crashes, job, moved, aside, disk>>

Lowest(n) == n \in victims /\ \A m \in victims : n <= m

\* shutil.rmtree() unlinks the files in directory order, then the directory.
RemoveFile(n, f) ==
  /\ pc = "delete" /\ Lowest(n)
  /\ Exists(n) /\ f \in dirs[n].files
  /\ dirs' = [dirs EXCEPT ![n].files = @ \ {f}]
  /\ UNCHANGED <<pc, at, saves, crashes, job, moved, victims, aside, backups,
                 json, link>>

RemoveDir(n) ==
  /\ pc = "delete" /\ Lowest(n)
  /\ Exists(n) /\ dirs[n].files = {}
  /\ dirs' = [dirs EXCEPT ![n] = None]
  /\ victims' = victims \ {n}
  /\ UNCHANGED <<pc, at, saves, crashes, job, moved, aside, backups, json, link>>

\* rmtree(ignore_errors=True) leaves what it could not remove.
RemoveFails(n) ==
  /\ pc = "delete" /\ Lowest(n)
  /\ victims' = victims \ {n}
  /\ UNCHANGED <<pc, at, saves, crashes, job, moved, aside, disk>>

EndPrune ==
  /\ pc = "delete" /\ victims = {}
  /\ pc' = "idle" /\ job' = NoJob
  /\ UNCHANGED <<at, saves, crashes, moved, victims, aside, disk>>

\* The process dies, or a file write raises and ends the run.
Crash ==
  /\ pc # "down" /\ crashes < MaxCrashes
  /\ crashes' = crashes + 1
  /\ pc' = "down" /\ job' = NoJob /\ moved' = None /\ victims' = {}
  /\ UNCHANGED <<at, saves, aside, disk>>

\* Mutant: a constructor that sweeps the *.old.* directories.
ResumeSweeping ==
  /\ pc = "down"
  /\ \E n \in Steps : n = Latest /\ Whole(n) /\ at' = n
  /\ pc' = "idle" /\ backups' = {}
  /\ UNCHANGED <<saves, crashes, job, moved, victims, aside, dirs, json, link>>

\* `lighttrain resume`: a new manager, then load(latest()).  The constructor
\* leaves the directory as it is; load() raises on an incomplete one.
Resume ==
  /\ pc = "down"
  /\ \E n \in Steps : n = Latest /\ Whole(n) /\ at' = n
  /\ pc' = "idle"
  /\ UNCHANGED <<saves, crashes, job, moved, victims, aside, disk>>

Next ==
  \/ Advance
  \/ \E kind \in Kinds : StartSave(kind)
  \/ \E f \in Parts : WritePart(f)
  \/ WriteManifest
  \/ CommitFresh \/ MoveAside \/ SwapIn \/ SwapFails \/ DropBackup
  \/ WriteJson \/ Unlink \/ UnlinkFails \/ Symlink
  \/ StartPrune
  \/ \E n \in Steps, f \in Files : RemoveFile(n, f)
  \/ \E n \in Steps : RemoveDir(n) \/ RemoveFails(n)
  \/ EndPrune
  \/ Crash \/ Resume

Spec == Init /\ [][Next]_vars

------------------------------------------------------------------------------
TypeOK ==
  /\ pc \in {"idle", "down", "stage", "commit", "swap", "drop", "json",
             "unlink", "symlink", "prune", "delete"}
  /\ at \in Steps /\ saves \in 0..MaxSaves /\ crashes \in 0..MaxCrashes
  /\ job \in [step : Steps, kind : Kinds, gen : 0..MaxSaves,
              files : SUBSET Files]
  /\ pc \notin {"idle", "down"} => job.gen \in Gens
  /\ moved \in Dir \cup {None}
  /\ dirs \in [Steps -> Dir \cup {None}]
  /\ backups \subseteq [step : Steps, gen : Gens]
  /\ json \in [Pointers -> Steps \cup {None}]
  /\ link \in [Pointers -> Steps \cup {None}]
  /\ victims \subseteq Steps
  /\ aside \in [Steps -> Gens \cup {None}]

\* The generation of step n that is on disk in one complete copy, be it under
\* its own name or, after an interrupted overwrite, under its *.old.* name.
Recoverable(n) ==
  IF aside[n] # None THEN aside[n]
  ELSE IF Whole(n) THEN dirs[n].gen ELSE None

Held == {n \in Steps : Recoverable(n) # None}

\* A step whose directory vanished in an interrupted overwrite (manager.py:95
\* to 97) still has its complete copy among the *.old.* directories.
VanishedStepHasBackup ==
  \A n \in Steps :
    aside[n] # None =>
      /\ ~Exists(n)
      /\ [step |-> n, gen |-> aside[n]] \in backups

\* Whatever was interrupted, and however often, the step a pointer resolves to
\* has a complete copy on disk: retention never removes it, no update of the
\* pointer names a step before it is committed.
PointerTargetKept ==
  \A k \in Pointers : Named(k) # None => Recoverable(Named(k)) # None

\* latest() answers from the directory listing alone, yet a directory that a
\* dead _prune left half removed is never mistaken for the newest checkpoint:
\* a resume starts from the newest complete state, as long as no overwrite was
\* cut between its two renames.
LatestIsNewest ==
  (\A n \in Steps : aside[n] = None) =>
    Latest = IF Held = {} THEN None ELSE Newest(Held)

\* The manager keeps the promises of CheckpointStore: a save lands whole, an
\* older generation never replaces a newer one, and neither the newest step nor
\* the target of a pointer is ever forgotten.
Store == INSTANCE CheckpointStore
  WITH store <- [n \in Steps |-> Recoverable(n)],
       pointer <- [k \in Pointers |-> Named(k)]

ImplementsStore == Store!Spec
==============================================================================
