# LightTrain in TLA+

LightTrain is a single-process training framework: a recipe is resolved into a
trainer, a data module, an update rule and a set of callbacks, and one training
thread drives them until a target step, while loader workers prefetch batches,
a prep graph prepares and caches data before the run, artifacts computed from a
model are stored beside the data, a lineage database records what came from
what, and checkpoints make a killed run resumable.  This directory specifies the
parts of it whose
correctness depends on the order of things: what survives a death of the
process, what a retry may change, who is listened to, which batch comes next,
which cached directory may be trusted.

Every definition is translated from the Python source; `PROJECT.json` names for
each definition ("map") the lines it stands for.  Paths below are relative to
`src/lighttrain/` unless they begin with `docs/`.

Contents

1. Inventory: the parts of the system
2. How the parts interact, and what is hard about it
3. The modules and their correspondence to the code
4. The runs: what each one checks, its bounds, the fairness assumed
5. The proofs
6. Findings and observations
7. What is not modelled, and why
8. Plan

To run: `tlc -workers 2 -config CheckpointManager.cfg MCCheckpointManager.tla`
(and so on, see section 4), `tlapm CheckpointManager_proofs.tla`.

## 1. Inventory

"Modelled" means that every operation that changes the component's state is an
action of the named module, "partly" that some are, with the rest named in
section 7.

### The training run

| component | state it keeps | operations | what makes it correct | status |
|---|---|---|---|---|
| **Checkpoint manager** `engine/checkpoint/manager.py` | `step_<n>/` directories, staging and `.old.*` directories, `last`/`best` as a JSON file and a symlink | `save`, `_commit_dir`, `_update_pointer`, `_prune`, `list_steps`, `latest`, `load` | a save lands whole or not at all; pointers resolve; the newest checkpoint is never forgotten; resume starts from it | modelled: `CheckpointManager`, promise in `CheckpointStore` |
| **Training loop** `trainers/_primitives.py`, `trainers/base.py` | `ctx.step/epoch/batch_in_epoch`, `_stop_requested`, `ctx.extras` | `run_train_loop`, `train_step`, `_maybe_eval/_save/_save_best`, `_final_save`, `load_checkpoint` | every batch used once across resumes; the end is saved; a stop is honoured; the run ends | partly: `TrainLoop` |
| **Update rule** `builtin_plugins/engine/update_rules/standard.py`, `engine/update_rules/_primitives.py` | micro step, retry count, gradients, optimizer | `step` with forward, `on_loss_computed`, retry, skip, `apply_update` | rejected batches are never learned from; weights move by whole groups; a replay sees the weights the step began with | modelled: `UpdateRule`, promise in `TrainStep` |
| **Frozen steps** `builtin_plugins/callbacks/builtins/frozen_step.py`, `observability/diagnostics/frozen_step.py` | the last snapshot, bundles on disk | `snapshot`, `restore_snapshot`, `commit`, replay | a replay sees the weights its step began with | partly: `UpdateRule` |
| **Event bus** `callbacks/base.py` | failure counts, quarantine, error sink | `dispatch` | failures isolated exactly, strongest signal wins, critical failures get through | modelled: `EventBus` |
| **Isolation sink** `observability/diagnostics/callback_isolation.py` | `callback_failures.jsonl`, previous sink | `on_train_start`, `on_error` | no callback is silenced without a trace | partly: `EventBus` |
| **Control callbacks** `early_stop.py`, `best_ckpt.py`, `nan_skip.py`, `realtime_control/file_signals.py` | best values, bad epochs, save flag, control files | hooks on step, loss, evaluation | the best checkpoint is saved and moves only on improvement; stop files stop | partly: `TrainLoop` |
| **Data position and samplers** `builtin_plugins/data/core/`, `data/samplers/stateful_resumable.py` | sampler epoch and offset, the live iterator, prefetched batches | `train_loader`, `__iter__`, `seek`, `state_dict` | a resumed run sees the batches of an uninterrupted one | partly: `DataPosition` |
| **Dynamic artifact producer** `builtin_plugins/data/artifacts/dynamic_producer.py` | bounded queue, worker thread, stop flag, counters | hooks that submit, `_loop`, `_produce_one`, shutdown | each submission is in one place and counted once; the worker outlives failures and ends with the fit | modelled: `DynamicArtifact` |
| **Rollout buffers, RL trainers** `builtin_plugins/rl/`, `trainers/ppo.py`, `grpo.py` | buffer, advantages, reference policy, value head | rollout, advantages, inner epochs, update, save, resume | samples are of the policy that is updated, with their own advantages, against the reference of this fit | modelled: `RLTrainer` |
| **Preference and reward trainers** | as the loop | as the loop; own losses | as the loop | not modelled |
| **Other update rules** `sam.py`, `mezo.py` | perturbed weights, gradients | two-pass steps | the perturbation is undone before anybody learns; updates use what was measured there | modelled: `TwoPassRule` |
| **Biologically motivated rules** `dfa/`, `pcn/`, `forward_forward/` | tensors | one pass per batch | numeric | not modelled |
| **Layer offload** `builtin_plugins/layer_offload/` | layers on GPU/CPU/NVMe, prefetch queue | prefetch, evict, write back | a layer is never used stale | not modelled |
| **Distributed strategies** `distributed/strategies/` | per-rank state | collectives around a step | ranks take the same branch | not modelled |

### Data preparation

| component | state it keeps | operations | what makes it correct | status |
|---|---|---|---|---|
| **Prep graph runner** `data/prepgraph/runner.py`, `_io.py`, `_fp.py`, `dag.py`, `node.py` | `<store>/<kind>/<name>/<fp>` directories with manifests, `<store>/tmp/<fp>`, per-run jobs and results | plan, layers on a thread pool, `staging_dir`, `commit`, rehydration, `cleanup_orphans` | a manifest means a whole and fitting output; a partly cached run equals a fresh one | partly: `PrepRunner` |
| **Artifact stores, offline producer** `data/artifacts/store.py`, `producer.py`, `joined_dataset.py` | shards, tensors' files or rows, index, complete mark, header | `put`, flush, `finalize`, resume, `open_artifact_store`, join and reload | nothing held is lost or replaced; complete means all; who asks for a revision is served it | modelled: `ArtifactStore`, promise in `ArtifactPromise` |
| **Row caches, memmaps** `data/cache/` | binary shards | write once, read | layout | not modelled |
| **Packing, mixing, pruning** | none | pure functions on rows | all rows kept, bounds respected | not modelled |
| **Processors, collators** | none | formatting into tensors | layout | not modelled |

### Records and tools

| component | state it keeps | operations | what makes it correct | status |
|---|---|---|---|---|
| **Lineage store, retention** `observability/lineage/`, `cli/commands/lineage.py` | sqlite nodes and edges, artifact files | upsert, edges, tag, pin, invalidate, `gc_artifacts`, `prune_orphans` | grace and pins are respected whoever else writes; edges join rows; files have rows | partly: `Lineage` |
| **Lineage migration** | schema version | one-way rewrite | idempotent | not modelled |
| **Lineage recorder** | none of its own | writes to the store | as the store | partly: `Lineage` |
| **Crash bundle, NaN repro, OOM report** | files | one-shot writers | content | not modelled |
| **Invariant callbacks** | none | tensor checks, raise | reach the bus as critical callbacks (`EventBus`) | not modelled |
| **Sweep** `lab/sweep.py` | trials, results, scheduler | propose, run, prune | a failing trial does not end the sweep | not modelled |
| **Fork, compare, estimate, report** `lab/` | none | read finished runs | content | not modelled |
| **Resume verification** `lab/resume_verify.py` | none | trains twice and compares | its claim is `EveryBatchOnce` and `StreamExact` here | not modelled |
| **Configuration, registry** | tables | resolve names | no behaviour over time | not modelled |
| **Command line, runtime setup** `cli/` | none | choice of the checkpoint to resume from | resume takes the newest | partly: `CheckpointManager.Resume` |
| **Models, adapters; losses, judges; optimizers, schedulers; evaluation, metrics; utilities** | tensors | numeric | numeric | not modelled |

## 2. How the parts interact

```
 recipe --> prep graph runner --> cached rows --> data module / sampler
                                                        | next(iterator)
   control files      callbacks <--- event bus <--- training loop ---> checkpoint manager
        |                 |   (signals)                 | train_step        (save, load)
        +-----------------+                        update rule <--> frozen-step writer
```

* The loop calls the update rule, and both dispatch events on one bus. A
  callback answers with a signal (`CONTINUE < SKIP_STEP < RETRY_STEP <
  STOP_TRAINING`), but only some dispatchers read the answer: `on_loss_computed`
  (update rule) and `on_train_batch_end` (loop). The update rule tells the loop
  through `ctx.extras["loss_signal"]`, best_ckpt tells the trainer through its
  own `should_save` flag, file_signals asks for an evaluation through
  `ctx.extras["force_eval"]`: shared slots that outlive the step.
* A checkpoint is assembled by the trainer from the model, the optimizer, the
  sampler and `ctx`, and written by the manager. On resume the manager answers
  which one is newest, and the trainer seeks the data module by its own
  counters, over whatever state the sampler has restored.
* The loader's workers draw indices from the sampler ahead of the loop, so the
  sampler's state and the trainer's counters are two answers to "how far".
* The prep graph's runner trusts the disk: a directory that has a manifest under
  the node's fingerprint is not computed again. An artifact store is trusted in
  the same way by its index and its complete mark, and by the header that says
  which revision of which model it is of.
* The dynamic producer puts a worker thread beside the training thread, joined
  to it by a bounded queue, a stop flag and a poison pill.
* The recorder callback, the producers and the command line are several
  processes on one lineage database. Each statement commits on its own, so a
  collection interleaves with all of them between its statements.
* PPO and GRPO have a loop of their own, which shares the update rule's protocol
  and the bus with the training loop, and neither its stop flag nor its saves.

What is hard: deaths of the process between any two system calls (checkpoints,
prep cache); retries and skips in the middle of an accumulation group; state
kept in slots that are read steps later; answers that arrive where nobody reads
them; prefetch that runs ahead of the state that is saved; the thread pool of
the prep graph; failures of observers that must not take down what they observe; a
queue that is full;
collections that work off an old list while others write; weights that are
moved and have to be put back; experience that outlives the policy it is of.
`PROJECT.json` lists these at their lines ("hazards"), with the properties that
would catch them going wrong, or the reason why no property does.

## 3. The modules

```
CheckpointStore <== CheckpointManager <-- MCCheckpointManager, CheckpointManager_proofs
TrainStep       <== UpdateRule        <-- MCUpdateRule, UpdateRule_proofs
      ^
      |  (its steps)
TrainLoop  <-- MCTrainLoop, TrainLoop_proofs
ArtifactPromise <== ArtifactStore     <-- MCArtifactStore, Artifacts_proofs
DynamicArtifact <-- MCDynamicArtifact, Artifacts_proofs
PrepRunner      <-- MCPrepRunner, Data_proofs
DataPosition    <-- MCDataPosition, Data_proofs
Lineage         <-- MCLineage, Lineage_proofs
TwoPassRule     <-- MCTwoPassRule, EventBus_proofs
EventBus        <-- MCEventBus, EventBus_proofs
RLTrainer       <-- MCRLTrainer, RLTrainer_proofs
```

Three modules hold the proofs of two components each: `EventBus_proofs`,
`Artifacts_proofs` and `Data_proofs` extend both. The two share no state and are
not composed; to keep their names apart, those of `TwoPassRule`,
`DynamicArtifact` and `DataPosition` carry a prefix (`TwoPassSpec`, `DynamicNext`,
`PositionInit`, ...).

`A <== B`: B implements A, by INSTANCE with a refinement mapping. `TrainLoop`
instantiates `TrainStep` and takes its gradient steps from there, which is what
`UpdateRule` is shown to implement; and it saves in one step, because
`CheckpointManager` is shown to implement `CheckpointStore`, in which a save
lands whole and the newest one is never forgotten.

Definitions commented "Mutant" are plausible mistakes in the code they stand
beside. They are in no next-state relation; substituting one for the
definition it imitates must break the property it is listed with in
`PROJECT.json`.

### CheckpointStore

The promise: a map from steps to the generation (number of the `save()` call)
recoverable for them, and two pointers. `Commit` never replaces a newer
generation by an older one, `Point` names only what is held, `Forget` drops a
step only while a newer one is held and never one that a pointer names. There
is no crash in it: crashes are to be invisible at this level.

### CheckpointManager

One action per system call of `save()`, with a `Crash` between any two.

| variable | code |
|---|---|
| `dirs[n]` | `step_<n>/`: the files in it and the generation that wrote them |
| `backups` | complete directories renamed to `step_<n>.old.<hex>` |
| `job`, `moved` | the staging directory of the save in progress; the directory `_commit_dir` has renamed aside |
| `json`, `link` | `<pointer>.json` and the `<pointer>` symlink |
| `victims` | the slice `steps[:excess]` of `_prune`, fixed before the first removal |
| `at`, `pc`, `saves`, `crashes` | `ctx.step`; where `save()` stands; bounds |
| `aside` (history) | the generation of a step whose only copy is a backup |

`StartSave` / `WritePart` / `WriteManifest` are the staging directory with its
manifest last. `CommitFresh`, or `MoveAside`, `SwapIn` | `SwapFails`,
`DropBackup` are `_commit_dir` with the failure path of its second rename.
`WriteJson`, `Unlink` | `UnlinkFails`, `Symlink` (which may fail) are
`_update_pointer`. `StartPrune`, `RemoveFile`, `RemoveDir` | `RemoveFails`,
`EndPrune` are retention with `rmtree(ignore_errors=True)`, file by file.
`Resume` is `lighttrain resume`: a new manager, `latest()`, `load()`, which
refuses an incomplete directory. The readers `Listed`, `ReadPointer` and
`Latest` follow `list_steps`, `_read_pointer` and `latest`, with their
differences: a directory is listed as soon as it has a manifest, a JSON target
has to exist and a symlink target does not.

Abstracted: the content of component files is the generation that wrote them;
one component file stands for all; a crash is the death of the process, so
completed system calls survive it (no torn writes below the file system).

### TrainStep and UpdateRule

`TrainStep` is what the rest of the system believes about a gradient step: a
batch that was never used before waits for its group, completes the group, or
is dropped together with what is pending.

`UpdateRule` is `StandardUpdateRule.step` with the frozen-step callback. The
weights are the *set of batches they have learned from*, and so is every copy
of them; this is what tells a restored snapshot from the present.

| variable | code |
|---|---|
| `applied`, `pending` | weights; accumulated gradients |
| `micro` | `micro_state.micro_step` |
| `retries`, `sig` | `retry_count`, `signal` in `step()` |
| `signal` | `ctx.extras["loss_signal"]` |
| `snap` | `FrozenStepWriter._snapshot` |
| `dropped` (history) | batches given up on a verdict |
| `entry` (history) | of every step, the weights it began with and how its snapshot ended |
| `lost` (history) | batches that a restored snapshot has taken out of the weights again |

`Begin` is `_run_step`'s reset of the slot and `on_step_begin`, with the three
`Outcomes` of a snapshot: taken, taken without the model (which could not be
copied), or raised, which the callback logs and which leaves the writer with the
snapshot it had. `Retry` is a pass through the retry loop, with the restore of
whatever snapshot there is, `Verdict(s)` its end, where a `RETRY_STEP` without
budget degrades to a skip, and skip and stop zero the gradients and the micro
step. `Backward` is `apply_update`. `StepEnd` is `on_step_end`.
`NextStep` is the loop reading the slot. `Raise` is any exception or a
critical callback, at any place, those of the loop before and after the step
included. The bundles that `commit()` writes are left out. What callbacks answer is
free, so nan_skip and every other callback on `on_loss_computed` is covered.

### TrainLoop

`run_train_loop` with the periodic hooks and the three callbacks that steer it.
A batch is named by its place in the stream (`epoch * PerEpoch + offset`).

| variable | code |
|---|---|
| `step`, `epoch`, `batch` | `ctx.step`, `ctx.epoch`, `ctx.batch_in_epoch` |
| `pos` | how far the iterator is; a resume has to put it at `batch` |
| `stop` | `_stop_requested` |
| `ckpts`, `bestFile` | checkpoints on disk; what `best` names |
| `monitor`, `best`, `flag` | `BestCheckpointCallback.monitor`, `.best`, `.should_save` |
| `lowered` (history) | the value whose flag an evaluation took down before it was read |
| `esBest`, `bad` | `EarlyStopCallback.best`, `.bad_epochs` |
| `files`, `forced` | `<run_dir>/control/*`; `ctx.extras["force_eval"]` |
| `asked` (history) | who has answered `STOP_TRAINING` in this process |

`Fetch` is the head of the loop with the epoch change inside `next()`;
`Learned`, `StoppedOnLoss` are `train_step` (an action of `TrainStep`) with
`on_step_end`; `AfterStep` is `on_train_batch_end` and the step counter; `Eval`,
`NoEval`, `MaybeSave`, `MaybeSaveBest` the hooks in the order of the code;
`Finish` is `_final_save`. `Crash` is a kill or an exception; `Resume` and
`Rerun` are `load_checkpoint` in a new process, in which all callbacks start
afresh.

### EventBus

`dispatch()` step by step, one callback at a time, every callback free to
return any signal, to fail, or to have no hook for the event. The last callback
is the isolation sink, which hooks itself into the bus in `on_train_start`. That is
the first event of a fresh run; in a resumed one (`resumed`) the two events of
`load_checkpoint` go before it (`TrainStart`). What the sink is told of is `Logged`
or, without a run directory or when the write fails, `Dropped`.
`outcomes` (history) is the sequence of successes and failures of each
callback, against which the counts and the quarantine are judged.

### DataPosition

The trainer's counters, the sampler, the live iterator (`walk`), the batches
drawn and not yet handed over (`queue`) and the newest checkpoint. The order of
an epoch is a function of seed and epoch, so an index is its epoch and its
offset. `Open` is `iter(loader)` with the one-shot skip of the sequential and
shuffle samplers or the counting state of the resumable one; `DrawFull`,
`DrawLast` are the batch sampler, which may run `ahead` batches before the loop;
`Take` and `NewEpoch` are the two outcomes of `next()`; `CrashResume` is
`load_checkpoint`: the sampler's own state first, then the seek. `Reference(k)`
is the k-th batch of an uninterrupted run. The DataLoader is external, modelled
from how the code constructs and iterates it.

### PrepRunner

A recipe is a graph with a configuration for each node; several recipes share
one store. Rows are terms that say what they were made from, so stale, partial
and missing inputs are all told apart.

| variable | code |
|---|---|
| `final[<<n, fp>>]` | `<store_root>/<kind>/<name>/<fp>`: manifest and rows |
| `tmp[fp]` | `<store_root>/tmp/<fp>`, shared by all nodes of that fingerprint |
| `job[n]`, `results[n]` | how far a node of this run is; the rows its descendants get |
| `g` | the recipe at hand |
| `at` | the directory `cleanup_orphans` is removing |
| `torn` (history) | a cleanup died inside a directory |

`Start` is `run()` up to the first layer: hits and misses (`Hit`), the nodes to
execute (`MustExecute` is `_compute_runtime_sets`), what is read back
(`Rehydrated`). `Stage`, `Write`, `Seal` are a worker on a node; `CheckStaging`,
`Clear` and `Replace` are `commit()`, whose removal of what stands in the way goes
entry by entry. Two nodes of one fingerprint share a staging directory, and one
may empty, seal or rename it under the other's hands: `Staging` is what a worker
then finds, `Raise` the exceptions that follow, `AbortRun` the end of the run when
the rest of the layer is over. `StartClean`, `Remove`, `EndClean` are `prep-clean`.
`Crash` kills a run or a cleanup anywhere; a node that raises for a reason of its own
ends its run in the same way.

A fingerprint does not always say enough, and the properties name where: `Lone`
nodes share theirs with no other node of the recipe, `Sound` are the fingerprints
of nodes which, with all nodes they are computed from, are lone, read from no memmap
and differ from no other node in the order of their inputs alone. What the other nodes
do is in the model all the same, and must not reach the sound ones.

### ArtifactPromise and ArtifactStore

`ArtifactPromise` is what a reader of a store may rely on: samples are added and
never replaced, the complete mark is set when all are there, and only a store
whose index is written in place may turn unreadable (`Tear`, `Mend`).

`ArtifactStore` is one directory through several production runs, in each of the
three backends. A value is the revision of the model that computed it.

| variable | code |
|---|---|
| `shards`, `bins[t]`, `rows` | `shard_*.safetensors`; `<tensor>.bin`; `rows.parquet` |
| `index` | `manifest.json`: `Torn` while it is being written in place |
| `complete` | the header in `MANIFEST_COMPLETE.json`, and whether it describes fields |
| `known`, `pending`, `header`, `finalized` | `_index`, `_pending` or `_rows`, `header`, `_finalized` of the run's store object |
| `left`, `cur` | samples `produce()` has still to come to; the one inside `put()` |
| `view` | what a `JoinedDataset` has open |
| `used`, `unclean` (history) | revisions of the runs so far; a memmap run died with rows and no index |

`Open` is the constructors and `_resolve_store`, with the header's revision named
by `header_overrides` or not at all, as in the default production; `Accepts`
passes over the comparison when either side names none (`base.py:77`). `Skip`,
`PutRefused`, `PutShard`,
`PutRow` with `AppendRow`, `PutParquet` are a turn of `produce()`; `FlushShard`
and `Reindex` are the two halves of `_flush_shard`; `Finalize`, `WriteRows`,
`Truncate`, `WriteIndex`, `WriteManifest` are `finalize()`; `Die` is a death
anywhere or an exception of `put()`; `OpenView` is `open_artifact_store` by the
dataset, at first or on a reload.

### DynamicArtifact

The training thread and the worker of each fit, on one callback object.

| variable | code |
|---|---|
| `queue`, `stop`, `dropped`, `produced`, `lastStep` | `_q`, `_stop`, `_dropped`, `_produced`, `_last_step` |
| `training`, `worker[f]`, `item[f]` | where the two threads stand; what a worker has in hand |
| `stored[d]` | the step whose batch a version's directory holds |
| `taken`, `lost`, `made`, `failed` (history) | steps by what became of them |

`OnStepEnd` is the trigger with `put_nowait`; `OnTrainEnd`, `PutPoison`, `Join` the
three steps of the shutdown (`join` may time out with the worker still at work);
`TestStop`, `GetTimeout`, `Get`, `Produce`, `ProduceFails` a turn of `_loop`.

### Lineage

The rows of one kind and name, their edges and files. Every SQL statement is a
step; the recorder (`Save`, `Upsert`, `ProducedBy`, `RestartRun`), the judge of an
evaluation (`Evaluate`), the checkpoint manager's own retention (`Forget`), the
commands (`Tag`, `Pin`, `Invalidate`), the collection (`GcStart` to `GcEnd`) and
the pruning (`PruneStart`, `PruneNext`) interleave. `nodes[i]` is the row with id
`i`: version, `ts`, tags, pin and `deprecated`, the day of the mark. `gc.snap` is
the list of rows that `gc_artifacts` read at its start and decides from to its end.
The grace period and the clock are in days. `GcRemoveFiles` is
`rmtree(ignore_errors=True)`: it may remove the files of a version in `Directories`
or leave them, and never removes those whose `payload_path` is a file, as the
manifest of a checkpoint is. `strays` is a history of the versions on disk that may
have no row: a run died before it recorded them, they were saved again under a row
that a collection had on its list, or `rmtree` left them.

### RLTrainer

`PPOTrainer.fit` and `GRPOTrainer.fit` down to `RLUpdateRule.step`. Weights are
named by the update that made them, and every copy, log-probability and
value estimate carries the name of the weights it comes from.

| variable | code |
|---|---|
| `lora` | `lora_base_as_ref` |
| `ref`, `lpref` | `_ref_policy`: the weights it answers for; `ctx.extras["log_probs_ref"]` |
| `head` | the value head, which is made in the first minibatch that needs it |
| `buffer`, `adv` | `_buffer._episodes`; `advantages_seq` and `returns_seq` |
| `pass`, `left`, `batch` | inner epoch, indices it has still to yield, the minibatch |
| `over` | whether the minibatch exceeded `target_kl` |
| `ckpt`, `step`, `cursor` | newest checkpoint, `ctx.step`, the prompt iterator |
| `began`, `seen`, `rolls` (history) | weights at the start of the fit; uses of a row; name of the last rollout |

`Frozen` is `freeze_as_ref`: a copy of the live model or, with `lora_base_as_ref`, the
`Base` weights inside it, which no update moves. `Fit`, `Fetch`, `Rollout`,
`Advantages`, `Score`, `Verdict`, `NextPass`, `LastPass`,
`EndStep`, `Save`, `End` follow the code in its order; `Raise` may come anywhere in
a fit and leaves the object as it is; `CrashResume` is a new process.

### TwoPassRule

`SAMUpdateRule.step` and `MeZOUpdateRule.step`. `offset[b]` is by how much the
weights are displaced along the direction of step `b`; `grads` and `losses`
carry the batch and the displacement they were measured at; `left` (history) is
the displacement that steps that raised have left behind.

## 4. The runs

`CHECK_DEADLOCK FALSE` stands in every configuration: a run of the program
really ends, and the bounds on saves, steps, events or crashes stop the rest.

| run | configuration | distinct states | checks |
|---|---|---|---|
| `checkpoint` | `CheckpointManager.cfg` | 120 383 | VanishedStepHasBackup, PointerTargetKept, LatestIsNewest, ImplementsStore |
| `update_rule` | `UpdateRule.cfg` | 126 548 | RejectedNeverLearned, StopIsOfThisStep, RetrySeesPreStepState, ImplementsTrainStep, StepTerminates |
| `train_loop` | `TrainLoop.cfg` | 1 272 648 | EndIsSaved, BestIsSaved, EveryBatchOnce, StopHonoured, BestMovesOnImprovement, RunEnds |
| `train_loop_EveryStop` | `TrainLoop_EveryStop.cfg` | stops | EveryStopHonoured **violated** |
| `event_bus` | `EventBus.cfg` | 1 027 547 | QuarantineExact, StrongestWins, QuarantineIsLogged |
| `data_position` | `DataPosition.cfg` | 17 117 | StreamExact, NextReturns |
| `prep_runner` | `PrepRunner.cfg` | 466 656 | ManifestMeansWhole, RunMakesRecipe, CachedRowsStay, RunEnds |
| `artifact_store` | `ArtifactStore.cfg` | 322 186 | IndexPointsHome, AskedIsServed, ImplementsPromise |
| `dynamic_artifact` | `DynamicArtifact.cfg` | 49 466 | Accounted, WorkersServeAndEnd |
| `lineage` | `Lineage.cfg` | 4 516 248 | NoDanglingEdges, NothingLeaks, GraceGiven, PinnedSurvives |
| `rl_trainer` | `RLTrainer.cfg` | 3 050 502 | OnPolicy, OwnAdvantage, KLOfThisFit |
| `two_pass` | `TwoPassRule.cfg` | 13 855 | LeavesAsFound, UpdateUsesFarSide |

The modules' type invariants are conjuncts of one of these invariants each
(`RejectedNeverLearned`, `BestIsSaved`, `QuarantineIsLogged`, `StreamExact`,
`RunMakesRecipe`, `IndexPointsHome`, `Accounted`, `NothingLeaks`, `OnPolicy`); those
of `CheckpointManager` and `TwoPassRule` are proved, and the others with their
invariant where section 5 has a theorem about it.

### What they show

**checkpoint.** Over every interleaving of step saves, best saves, failing
renames, failing unlinks and symlinks, incomplete removals, two deaths and two
resumes: the step that a pointer resolves to has a complete copy
(`PointerTargetKept`); a step whose directory vanished between the two renames
of an overwrite has its copy under the `.old.*` name (`VanishedStepHasBackup`);
the directory listing, which believes a manifest, never mistakes a half-removed
directory for the newest checkpoint (`LatestIsNewest`); and the whole implements
`CheckpointStore`. `LatestIsNewest` is where the order of directory removals
matters: retention starts at the oldest step, so what it leaves half removed is
older than what it keeps.

**update_rule.** Any sequence of verdicts over five steps in groups of two: a
batch that was rejected is in neither weights nor pending gradients, a skip in
the second place of a group takes the first batch with it and starts the next
group from zero, the slot that the loop reads is of this step, and a callback that
always answers `RETRY_STEP` cannot keep the step going. Snapshots may fail in both
ways: a replay sees the weights its step began with, or, when this step's snapshot and
all since have raised, those of the last step that has one; and even then no
batch is used twice and the weights learn by whole groups. The mutant that takes a
snapshot in every other step breaks `RetrySeesPreStepState`.

**train_loop.** The end of the run is in a checkpoint whether or not the last
step was saved on schedule; best saves follow improvements and nothing else,
whether best_ckpt monitors the training loss, its default, or the validation loss,
and an improvement is lost only where an evaluation of its own step takes the flag
down; a stop read by the loop precedes the next batch; the run ends, also when
every batch is turned down. Through two deaths
anywhere, a batch of the stream is used at most once, and each death costs at
most the batches that were pending in the checkpoint it resumes from.

**event_bus.** The quarantine is exactly "the last `max_consecutive_failures`
invocations all raised", a critical callback is never quarantined, and the
strongest signal is answered although others failed. Missing from the log, of the
failures that quarantined a callback, are those the sink could not write and at
most one for each event up to `on_train_start`: one in a fresh run, three in a
resumed one.

**data_position.** For every sampler, prefetch depth and kind of epoch end, the
batch handed to the loop is the one an uninterrupted run would have handed out
at that place. The configurations leave out the one combination that the docs
do not promise (`docs/concepts/data-prepgraph.md:71`): a module without `seek()`
under a prefetching loader.

**prep_runner.** Four recipes that share parts of one cache, two workers, a
cleanup and a death anywhere. In one recipe two nodes have one fingerprint, their
inputs in two orders and a staging directory in common, and the run may end in an
exception. As far as fingerprints say enough (`Sound`), a manifest means rows that
are whole and fit every recipe that would find them, and a run over a partly
filled cache gives every node that executes the inputs that a fresh run would.
Without a premise, every node with a staging directory of its own ends as a hit, rows
in use are neither recomputed nor removed, and a run ends.

**artifact_store.** Three production runs over one directory, each of which may
die between any two writes and use another revision: the index names only what
is where it says; the complete mark stands for all samples, except when a
memmap or parquet store is caught while its index is rewritten; a dataset that
asked for a revision, and was let in by a header that names one, is served what
that revision computed. The exceptions (`unclean`, `Torn`, several revisions in one
directory, a header without a revision) are in the properties, and are what the code
does (section 6).

**dynamic_artifact.** Each submission is waiting, in work, produced, failed or
dropped, and the counters agree; a directory holds the batch of a production that
ended, its own unless the version is fixed; productions that fail do not keep the
worker of the first fit from the queue; each worker ends with its fit although
the pill may find the queue full.

**lineage.** Every interleaving of a recording run that dies and starts again,
two days, commands, collections and pruning: no edge dangles; files have a row but
for the `strays`; a collection deletes a row only if it is the one it read, with a mark
of an earlier day, and is marked still, and neither one that was pinned when it began
nor one inserted since. That ids are never given out twice is what keeps a row inserted
in the place of a listed one alive; the mutant reuses them.

**rl_trainer.** Two fits of PPO or GRPO with skipped minibatches, early ends by
KL, exceptions anywhere and a resume: minibatches are of the last rollout alone,
with the advantages computed for them over a baseline of the same weights; each
row is used once a pass; the KL term sees log-probabilities of this minibatch
under the weights this fit began with or, with `lora_base_as_ref`, under the base
weights, and only when the fit wants it.

**two_pass.** Six steps of SAM or MeZO in windows of two with skips and
exceptions anywhere, between the optimizer's step and the clearing of the
gradients too: no update and no end of a step finds the weights displaced
by anything but what a step that raised has left, and an update uses the batch of
this step measured at the far side and nothing measured elsewhere. Whether the
earlier batches of a window take part is left open by the property: the docstring
has it so and the code gives them up (section 6).

**The violation** is the disagreement of section 6 between what the code does and
what its own docs say.

### Bounds, and why they are enough

| run | bounds | reason |
|---|---|---|
| checkpoint | steps 0..2, `keep_last_n` 1, one component file, 4 saves, 2 crashes | three steps make an old, a new and a best step differ; four saves allow an overwrite, a retention and a save after each; after the second crash a state left by the first has been written over or relied upon |
| update_rule | 5 steps, groups of 2, 2 retries, three outcomes of a snapshot | two whole groups and one cut; a skip on either place; a retry that succeeds, and one that runs out; a snapshot several steps old is restored |
| train_loop | epochs of 2, target 4, groups of 2, checkpoints every 3, validation every 2, both monitors, poll every 2, patience 1, metric values {0, 1}, two crashes | the target is no multiple of the checkpoint interval, a checkpoint falls into the middle of a group, epochs end between checkpoints, a metric can improve once and fail twice, both control files exist, a run is resumed from a resumed run |
| train_loop_EveryStop | validation every step, one control file, no crash | the shortest way to both lost answers |
| event_bus | an ordinary callback, a critical one and the sink; 4 failures; 5 events | in a resumed run three of the four failures precede the log, and one more event than the limit lets a success come in between |
| data_position | 4 and 5 samples in batches of 2, `drop_last` or not, 0 to 2 batches ahead, 6 batches, 2 crashes | an epoch of two or three batches with a full, a short or no last one; two batches ahead reach past any epoch end; three epochs |
| prep_runner | four nodes 1→2, 1→3, (2,3)→4, with 2 and 4 materialised and 4 a memmap; two more recipes that change the end or the load, one in which 3 and 4 are twins with 1 and 2 in either order; 2 workers, 3 runs or cleanups, 1 crash | a plain ancestor of a hit and of a miss, two nodes in one layer, a directory that one recipe keeps and another orphans, a run after a run after a death |
| artifact_store | three samples in shards of two, two tensors, two revisions, three runs | a shard is flushed while another sample waits; a row may be half appended; a run that dies, one that resumes it, one over the sealed store |
| dynamic_artifact | queue of 2, every 2nd step, 8 steps, two fits | with one submission in work and two waiting the fourth is dropped; the second fit finds the first one's flag |
| lineage | two versions, one of them a directory, two rows ever inserted, one of three policies, two days, three commands | a version is recorded again after its row went; marked on one day and collected on the next; a collection, a command during it, and a second collection |
| rl_trainer | both reference modes, rollouts of up to four episodes into a buffer of 3, minibatches of 2, two passes, two steps, two fits, one crash | the buffer overflows, a last minibatch is smaller, a fit follows one that raised, with the other objective |
| two_pass | windows of 2, six steps | windows completed, skipped in either half, crossed by steps that raise, twice over |

### Fairness

* `UpdateRule`, `TrainLoop`: weak fairness of the thread's own actions. There is
  one training thread, nothing it calls here waits for anything, so it moves on
  as long as the process lives. That callbacks stop asking for retries, that
  users stop touching control files, and that somebody resumes a dead run is
  not assumed; `RunEnds` therefore allows a run that stays dead.
* `DataPosition`: weak fairness of the loop and the loader's workers together.
* `PrepRunner`: weak fairness of a run's steps; the pool's threads are only ever
  waiting for a layer, which waits for nothing but its nodes.
* `DynamicArtifact`: weak fairness of the two remaining steps of the shutdown, and
  of each worker: a `get` with a timeout returns, and a production, which is a
  loop over one batch, ends. That a fit ends is not assumed.
* `CheckpointManager`, `EventBus`, `ArtifactStore`, `Lineage`, `RLTrainer`,
  `TwoPassRule` and the three abstract modules state safety only, and have no fairness.

`StepTerminates`, `RunEnds` (twice), `NextReturns` and `WorkersServeAndEnd` are
checked under these. A crash
is never fair and never unfair: it may happen or not.

## 5. The proofs

The theorems hold for every value of the constants that satisfies the modules'
named assumptions (`ManagerAssumption`, `RuleAssumption`, `LoopAssumption`,
`LineageAssumption`, `TwoPassAssumption`, `BusAssumption`, `RLAssumption`,
`StoreAssumption`, `DynamicAssumption`, `GraphsAssumption`, `PositionAssumption`).
They ask that counts are naturals and sizes that divide or bound are not zero; that
`None` (and `Torn`, `Nothing`) is no value, place, directory or contents of a file; that a
dataset is finite (its index is written when all of it is known) and has a full
batch; and that recipes are acyclic, with the kind of a node part of what is
hashed. TLC evaluates them in the runs.

| theorem | module | says |
|---|---|---|
| `TypeCorrect` | `CheckpointManager_proofs` | `Spec => []TypeOK` |
| `PointersSafe` | | `Spec => []PointerTargetKept`: any number of crashes, steps, saves, any `keep_last_n` |
| `VanishedStepsSafe` | | `Spec => []VanishedStepHasBackup` |
| `LatestIsTheNewest` | | `Spec => []LatestIsNewest` |
| `ManagerImplementsStore` | | `Spec => ImplementsStore`: every system call of a save is a step of `CheckpointStore` or a stutter |
| `RuleImplementsTrainStep` | `UpdateRule_proofs` | `Spec => ImplementsTrainStep`: any answers, failing snapshots, exceptions |
| `RetriesSeePreStepState` | | `Spec => []RetrySeesPreStepState` |
| `RejectedStaysOut` | | `Spec => []RejectedNeverLearned` |
| `StopsAreOfThisStep` | | `Spec => []StopIsOfThisStep` |
| `EndSaved` | `TrainLoop_proofs` | `Spec => []EndIsSaved` |
| `StopsAreHonoured` | | `Spec => StopHonoured` |
| `BatchesUsedOnce` | | `Spec => []EveryBatchOnce`: groups of any size, any number of deaths |
| `PointerImproves` | | `Spec => BestMovesOnImprovement` |
| `BestOnDisk` | | `Spec => []BestIsSaved`: either monitor, any intervals |
| `GraceIsGiven` | `Lineage_proofs` | `Spec => GraceGiven`: any number of rows, days, processes' steps, any policy |
| `PinnedRowsSurvive` | | `Spec => PinnedSurvives` |
| `EdgesJoinRows` | | `Spec => []NoDanglingEdges` |
| `FilesAreKnown` | | `Spec => []NothingLeaks` |
| `QuarantineIsExact` | `EventBus_proofs` | `Spec => []QuarantineExact`: any limit, any callbacks and events |
| `StrongestSignalWins` | | `Spec => []StrongestWins` |
| `QuarantinesAreLogged` | | `Spec => []QuarantineIsLogged` |
| `TwoPassTyped` | | `TwoPassSpec => []TwoPassTypeOK` |
| `WeightsPutBack` | | `TwoPassSpec => []LeavesAsFound`: any window, any pattern of exceptions |
| `FarSideUsed` | | `TwoPassSpec => []UpdateUsesFarSide` |
| `LearnsOnPolicy` | `RLTrainer_proofs` | `Spec => []OnPolicy`: any sizes, any fits, exceptions and deaths |
| `AdvantagesAreOwn` | | `Spec => []OwnAdvantage` |
| `KLIsOfThisFit` | | `Spec => []KLOfThisFit` |
| `StoreIndexPointsHome` | `Artifacts_proofs` | `Spec => []IndexPointsHome`: any dataset, shard size, number of tensors, runs and deaths |
| `StoreServesWhatIsAsked` | | `Spec => []AskedIsServed` |
| `StoreKeepsPromise` | | `Spec => ImplementsPromise`: every step of a production, in each backend, is a step of `ArtifactPromise` or a stutter |
| `NothingUnaccounted` | | `DynamicSpec => []Accounted`: any size of the queue, any fits |
| `ManifestsAreWhole` | `Data_proofs` | `Spec => []ManifestMeansWhole`: any recipes, twins among them, workers, runs, cleanups and deaths |
| `RunsMakeRecipes` | | `Spec => []RunMakesRecipe` |
| `CachedRowsAreKept` | | `Spec => CachedRowsStay` |
| `PlaceIsKept` | | for data modules that are `Resumable`, `PositionSpec => []StreamExact`: any sizes, prefetch, epochs and deaths |

**The arguments.** None of the properties is inductive as it stands. Each module
has an `IInv`, with a lemma that it holds at the start and one that every step
keeps it (one named step per action, one lemma per kind of step, or one per part
of the invariant).

* *CheckpointManager.* `PointerTargetKept` needs to know what `save()` has
  already achieved when a pointer is written: the staging directory is complete
  when it is committed (`StagedInv`), the step is whole from the swap to the end
  of the pointer update (`CommittedInv`), the JSON file is ahead of the symlink
  and never behind (`PointerInv`: after a failed unlink or symlink the readers
  still find a held step), and no directory on the list of victims is the
  target of a pointer although that list was made earlier (`VictimsInv`).
  `VanishedStepHasBackup` needs `SwapInv`, that between the renames the name is
  free and the renamed copy is known, and `DropInv`, that a backup is removed
  only after the swap.
  The other two theorems rest on `StoreInv`. The abstract store asks that a
  commit replaces no newer generation: generations only grow, and while one is
  being staged and swapped in, everything on disk is older (`GenInv`). It asks
  that what is forgotten is not the newest: a save is at a step that no listed
  one exceeds (`AtInv`), so all that the retention pass after it removes is
  below a whole directory (`RetentionInv`). And a directory that is half
  removed, which the listing still shows, has something newer and complete
  above it (`PartialInv`), which is why `latest()` does not pick it.
* *UpdateRule.* A step of the rule maps to `Wait`, `Apply` or `Drop`, or to a
  stutter. `Fresh` says, by the place of the control, which batches have been
  used, so the batch of the step is a new one; `GroupFilled` says that the
  number of pending gradients is the micro step modulo the group, which is what
  makes the boundary in the code (`micro_step % accumulate`) that of the
  contract (a full group). The contract counts what a restored snapshot has taken
  back as used: `SnapshotLearned` says that a snapshot, however old, holds nothing the
  weights never learned, so a restore only moves batches to `lost` and is a
  stutter. `NextRemainder` is the arithmetic of `%` that the
  solver lacks. In `VerdictInv` all that was ever learned
  from is of earlier steps until the backward pass (`LearnedBefore`), and the
  slot the loop reads is empty until the verdict and then that verdict
  (`SlotInv`). `SnapshotIsLast` says of which step the writer's snapshot is, from
  which `ReplayInv` has what a replay starts with.
* *TrainLoop.* `PlaceInv` ties the counters to the place in the stream across
  epoch ends, `CkptInv` does the same for every checkpoint, `SavedInv` says that
  a checkpoint that is due is there with the weights of the moment and that
  none is ahead of the run (so the newest is the last), `StopInv` that whoever
  asked has set the flag. `BatchesUsedOnce` adds `OnceInv`: every batch
  before the place in the stream is used, pending or lost, no two of these, and
  the losses are bounded by the deaths so far; a checkpoint satisfies the same
  with one death more, which is the death that will resume from it
  (`DeathCosts`). `BestOnDisk` adds `BestInv`, that the pointer names the save
  with the best value of its process, and `ServedInv`, that a best value is on
  disk, or its flag is up, or an evaluation has lowered it under that very value;
  with the validation loss there is no second writer, and the last case is empty.
  `LatestIsLargest`, with `LargestExists`, gives `CHOOSE` its witness.
  (`LargestExists`, that a bounded set of numbers has a largest one, is proved in
  each of the four modules that need it.)
* *Lineage.* Neither action property follows from the step alone: a collection
  deletes by its own list, made days and commands ago. `RowInv` says of a row
  that its mark is not in the future;
  `GcInv` relates the list to the table: a row on the list that is still there
  is marked no earlier than the list says, the list is of
  rows that were there at its start and not pinned, and the row being swept was due.
  That it is the row that was read, and not another under its id, is `OneRowInv`.
  Each kind of step by
  another process (`SetKeepsRows`, `DeleteKeepsRows`, `NothingKeepsRows`,
  `UpsertKeeps`) leaves that relation standing (`GcStands`), and so does the
  collection's own progress (`GcGoesOn`). `CurrentIsOne` uses `LargestExists`.
  `FilesAreKnown` adds `LeakInv`: a version has one row and an id one version for
  ever (`OneRowInv`), and while a row is being swept its files are gone or
  among the `strays` (`SweepInv`), so that deleting the row leaves nothing unknown.
* *TwoPassRule.* `Displacement` says by the place of the control how far the
  weights are displaced along the direction of this step and that nothing but
  the leftovers is displaced along another; `Measured` what gradients and losses
  are at hand.
* *EventBus.* The code counts, the property speaks of the past: `CountInv` says
  that the count is the length of the run of failures the outcomes end with, and
  that whoever has reached the limit is in quarantine. `EarlyInv` tells when
  the sink is in place, and that before it is, each callback has failed at most once
  an event; from there `LogInv`: of a count, the log and what the sink dropped lack
  at most one failure for each event up to `on_train_start`.
* *RLTrainer.* `BufferInv`: the buffer is one rollout by one policy, which has
  not moved until the advantages are there. `HeadInv`, that a value head carries
  the name of the weights it is trained with, gives the baseline its policy, and
  `AdvantageInv` keeps it while the passes move the head. `RefInv` ties the
  reference to the weights this fit began with, `BatchInv` the minibatch to the
  indices it was drawn by; that no row is in it twice is a bijection from rows
  to episodes (`NoneTwice`).

* *ArtifactStore.* What a run holds in memory and what it finds on disk are two
  indexes, and the three backends write the second at different times. `Sharded`,
  `Parquet` and `Memmap` say how far the one is behind the other at each place;
  `Numbers` that the rows of a memmap or parquet index are 1 to the number of
  samples, each once, so that the next row appended is the next one free. That
  is where a memmap goes wrong after a death between its first row and its index:
  its files are then longer than the index says, and only `MemmapClean`, with
  nobody dead in that place, knows that they are not. `Progress` has every
  sample that was passed in the index or on the way there, so the mark of a
  complete store is set when it is one (`Sealed`). `Views` follows the datasets
  that opened the store, while later runs add to it or tear its index: for the
  refinement, `SameReads` and `HeldStays` say that no file that a reader's index
  names changes there.
* *DynamicArtifact.* A step submitted goes through four hands. `Apart` and
  `Together` say that these are disjoint and leave none out, `Carried` that no two
  workers of different fits hold one step, `NoTwin` that none is queued twice;
  the sizes follow from that, and `Filed` says whose batch a directory holds.
* *PrepRunner.* `Planned` ties the jobs of a run to the disk: what is done or need
  not execute is a hit, what has yet to execute is none, and the inputs of a
  running node are settled. `Staged` is what a worker has put into its staging
  directory, `InHand` that the rows a node will read are those of the recipe,
  whether computed or read back, and `Cleaning` that the directory under removal
  is nobody's. Fingerprints, values and layers are recursive functions. That
  their equations have a solution is shown without induction (`Computed`): of
  the prefixes of the nodes that have one take the longest, and add a node
  (`FpIs`, `ValueIs`, `LayerIs`). From there, equal fingerprints mean equal rows
  (`SameRows`: the first node of which this fails has inputs of which it holds),
  and a node's inputs are in lower layers (`LayersGrow`).
  No premise keeps twins apart: `Planned` and `Staged` speak of the staging directories
  of `Lone` nodes, which nobody else touches, `InHand` of the nodes whose fingerprint
  is `Sound` (`Sure`) and of those they read; that soundness goes down to the
  inputs is its definition by a `Closed` set. What twins do to one another then
  reaches neither.
* *DataPosition.* `PositionInv` ties four places together that move at different
  times: the trainer's counters (`Counters`), the batches handed over
  (`Following`), those drawn ahead and queued (`Ahead`), and the walk they were
  drawn from (`Position`); `Saved` says that what a checkpoint holds leads back to
  the same place. A place in the stream is a quotient and a remainder of the
  batches per epoch (`PlaceInStream`, `EpochEnds`, `WalkEnds`). `Resumable` names
  the data modules the property is about, those that seek or whose sampler counts
  under a loader that does not prefetch: a counting sampler is ahead of the loop by
  what is prefetched, and no checkpoint knows by how much. These are the
  configurations of `MCDataPosition`.

**Only model-checked.** Liveness (`StepTerminates`, the two `RunEnds`,
`NextReturns`, `WorkersServeAndEnd`), which is outside the prover's reach.
**Not claimed at all**, because it does not hold, and said in the properties
themselves: a best save whose flag an evaluation has lowered, a replay's weights
after a snapshot that raised, the rows of nodes whose fingerprint does not say enough
(`Sound`), a row for the files that `rmtree` leaves, a refusal by a header that names
no revision. `StreamExact` is claimed of data modules that are `Resumable`.

## 6. Findings and observations

Finding, with the run that exhibits it:

1. `builtin_plugins/engine/update_rules/standard.py:294`, `trainers/base.py:346`.
   `STOP_TRAINING` from `on_step_end` (stop file, already removed) and from
   `on_eval_end` (early_stop) is dropped (`train_loop_EveryStop`).

Observations made while modelling, with no run of their own.

Checkpoints, steps and the loop:

* `engine/checkpoint/manager.py:95`. `save()` says that a crash at any point
  leaves the previous `step_<n>/` intact (line 149). Between the two renames of
  an overwrite it is absent, and no reader looks at the `.old.*` copy.
  `VanishedStepHasBackup` says where it is.
* `observability/diagnostics/frozen_step.py:237`. A bundle is promised to be "the
  *exact* state at the entry of a training step" (line 3), "the most recent
  snapshot" (line 215). `commit()` writes the snapshot's batch and optimizer beside
  the live model, which by `on_step_end` has had this step's update. Bundles are
  not in the model: nothing in a run reads them.
* `observability/diagnostics/frozen_step.py:177`. After a failed snapshot the
  step "won't be restorable via RETRY_STEP" (callback, line 123); a retry restores
  an older step's weights, and forgets what was learned since.
  `RetrySeesPreStepState` says which.
* `engine/checkpoint/manager.py:87` says that `.old.*` copies are swept on the
  next construction; the constructor (line 117) sweeps nothing. That is as well,
  given the first observation.
* `manager.py:327`: a removal that fails or is cut leaves a directory that may
  still have its manifest. `load()` refuses it, `list_steps()` counts it.
* `manager.py:309`: when a crash has made JSON file and symlink differ, retention
  protects the symlink's target only; the JSON file may name a removed step
  until the next update.
* `best_ckpt.py:31`: the best value is in no checkpoint, so the first value after
  a resume moves the best pointer, also to a worse checkpoint.
* `best_ckpt.py:41` against `:13`: with a training metric, which is the default, an
  evaluation in the same step lowers the flag that `on_step_end` has raised, and the
  best step is not saved, nor any later one that is no better. `BestIsSaved` names
  this one case (`lowered`).
* `trainers/base.py:504`: pending gradients and the micro step are in no
  checkpoint. A resume from the middle of a group loses up to `Accumulate - 1`
  batches, against `lab/resume_verify.py:9`. Hence the bound in
  `EveryBatchOnce`.
* `callbacks/base.py:146` catches `BaseException`: a `KeyboardInterrupt` inside an
  ordinary callback is counted as its failure and the run goes on.
* `trainers/_primitives.py:74`: `on_train_start` is dispatched before the `try`, so
  a critical callback that raises there leaves the others without
  `on_train_end`; and failures in it precede the installation of the failure log.
* `trainers/base.py:615`, `:652`: a resumed run dispatches two events before
  `on_train_start`. With the default limit of three failures a callback can be
  silenced by the end of `on_train_start` without one entry in
  `callback_failures.jsonl`. Entries are also dropped without a run directory and
  when the write fails (`callback_isolation.py:102` to 129).
* `trainers/_primitives.py:91`: a loader without a single batch raises
  `StopIteration` out of the loop.
* `_stop_requested` is never lowered, so a trainer that was stopped cannot be run
  again.

Data preparation:

* `data/prepgraph/_fp.py:128`. "Same fingerprint ⇔ same on-disk output" (line 3)
  fails for a node whose inputs are exchanged: they are sorted before they
  are hashed, and the node is served the rows of the other order. The fourth recipe of
  `MCPrepRunner` has two such nodes; `Sound` leaves them, and what is above
  them, out of what is claimed.
* `data/prepgraph/runner.py:301`: of a cached memmap only the store is read back;
  a node below it that has to execute gets no rows and commits what it makes of
  none.
* `runner.py:427`: a cleanup that is killed inside a directory may leave the
  manifest without the rows. `ManifestMeansWhole` is claimed until then
  (`torn`).
* `runner.py:371`: the staging directory is named by the fingerprint alone. Two
  nodes of one fingerprint under different names share it when they run at
  once. One's rows may be committed under the other's name; a directory may be
  committed with a manifest and no rows, and is a hit from then on; or the run ends
  with "Refusing to commit incomplete staging dir". The run `prep_runner` reaches all
  three. So may the ranks of one job, which all run the prep graph on one
  store (`cli/_runtime.py:128`).
* `data/prepgraph/node.py:139` writes the manifest's schema version as a constant.
* `_fp.py:59` says that `None` values are dropped from the configuration; they
  are kept.

Artifacts:

* `data/artifacts/store.py`, memmap: a run that died after its first row and
  before its index is resumed with rows counted from 0 and appended behind the
  old ones. Its index, and parquet's, is written in place: a death in a run over
  a complete store leaves the complete mark on a store that cannot be read.
* `producer.py:177`: the header's `model_revision` is empty unless `header_overrides`
  names it, and `disagreements()` (`base.py:77`) takes an empty field for "don't care".
  A dataset that asks for a revision is served any store of a default production.
* A run over a complete store rewrites the header for samples that an earlier
  revision computed; one that puts nothing leaves the header without fields
  (`producer.py:244`), and `missing='fill_zero'` then adds none.
* `joined_dataset.py`: a reload that fails leaves the dataset without its stores,
  and samples pass without the field. A memmap or parquet directory that is not
  complete, opened by path, becomes a shard store.
* `dynamic_producer.py:92`: the stop flag is set before the poison pill, so what
  is queued when training ends is neither produced nor counted as dropped. The
  flag is never cleared: in a second fit the worker leaves at once.
* No update rule passes `ctx` to `on_step_end`, so there every production with the
  model `$self` has none and fails, and neither metrics nor bus events come out
  of it. `pin_model_version` copies the model when the batch is produced, not
  when it was submitted (lines 15, 16).
* With a fixed version, the samples of every batch have the same names; later
  productions find them present, write nothing and count as produced.

Lineage:

* `evaluation/generation_eval` writes an edge from what is judged to the judge
  (lines 178 to 183), `retention.py:138` reads the edges that lead to a node:
  `keep_best_by_metric` (lines 3, 8) retains nothing.
* `retention.py:98`: with `ttl_days` and no `keep_last` every row that is not
  otherwise kept is marked at once, young or old.
* `retention.py` `[:k]` counts edges and not rows.
* `store.py:105`: an upsert of a deprecated row keeps the mark and the old `ts`;
  the collection's list is old as well: the files of a version that is saved again
  while it works may be deleted, or stay when their row goes.
* `store.py:358` promises removal "only after `deprecated_ts + 24h`". A row
  whose mark is renewed while a collection works is deleted by the mark the collection
  has read. `GraceGiven` speaks of the mark that was read, and names this case.
* `retention.py:117` is `rmtree(ignore_errors=True)`, and the row is deleted whether or
  not the files went; they then have no row that a later collection would find. For the
  recorder's rows that is the rule: their `payload_path` is the manifest file, which
  `rmtree` never removes, and the path is reported as deleted. `NothingLeaks` excuses
  such files by name (`strays`).
* `gc --kind checkpoint` knows nothing of the checkpoint manager's pointers, and
  the manager's retention tells the database nothing.
* `store.py:335`: tags are read, changed and written in separate statements; of two
  commands at once one may be lost.
* The recorder is critical: a collection that deletes its row between upsert and
  edge takes the run down. No `derived_from` edge is ever written, so
  `cycle_check` never finds a cycle. An artifact's `payload_path` is its manifest
  file, its name that of the file's directory.

Reinforcement learning and the other rules:

* `ppo.py:233`, `grpo.py:200`: neither trainer sets `_stop_requested`, so
  `STOP_TRAINING` skips a minibatch and the run goes on; the stop file and
  `nan_skip`'s limit (`nan_skip.py:14`) do not end it. `RETRY_STEP` is ignored.
* Their checkpoints hold model and counters, no optimizer, sampler or value head;
  no save event is dispatched and there is no final save. In a second fit and after a
  resume the KL reference is frozen from the weights of that moment, while
  `lora_base_as_ref` refers to the base weights in every fit. GRPO's groups are split over
  shuffled minibatches.
* `sam.py:223`, `mezo.py`: an exception between the moves leaves the weights
  displaced in memory, there is no `try`/`finally`.
* `sam.py:224`: at the end of a window the gradients of its earlier batches are
  cleared, so SAM learns from the last batch of a window only, against "Compatible
  with gradient accumulation" (line 16). `UpdateUsesFarSide` takes no side. It takes
  `RETRY_STEP` for a skip; MeZO
  reads no signal.

Parts without a module:

* `layer_offload/_engine.py`: the hooks are registered on a wrapper that only the
  `LayerHandle` holds and nobody calls. `_optim_offload.py:84`: host copies of the
  weights are made when the wrapper is built and follow no checkpoint that is
  loaded later.
* `distributed/_protocols.py:32` promises a loader per rank; the prepared loader is
  thrown away (`cli/_runtime.py:694`), so every rank reads all of the data.

## 7. What is not modelled, and why

Abstractions inside the modelled parts:

* *Weights* are the set of batches learned from. Order of application,
  learning rates and precision do not matter to any property.
* *Callbacks* answer freely where their answer is read. `lr.json` and
  `inject.py` change values that are abstracted; a NaN metric, which best_ckpt
  and early_stop ignore, is not among the values.
* *Snapshots* hold the weights; the batch and the optimizer in them are not told
  apart from these. The bundles written from them are left out.
* *Checkpoints*: file contents; torn writes below the file system;
  saving from ranks other than 0.
* *PrepRunner*: one runner at a time; planning is one step; removal of a staging
  directory is one step, and so is writing the rows of a node; estimates, banner,
  and the process pool's pickling are left out.
* *Data*: only constructible combinations of `DataLoader` arguments are used;
  the length-grouped and curriculum samplers promise no exact resume and are
  left out.
* *Artifacts*: tensors are values; dtypes and shapes are left out, a misfit is a
  death of the run. One run at a time writes a directory. Migration of stores is
  left out.
* *DynamicArtifact*: the condition of a trigger is free; a batch is the number of
  its step; the store it writes is one value per directory.
* *Lineage*: one kind and name; payloads, search, export and the run nodes are left
  out. Tags are one tag. Rows are worked off one after the other, newest first, as
  the query orders them; that a statement fails is a death of its process.
* *RLTrainer*: rewards, advantages, losses and the measured KL are numbers that are
  left out; what each was computed from is kept. Optimizer and scheduler are part
  of the weights.
* *TwoPassRule*: displacements are whole moves; that floating-point moves do not
  cancel exactly is left out.

Parts without a module:

* *Layer offload*: its hooks are reached by no caller (section 6), so there is no
  behaviour to compare a model with.
* *Distributed strategies*: the collectives are torch's and accelerate's, and the
  repository has no decision in common of its ranks and no sampler of their own.
* *Sweep*: trials run one after the other in one process, proposed by optuna.
* *Numeric code* (models, adapters, losses, optimizers, metrics, quantisation, the
  biologically motivated rules): its content is arithmetic on tensors.
* *Formatting* (processors, collators, reports, banners); *one-shot tools* (fork,
  compare, estimate, crash bundles, migration), which run alone over finished
  files; *configuration and registry*, which end before the run starts.
* *Row caches, packing, mixing, pruning*: written once by one process, and pure
  functions on rows.

## 8. Plan

Done: checkpoint manager with its abstract store and the proof that it implements
it; update rule with its contract; training loop over both; event bus; data
position; prep graph runner; artifact stores with their promise and the proof that
they keep it; dynamic producer; lineage; reinforcement-learning trainers; SAM and
MeZO. Every safety property that a run checks is the subject of a theorem.

What is left, most important first:

1. `PrepRunner` with several runners on one store.
2. Composition: `TrainLoop` with `EventBus` in place of the free answers, so that a
   quarantined control callback is seen by the loop.
3. Packing and mixing as functions against reference definitions.
