------------------------------ MODULE TrainLoop ------------------------------
(***************************************************************************)
(* run_train_loop with the hooks of Trainer and the callbacks that decide  *)
(* what happens next: early_stop, best_ckpt and file_signals.  The run may *)
(* be killed anywhere and resumed from its checkpoint directory.           *)
(*                                                                         *)
(* A gradient step is one of TrainStep, a save is one step: UpdateRule and *)
(* CheckpointManager justify both.  A batch is named by its place in the   *)
(* stream of batches, epoch after epoch; the weights are the set of        *)
(* batches they have learned from.                                         *)
(***************************************************************************)
EXTENDS Integers, FiniteSets

CONSTANTS
  PerEpoch,      \* batches of an epoch
  Target,        \* target_steps
  Accumulate,    \* accumulate_grad_batches
  CkptEvery, ValEvery,   \* ckpt_every, val_every; 0 turns them off
  Monitors,      \* what best_ckpt may monitor: "loss", its default, or "val_loss"
  Patience,      \* early_stop.patience, on the validation loss
  PollEvery,     \* file_signals.poll_every
  Controls,      \* control files the user may create: "stop", "eval_now"
  Values,        \* bound: the values a metric takes, smaller is better
  MaxCrashes,    \* bound: deaths of the process
  None

Steps == 0..Target
Numbers == 0..Target - 1
Snapshots == [epoch : Nat, batch : 0..PerEpoch, applied : SUBSET Numbers,
              dropped : SUBSET Numbers]

ASSUME LoopAssumption ==
  /\ PerEpoch \in Nat \ {0} /\ Accumulate \in Nat \ {0}
  /\ Target \in Nat /\ CkptEvery \in Nat /\ ValEvery \in Nat
  /\ Monitors \subseteq {"loss", "val_loss"}
  /\ PollEvery \in Nat \ {0} /\ Controls \subseteq {"stop", "eval_now"}
  /\ Patience \in Nat /\ Values \subseteq Nat /\ MaxCrashes \in Nat
  /\ None \notin Nat /\ None \notin Snapshots
  /\ None \notin [step : Steps, value : Values, run : 0..MaxCrashes]

VARIABLES
  pc,          \* "fetch", "step", "after", "eval", "save", "best", "done", "down"
  step, epoch, batch,      \* ctx.step, ctx.epoch, ctx.batch_in_epoch
  pos,         \* batches of this epoch the iterator is past
  stop,        \* _stop_requested
  applied, pending, dropped,   \* as in TrainStep
  ckpts,       \* checkpoints on disk, by step
  best,        \* best_ckpt.best, None for infinity
  monitor,     \* best_ckpt.monitor
  flag,        \* best_ckpt.should_save
  lowered,     \* history: the value of the last flag that an evaluation took down
  bestFile,    \* what "best" names: step, value, (history) number of the process
  esBest, bad, \* early_stop.best and early_stop.bad_epochs
  files,       \* the control files that exist in <run_dir>/control
  forced,      \* ctx.extras["force_eval"]
  asked,       \* history: who has answered STOP_TRAINING in this process
  crashes      \* deaths of the process so far

vars == <<pc, step, epoch, batch, pos, stop, applied, pending, dropped, ckpts,
          monitor, best, flag, lowered, bestFile, esBest, bad, files, forced, asked,
          crashes>>
grads == <<applied, pending, dropped>>
place == <<step, epoch, batch, pos>>
bestCkpt == <<monitor, best, flag, lowered>>
earlyStop == <<esBest, bad>>
control == <<files, forced>>
disk == <<ckpts, bestFile>>

Learn == INSTANCE TrainStep WITH Batches <- Numbers

Due(every) == every > 0 /\ step % every = 0
Better(v, old) == old = None \/ v < old
Callers == {"loss", "batch_end", "early_stop", "stop_file"}

\* _collect_state(): what a checkpoint of this moment holds.  Pending gradients
\* and the state of the callbacks are in no checkpoint.
State == [epoch |-> epoch, batch |-> batch, applied |-> applied,
          dropped |-> dropped]

\* CheckpointManager.save(): the directory of the step is replaced as a whole.
Save == ckpts' = [ckpts EXCEPT ![step] = State]

Saved == {n \in Steps : ckpts[n] # None}
Latest == CHOOSE n \in Saved : \A m \in Saved : m <= n

\* Mutant: the first value is remembered but not flagged.
ConsumeSkipsFirst(v) ==
  /\ flag' = (best # None /\ Better(v, best))
  /\ best' = IF Better(v, best) THEN v ELSE best

\* BestCheckpointCallback._consume() of a finite value of its metric.
Consume(v) ==
  /\ flag' = Better(v, best)
  /\ best' = IF Better(v, best) THEN v ELSE best

\* EarlyStopCallback._check() of the validation loss.
CheckStop(val) ==
  IF Better(val, esBest)
  THEN esBest' = val /\ bad' = 0 /\ UNCHANGED asked
  ELSE /\ bad' = bad + 1 /\ UNCHANGED esBest
       /\ asked' = IF bad' > Patience THEN asked \cup {"early_stop"} ELSE asked

------------------------------------------------------------------------------

Init ==
  /\ pc = "fetch" /\ step = 0 /\ epoch = 0 /\ batch = 0 /\ pos = 0
  /\ stop = FALSE
  /\ Learn!Init
  /\ ckpts = [n \in Steps |-> None] /\ bestFile = None
  /\ monitor \in Monitors /\ best = None /\ flag = FALSE /\ lowered = None
  /\ esBest = None /\ bad = 0
  /\ files = {} /\ forced = FALSE /\ asked = {} /\ crashes = 0

\* The user creates a file in <run_dir>/control.
Touch(f) ==
  /\ pc # "done" /\ f \notin files
  /\ files' = files \cup {f}
  /\ UNCHANGED <<pc, place, stop, grads, disk, bestCkpt, earlyStop, forced,
                 asked, crashes>>

\* Mutant: _stop_requested is not looked at.
FetchDeaf ==
  /\ pc = "fetch" /\ step < Target
  /\ IF pos < PerEpoch
     THEN /\ pos' = pos + 1 /\ batch' = batch + 1
          /\ UNCHANGED epoch
     ELSE /\ epoch' = epoch + 1
          /\ pos' = 1 /\ batch' = 1
  /\ pc' = "step"
  /\ UNCHANGED <<step, stop, grads, disk, bestCkpt, earlyStop, control, asked,
                 crashes>>

\* The head of the loop and next(iterator): an exhausted iterator ends the
\* epoch, and the first batch of the next one is taken at once.
Fetch ==
  /\ pc = "fetch" /\ step < Target /\ ~stop
  /\ IF pos < PerEpoch
     THEN /\ pos' = pos + 1 /\ batch' = batch + 1
          /\ UNCHANGED epoch
     ELSE /\ epoch' = epoch + 1
          /\ pos' = 1 /\ batch' = 1
  /\ pc' = "step"
  /\ UNCHANGED <<step, stop, grads, disk, bestCkpt, earlyStop, control, asked,
                 crashes>>

\* The place in the stream of the batch just fetched.
Number == epoch * PerEpoch + pos - 1

\* on_step_end: best_ckpt looks at the training loss, file_signals consumes the
\* control files when it polls; the update rule drops the signal they return.
OnStepEnd(loss) ==
  /\ IF monitor = "loss" THEN Consume(loss) ELSE UNCHANGED <<best, flag>>
  /\ UNCHANGED <<monitor, lowered>>
  /\ IF step % PollEvery = 0
     THEN files' = {} /\ forced' = ("eval_now" \in files)
     ELSE UNCHANGED control

\* Who returns STOP_TRAINING from on_step_end.
StopFileAsks ==
  IF step % PollEvery = 0 /\ "stop" \in files THEN {"stop_file"} ELSE {}

\* train_step(): the batch is learned from, or a callback's verdict drops it.
Learned(loss) ==
  /\ pc = "step"
  /\ Learn!Wait(Number) \/ Learn!Apply(Number) \/ Learn!Drop(Number)
  /\ OnStepEnd(loss)
  /\ asked' = asked \cup StopFileAsks
  /\ pc' = "after"
  /\ UNCHANGED <<place, stop, disk, earlyStop, crashes>>

\* ... or a STOP_TRAINING of on_loss_computed drops it and ends the loop.
StoppedOnLoss(loss) ==
  /\ pc = "step"
  /\ Learn!Drop(Number)
  /\ OnStepEnd(loss)
  /\ asked' = asked \cup StopFileAsks \cup {"loss"}
  /\ stop' = TRUE
  /\ pc' = "after"
  /\ UNCHANGED <<place, disk, earlyStop, crashes>>

\* Mutant: a batch that was turned down is taken again.
AfterStepRepeats ==
  /\ pc = "after"
  /\ \/ UNCHANGED <<stop, asked>>
     \/ stop' = TRUE /\ asked' = asked \cup {"batch_end"}
  /\ IF Number \in dropped
     THEN pos' = pos - 1 /\ batch' = batch - 1 /\ UNCHANGED step
     ELSE step' = step + 1 /\ UNCHANGED <<pos, batch>>
  /\ pc' = "eval"
  /\ UNCHANGED <<epoch, grads, disk, bestCkpt, earlyStop, control, crashes>>

\* on_train_batch_end, whose STOP_TRAINING is honoured, and the step counter.
AfterStep ==
  /\ pc = "after"
  /\ \/ UNCHANGED <<stop, asked>>
     \/ stop' = TRUE /\ asked' = asked \cup {"batch_end"}
  /\ step' = step + 1
  /\ pc' = "eval"
  /\ UNCHANGED <<epoch, batch, pos, grads, disk, bestCkpt, earlyStop, control,
                 crashes>>

\* _maybe_eval(), due or forced by eval_now: best_ckpt sees only the validation
\* loss and lowers its flag when that is not what it monitors; what early_stop
\* answers is dropped.
Eval(val) ==
  /\ pc = "eval"
  /\ forced \/ Due(ValEvery)
  /\ forced' = FALSE
  /\ IF monitor = "val_loss"
     THEN Consume(val) /\ UNCHANGED lowered
     ELSE /\ flag' = FALSE /\ UNCHANGED best
          /\ lowered' = IF flag THEN best ELSE lowered
  /\ UNCHANGED monitor
  /\ CheckStop(val)
  /\ pc' = "save"
  /\ UNCHANGED <<place, stop, grads, disk, files, crashes>>

NoEval ==
  /\ pc = "eval" /\ ~forced /\ ~Due(ValEvery)
  /\ pc' = "save"
  /\ UNCHANGED <<place, stop, grads, disk, bestCkpt, earlyStop, control, asked,
                 crashes>>

\* _maybe_save()
MaybeSave ==
  /\ pc = "save"
  /\ IF Due(CkptEvery) THEN Save ELSE UNCHANGED ckpts
  /\ pc' = "best"
  /\ UNCHANGED <<place, stop, grads, bestFile, bestCkpt, earlyStop, control,
                 asked, crashes>>

\* Mutant: the flag is left up after the save.
SaveBestForgetsFlag ==
  /\ pc = "best"
  /\ IF flag
     THEN Save /\ bestFile' = [step |-> step, value |-> best, run |-> crashes]
     ELSE UNCHANGED disk
  /\ pc' = "fetch"
  /\ UNCHANGED <<place, stop, grads, bestCkpt, earlyStop, control, asked,
                 crashes>>

\* _maybe_save_best(): a "best" save writes the step's directory too.
MaybeSaveBest ==
  /\ pc = "best"
  /\ IF flag
     THEN Save /\ bestFile' = [step |-> step, value |-> best, run |-> crashes]
     ELSE UNCHANGED disk
  /\ flag' = FALSE
  /\ pc' = "fetch"
  /\ UNCHANGED <<place, stop, grads, monitor, best, lowered, earlyStop, control,
                 asked, crashes>>

\* Mutant: no final save.
FinishUnsaved ==
  /\ pc = "fetch" /\ (step >= Target \/ stop)
  /\ pc' = "done"
  /\ UNCHANGED <<place, stop, grads, disk, bestCkpt, earlyStop, control, asked,
                 crashes>>

\* _final_save(), unless the last step was a multiple of ckpt_every.
Finish ==
  /\ pc = "fetch" /\ (step >= Target \/ stop)
  /\ IF Due(CkptEvery) THEN UNCHANGED ckpts ELSE Save
  /\ pc' = "done"
  /\ UNCHANGED <<place, stop, grads, bestFile, bestCkpt, earlyStop, control,
                 asked, crashes>>

\* The process is killed, or an exception leaves the loop.
Crash ==
  /\ pc # "down" /\ crashes < MaxCrashes
  /\ pc' = "down" /\ crashes' = crashes + 1
  /\ UNCHANGED <<place, stop, grads, disk, bestCkpt, earlyStop, control, asked>>

\* load_checkpoint() of the newest checkpoint in a new process, or a run from
\* the start when there is none.  The callbacks start afresh.
RestartAt(n) ==
  /\ pc = "down"
  /\ pc' = "fetch" /\ stop' = FALSE /\ asked' = {}
  /\ best' = None /\ flag' = FALSE /\ lowered' = None /\ esBest' = None /\ bad' = 0
  /\ forced' = FALSE /\ step' = n /\ pending' = {}
  /\ UNCHANGED <<disk, monitor, files, crashes>>

\* Mutant: the iterator starts at the beginning of the epoch.
ResumeAtEpochStart ==
  /\ Saved # {} /\ RestartAt(Latest)
  /\ epoch' = ckpts[Latest].epoch /\ batch' = ckpts[Latest].batch
  /\ pos' = 0
  /\ applied' = ckpts[Latest].applied /\ dropped' = ckpts[Latest].dropped

Resume ==
  /\ Saved # {} /\ RestartAt(Latest)
  /\ epoch' = ckpts[Latest].epoch /\ batch' = ckpts[Latest].batch
  /\ pos' = batch'
  /\ applied' = ckpts[Latest].applied /\ dropped' = ckpts[Latest].dropped

Rerun ==
  /\ Saved = {} /\ RestartAt(0)
  /\ epoch' = 0 /\ batch' = 0 /\ pos' = 0 /\ applied' = {} /\ dropped' = {}

Next ==
  \/ \E f \in Controls : Touch(f)
  \/ Fetch
  \/ \E v \in Values : Learned(v) \/ StoppedOnLoss(v) \/ Eval(v)
  \/ AfterStep \/ NoEval \/ MaybeSave \/ MaybeSaveBest \/ Finish
  \/ Crash \/ Resume \/ Rerun

\* The loop is one thread that nothing blocks.  That somebody resumes a dead run
\* is not assumed.
Loop ==
  \/ Fetch
  \/ \E v \in Values : Learned(v) \/ StoppedOnLoss(v) \/ Eval(v)
  \/ AfterStep \/ NoEval \/ MaybeSave \/ MaybeSaveBest \/ Finish
Fairness == WF_vars(Loop)

Spec == Init /\ [][Next]_vars /\ Fairness

------------------------------------------------------------------------------
TypeOK ==
  /\ pc \in {"fetch", "step", "after", "eval", "save", "best", "done", "down"}
  /\ step \in Steps /\ epoch \in Nat
  /\ batch \in 0..PerEpoch /\ pos \in 0..PerEpoch
  /\ stop \in BOOLEAN
  /\ applied \subseteq Numbers /\ pending \subseteq Numbers
  /\ dropped \subseteq Numbers
  /\ \A n \in Steps : ckpts[n] = None \/ ckpts[n] \in Snapshots
  /\ DOMAIN ckpts = Steps
  /\ monitor \in Monitors /\ flag \in BOOLEAN
  /\ best \in Values \cup {None} /\ lowered \in Values \cup {None}
  /\ bestFile = None \/ bestFile \in [step : Steps, value : Values,
                                    run : 0..MaxCrashes]
  /\ esBest \in Values \cup {None} /\ bad \in 0..Target
  /\ files \subseteq Controls /\ forced \in BOOLEAN /\ asked \subseteq Callers
  /\ crashes \in 0..MaxCrashes

\* The batches taken from the stream so far, in the history that led here.
Consumed == 0..(epoch * PerEpoch + batch) - 1

\* However the run was interrupted and resumed, at every step boundary the batches
\* of the stream so far were learned from, wait for their group, or were dropped on
\* a verdict, each once; a resume loses at most the batches that waited for a group
\* when its checkpoint was saved, so none without gradient accumulation.
EveryBatchOnce ==
  pc = "fetch" =>
    /\ Cardinality(Consumed) = step
    /\ applied \cup pending \cup dropped \subseteq Consumed
    /\ Cardinality(Consumed \ (applied \cup pending \cup dropped))
         <= (Accumulate - 1) * crashes
    /\ applied \cap pending = {} /\ applied \cap dropped = {}
    /\ pending \cap dropped = {}

\* After STOP_TRAINING from on_loss_computed or on_train_batch_end the loop
\* takes no further batch (_primitives.py:111 to 126).
StopHonoured ==
  [][pc = "fetch" /\ pc' = "step" => asked \cap {"loss", "batch_end"} = {}]_vars

\* A run that ends by itself leaves a checkpoint of its last step with the
\* weights it ended with, also when the last step was saved on schedule.
EndIsSaved ==
  pc = "done" /\ step > 0 =>
    ckpts[step] # None /\ ckpts[step].applied = applied /\ Latest = step

\* At every step boundary the best value seen since the process started is on
\* disk, saved by this process, and the best pointer names it.  It is not when a
\* training loss is monitored and the step that reached it was also evaluated: the
\* evaluation takes the flag down before the loop reads it (best_ckpt.py:41), and
\* the save is lost until a still better value comes.
BestIsSaved ==
  /\ TypeOK
  /\ pc \in {"fetch", "done"} /\ best # None =>
       \/ /\ bestFile # None /\ bestFile.value = best /\ bestFile.run = crashes
          /\ ckpts[bestFile.step] # None
       \/ monitor = "loss" /\ lowered = best

\* Within one process every move of the best pointer is an improvement over the
\* last one: a flag once served does not save again.
BestMovesOnImprovement ==
  [][bestFile' # bestFile /\ bestFile # None /\ bestFile.run = crashes =>
       bestFile'.value < bestFile.value]_vars

\* Left alone, or resumed whenever it dies, the run ends, also when a callback
\* turns down every batch: each batch taken is a step on the way to Target,
\* whatever became of it (_primitives.py:128), over ends of epochs and resumes.
RunEnds == <>(pc = "done") \/ <>[](pc = "down")

------------------------------------------------------------------------------
\* pretrain.py:21: "Honors callback Signal.STOP_TRAINING to break the loop
\* early", whichever callback returns it: early_stop (early_stop.py:14) and the
\* stop file (file_signals.py:9) promise no less.
EveryStopHonoured == [][pc = "fetch" /\ pc' = "step" => asked = {}]_vars
==============================================================================
