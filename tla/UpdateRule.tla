------------------------------ MODULE UpdateRule ------------------------------
(***************************************************************************)
(* StandardUpdateRule.step and apply_update, with the frozen-step callback *)
(* that snapshots the model at the start of every step: the RETRY_STEP     *)
(* loop restores the last snapshot there is.  That the callback also       *)
(* writes snapshots to disk is left out: nothing here reads them.          *)
(*                                                                         *)
(* The batch of a step is the step's number.  The weights are the set of   *)
(* batches they have learned from, and so are the copies of the weights.   *)
(* What callbacks answer to on_loss_computed is free.                      *)
(***************************************************************************)
EXTENDS Integers, FiniteSets

CONSTANTS
  MaxStep,          \* bound: steps of the run
  Accumulate,       \* accumulate_grad_batches
  MaxRetries,       \* max_retries
  None

Batches == 0..MaxStep - 1
CONTINUE == 0
SKIP_STEP == 1
RETRY_STEP == 2
STOP_TRAINING == 3
Signals == {CONTINUE, SKIP_STEP, RETRY_STEP, STOP_TRAINING}

ASSUME RuleAssumption ==
  /\ MaxStep \in Nat /\ MaxRetries \in Nat
  /\ Accumulate \in Nat \ {0}
  /\ \A w \in SUBSET Batches : w # None
  /\ None \notin [step : Batches, weights : {None} \cup SUBSET Batches]

\* How FrozenStepWriter.snapshot() can end: in full, without a copy of the model,
\* or with an exception.
Outcomes == {"taken", "uncopied", "raised"}

VARIABLES
  pc,          \* "begin", "verdict", "backward", "post", "end" or "halted"
  step,        \* ctx.step
  applied, pending, dropped,   \* as in TrainStep
  micro,       \* micro_state.micro_step
  retries,     \* retry_count
  sig,         \* what the last on_loss_computed returned, in this step
  signal,      \* ctx.extras["loss_signal"], CONTINUE when absent
  snap,        \* FrozenStepWriter._snapshot: step and copy of the weights, or None
  entry,       \* history: of every step, its first weights and how its snapshot ended
  lost         \* history: batches a restored snapshot has taken out of the weights

vars == <<pc, step, applied, pending, dropped, micro, retries, sig, signal,
          snap, entry, lost>>
grads == <<applied, pending, dropped, micro>>

TypeOK ==
  /\ pc \in {"begin", "verdict", "backward", "post", "end", "halted"}
  /\ step \in 0..MaxStep
  /\ applied \subseteq Batches /\ pending \subseteq Batches
  /\ dropped \subseteq Batches
  /\ micro \in Nat /\ retries \in 0..MaxRetries
  /\ sig \in Signals /\ signal \in Signals
  /\ snap = None \/ snap \in [step : Batches, weights : {None} \cup SUBSET Batches]
  /\ \A s \in DOMAIN entry : entry[s] \in [weights : SUBSET Batches, snapshot : Outcomes]
  /\ lost \subseteq Batches

Init ==
  /\ pc = "begin" /\ step = 0
  /\ applied = {} /\ pending = {} /\ dropped = {} /\ micro = 0
  /\ retries = 0 /\ sig = CONTINUE /\ signal = CONTINUE
  /\ snap = None /\ entry = [s \in {} |-> {}] /\ lost = {}

\* FrozenStepWriter.snapshot(), from on_step_begin(): an exception is only logged,
\* and the writer keeps the snapshot it had; a model that cannot be copied is
\* absent from the new one.
TakeSnapshot(outcome) ==
  snap' = CASE outcome = "taken"    -> [step |-> step, weights |-> applied]
            [] outcome = "uncopied" -> [step |-> step, weights |-> None]
            [] outcome = "raised"   -> snap

\* FrozenStepWriter.restore_snapshot(): the weights it leaves.
Restored == IF snap = None THEN applied ELSE IF snap.weights = None THEN applied ELSE snap.weights

Entered(outcome) ==
  entry' = [s \in 0..step |-> IF s = step THEN [weights |-> applied, snapshot |-> outcome]
                                         ELSE entry[s]]
------------------------------------------------------------------------------
\* Mutant: only every other step takes a snapshot.
BeginSnapsRarely(outcome) ==
  /\ pc = "begin" /\ step < MaxStep
  /\ signal' = CONTINUE /\ retries' = 0
  /\ Entered(outcome) /\ TakeSnapshot(IF step % 2 = 0 THEN outcome ELSE "raised")
  /\ pc' = "verdict"
  /\ UNCHANGED <<step, grads, sig, lost>>

\* _run_step() clears loss_signal; on_step_begin takes the snapshot; the first
\* forward pass runs.
Begin(outcome) ==
  /\ pc = "begin" /\ step < MaxStep
  /\ signal' = CONTINUE /\ retries' = 0
  /\ Entered(outcome) /\ TakeSnapshot(outcome)
  /\ pc' = "verdict"
  /\ UNCHANGED <<step, grads, sig, lost>>

\* Mutant: a count of retries that starts over too early.
RetryUnbounded ==
  /\ pc = "verdict" /\ retries < MaxRetries
  /\ sig' = RETRY_STEP
  /\ retries' = (retries + 1) % MaxRetries
  /\ applied' = Restored /\ lost' = lost \cup (applied \ Restored)
  /\ UNCHANGED <<pc, step, pending, dropped, micro, signal, snap, entry>>

\* on_loss_computed asks for a retry that is left: the snapshot is restored and
\* the forward pass runs again on the same batch.
Retry ==
  /\ pc = "verdict" /\ retries < MaxRetries
  /\ sig' = RETRY_STEP
  /\ retries' = retries + 1
  /\ applied' = Restored /\ lost' = lost \cup (applied \ Restored)
  /\ UNCHANGED <<pc, step, pending, dropped, micro, signal, snap, entry>>

\* Mutant: the loop is told of a skip, whatever the signal was.
PropagatedCollapsed(s) == IF s = CONTINUE THEN signal ELSE SKIP_STEP

\* ctx.extras["loss_signal"] is written for a signal other than CONTINUE; a retry
\* that ends the loop has exhausted its budget and is a skip.
Propagated(s) ==
  IF s = CONTINUE THEN signal ELSE IF s = RETRY_STEP THEN SKIP_STEP ELSE s

\* Mutant: a retry that is left over when the budget is spent is not a skip.
VerdictNotDegraded(s) ==
  /\ pc = "verdict"
  /\ s = RETRY_STEP => retries >= MaxRetries
  /\ sig' = s
  /\ signal' = IF s = CONTINUE THEN signal ELSE s
  /\ pc' = IF s \in {SKIP_STEP, STOP_TRAINING} THEN "post" ELSE "backward"
  /\ IF s \in {SKIP_STEP, STOP_TRAINING}
     THEN /\ dropped' = dropped \cup pending \cup {step}
          /\ pending' = {} /\ micro' = 0 /\ UNCHANGED applied
     ELSE UNCHANGED grads
  /\ UNCHANGED <<step, retries, snap, entry, lost>>

\* Mutant: a skip that leaves the micro step as it is.
VerdictKeepsMicro(s) ==
  /\ pc = "verdict"
  /\ s = RETRY_STEP => retries >= MaxRetries
  /\ sig' = s /\ signal' = Propagated(s)
  /\ pc' = IF s = CONTINUE THEN "backward" ELSE "post"
  /\ IF s = CONTINUE
     THEN UNCHANGED grads
     ELSE /\ dropped' = dropped \cup pending \cup {step}
          /\ pending' = {} /\ UNCHANGED <<micro, applied>>
  /\ UNCHANGED <<step, retries, snap, entry, lost>>

\* on_loss_computed ends the loop: a retry with no budget left degrades to a
\* skip; a skip and a stop clear the gradients and go straight to on_step_end.
Verdict(s) ==
  /\ pc = "verdict"
  /\ s = RETRY_STEP => retries >= MaxRetries
  /\ sig' = s /\ signal' = Propagated(s)
  /\ pc' = IF s = CONTINUE THEN "backward" ELSE "post"
  /\ IF s = CONTINUE
     THEN UNCHANGED grads
     ELSE /\ dropped' = dropped \cup pending \cup {step}
          /\ pending' = {} /\ micro' = 0 /\ UNCHANGED applied
  /\ UNCHANGED <<step, retries, snap, entry, lost>>

\* apply_update(): backward always; clip, optimizer step and zero_grad only on
\* the last micro-batch of a group.
Backward ==
  /\ pc = "backward"
  /\ micro' = micro + 1
  /\ IF micro' % Accumulate # 0
     THEN /\ pending' = pending \cup {step}
          /\ UNCHANGED applied
     ELSE /\ applied' = applied \cup pending \cup {step}
          /\ pending' = {}
  /\ pc' = "post"
  /\ UNCHANGED <<step, dropped, retries, sig, signal, snap, entry, lost>>

\* The on_step_end event, after an update and after a skip.
StepEnd ==
  /\ pc = "post"
  /\ pc' = "end"
  /\ UNCHANGED <<step, grads, retries, sig, signal, snap, entry, lost>>

\* The loop reads loss_signal and goes on, or stops.
NextStep ==
  /\ pc = "end"
  /\ pc' = IF signal = STOP_TRAINING THEN "halted" ELSE "begin"
  /\ step' = step + 1
  /\ UNCHANGED <<grads, retries, sig, signal, snap, entry, lost>>

\* Any of the calls raises, those of the loop before and after the step included,
\* or a critical callback does, and the run ends.
Raise ==
  /\ pc # "halted"
  /\ pc' = "halted"
  /\ UNCHANGED <<step, grads, retries, sig, signal, snap, entry, lost>>

Next ==
  \/ (\E o \in Outcomes : Begin(o)) \/ Retry
  \/ \E s \in Signals : Verdict(s)
  \/ Backward \/ StepEnd \/ NextStep \/ Raise

\* Everything runs on the training thread, which nothing blocks; that callbacks
\* stop asking for retries is not assumed.
Fairness == WF_vars((\E o \in Outcomes : Begin(o)) \/ Retry \/ (\E s \in Signals : Verdict(s))
                    \/ Backward \/ StepEnd \/ NextStep)
Spec == Init /\ [][Next]_vars /\ Fairness

------------------------------------------------------------------------------
\* Whatever callbacks answer, however often a step is replayed and whichever
\* snapshots fail, the rule keeps the contract of TrainStep: every batch is used
\* once, and the weights learn by groups of exactly Accumulate batches; what an
\* old snapshot has taken back counts as used, and is not used again.
Contract == INSTANCE TrainStep WITH applied <- applied \cup lost
ImplementsTrainStep == Contract!Spec

\* A batch whose last verdict was not CONTINUE never reaches the weights, nor
\* the gradients that are still to be applied (standard.py:247 to 255).
RejectedNeverLearned ==
  /\ TypeOK
  /\ pc \in {"post", "end"} /\ sig # CONTINUE => step \notin applied \cup pending

\* The loop stops exactly when this step's callbacks asked for it: the slot it
\* reads holds no signal of an earlier step, and a retry is never a stop.
StopIsOfThisStep ==
  pc = "end" => ((signal = STOP_TRAINING) <=> (sig = STOP_TRAINING))

\* A replay sees the weights its step started with (frozen_step.py:175, "so
\* retries see the pre-step state"), with one exception, which that sentence does
\* not name: after a snapshot that raised, which is only logged
\* (builtins/frozen_step.py:121), it may see those some earlier step started with,
\* and then the last step that had a snapshot.
RetrySeesPreStepState ==
  pc = "verdict" =>
    \/ applied = entry[step].weights
    \/ \E s \in 0..step - 1 :
         /\ applied = entry[s].weights /\ entry[s].snapshot = "taken"
         /\ \A r \in s + 1..step : entry[r].snapshot = "raised"

\* A step that began ends, even when a callback answers RETRY_STEP for ever.
StepTerminates == pc = "verdict" ~> pc \in {"end", "halted"}
==============================================================================
