------------------------------ MODULE RLTrainer ------------------------------
(***************************************************************************)
(* PPOTrainer.fit and GRPOTrainer.fit: an outer step rolls out a batch of  *)
(* prompts into the RolloutBuffer, estimates advantages (PPO), and makes   *)
(* ppo_epochs passes over the buffer in shuffled minibatches, each handed  *)
(* to RLUpdateRule.  A trainer may be fitted again, also after a fit that  *)
(* raised, with another objective; the process may die and be resumed.     *)
(*                                                                         *)
(* Weights are named by the update that made them, 0 being the initial     *)
(* ones; a copy of the weights, a log-probability and a value estimate     *)
(* carry the name of the weights they come from.  What callbacks answer to *)
(* on_loss_computed and the measured KL are free.                          *)
(***************************************************************************)
EXTENDS Integers, Sequences, FiniteSets

CONSTANTS
  Algos,        \* the trainers looked at: "ppo", "grpo"
  LoaderLen,    \* prompt batches of an epoch
  MaxEpisodes,  \* bound: episodes of one rollout
  BufferSize,   \* buffer_max_size
  MiniBatch,    \* mini_batch_size
  Passes,       \* ppo_epochs
  CkptEvery,    \* ckpt_every
  MaxStep,      \* bound: the largest number of steps a fit is asked for
  MaxFits,      \* bound: calls of fit()
  MaxCrashes,   \* bound: deaths of the process
  None

ASSUME RLAssumption ==
  /\ Algos \subseteq {"ppo", "grpo"}
  /\ \A c \in {LoaderLen, MaxEpisodes, BufferSize, MiniBatch, Passes, CkptEvery,
               MaxStep, MaxFits} : c \in Nat \ {0}
  /\ MaxCrashes \in Nat /\ None \notin Int
  /\ None \notin [by : Int, of : SUBSET [roll : 0..1, row : 1..MaxEpisodes, by : Nat]]

VARIABLES
  algo,      \* the trainer, and whether it was given use_value_head and
  useHead,   \* lora_base_as_ref
  lora,
  kl,        \* whether the objective of this fit has beta_kl > 0
  pc,        \* "idle", "fetch", "rollout", "gae", "batch", "verdict", "tail", "save" or "failed"
  target,    \* what this fit was asked for
  step,      \* ctx.step
  cursor,    \* batches taken from the loader's iterator
  weights, minted,   \* the model's weights; the last name given to any
  head,      \* the value head, trained with the model, or None
  ref,       \* _ref_policy: the weights it answers for, or None
  began,     \* history: the weights this fit started from
  buffer,    \* _buffer._episodes
  rolls,     \* the name of the last rollout: the one before has the other
  adv,       \* the rows of advantages_seq and returns_seq
  pass, left,    \* the inner epoch and the indices it has still to yield
  seen,      \* history: how often each row was in a minibatch of this rollout
  batch,     \* the minibatch: its rows
  lpref,     \* ctx.extras["log_probs_ref"]: by which weights, of which episodes
  over,      \* whether this minibatch exceeded target_kl
  ckpt,      \* the newest checkpoint or None
  fits, crashes

config == <<algo, useHead, lora>>
model == <<weights, minted, head>>
position == <<step, cursor>>
rollout == <<buffer, rolls, adv>>
inner == <<pass, left, seen, batch, lpref, over>>
fitting == <<kl, target, ref, began, fits>>
saved == <<ckpt, crashes>>
vars == <<config, pc, model, position, rollout, inner, fitting, saved>>

Init ==
  /\ algo \in Algos /\ useHead \in BOOLEAN /\ (algo = "grpo" => ~useHead)
  /\ lora \in BOOLEAN
  /\ kl = FALSE /\ pc = "idle" /\ target = 0 /\ step = 0 /\ cursor = 0
  /\ weights = 0 /\ minted = 0 /\ head = None /\ ref = None /\ began = 0
  /\ buffer = <<>> /\ rolls = 0 /\ adv = <<>> /\ pass = 0 /\ left = {}
  /\ seen = <<>> /\ batch = {} /\ lpref = None /\ over = FALSE
  /\ ckpt = None /\ fits = 0 /\ crashes = 0

------------------------------------------------------------------------------

\* The live model with its adapters off: base weights, which no update moves and
\* which a checkpoint holds as they were.
Base == -1

\* freeze_as_ref(): a copy of the live model, or, with lora_base_as_ref, no copy
\* but the base weights inside the live model.
Frozen == IF lora THEN Base ELSE weights

\* fit() up to the loop: the reference is dropped, and made anew when the
\* objective has a KL term.
Fit(wantsKl, steps) ==
  /\ pc \in {"idle", "failed"} /\ fits < MaxFits
  /\ kl' = wantsKl /\ target' = steps
  /\ ref' = IF wantsKl THEN Frozen ELSE None
  /\ began' = weights
  /\ cursor' = 0 /\ fits' = fits + 1 /\ pc' = "fetch"
  /\ UNCHANGED <<config, model, step, rollout, inner, saved>>

\* next(iterator); an exhausted loader starts the next epoch.
Fetch ==
  /\ pc = "fetch" /\ step < target
  /\ cursor' = IF cursor < LoaderLen THEN cursor + 1 ELSE 1
  /\ pc' = "rollout"
  /\ UNCHANGED <<config, model, step, rollout, inner, fitting, saved>>

\* RolloutEngine.rollout(): n episodes with the log-probabilities of the weights
\* that wrote them.
Episodes(n) == [i \in 1..n |-> [roll |-> 1 - rolls, row |-> i, by |-> weights]]

\* RolloutBuffer.add() of several episodes: a full buffer loses its oldest.
Held(eps) ==
  SubSeq(eps, IF Len(eps) > BufferSize THEN Len(eps) - BufferSize + 1 ELSE 1, Len(eps))

\* The first inner epoch: every row is to come.
Enter(b) ==
  /\ buffer' = b /\ rolls' = 1 - rolls /\ adv' = <<>>
  /\ pass' = 1 /\ left' = DOMAIN b /\ seen' = [i \in DOMAIN b |-> 0]
  /\ over' = FALSE /\ pc' = IF algo = "ppo" THEN "gae" ELSE "batch"
  /\ UNCHANGED <<config, model, position, batch, lpref, fitting, saved>>

\* produce_batch(): clear the buffer, roll out, fill it.
Rollout(n) == pc = "rollout" /\ Enter(Held(Episodes(n)))

\* _compute_advantages(): one row per episode in the buffer's order, over the
\* estimates of the value head when there is one already.
Advantages ==
  /\ pc = "gae"
  /\ adv' = [i \in DOMAIN buffer |-> [of |-> buffer[i], base |-> head]]
  /\ pc' = "batch"
  /\ UNCHANGED <<config, model, position, buffer, rolls, inner, fitting, saved>>
------------------------------------------------------------------------------
\* Mutant: advantages are taken by position in the epoch, not by drawn index.
CollateByPosition(S) ==
  LET first == Cardinality(DOMAIN buffer) - Cardinality(left)
      rank(i) == Cardinality({j \in S : j <= i})
  IN  { [ep |-> buffer[i],
         adv |-> IF algo = "ppo" THEN adv[first + rank(i)] ELSE None] : i \in S }

\* _collate(): the episodes of the drawn indices with the advantages of the same.
Collate(S) ==
  { [ep |-> buffer[i], adv |-> IF algo = "ppo" THEN adv[i] ELSE None] : i \in S }

\* What RolloutBuffer.batches() may yield next from a random permutation: any
\* MiniBatch of the indices that are left, or all when they are fewer.
Drawn(rest) ==
  {S \in SUBSET rest : Cardinality(S) = IF Cardinality(rest) < MiniBatch
                                          THEN Cardinality(rest) ELSE MiniBatch}

\* Mutant: what an earlier step left in ctx.extras is not cleared.
ScoreKeepsRef(S) ==
  /\ pc = "batch" /\ left # {} /\ S \in Drawn(left)
  /\ batch' = Collate(S)
  /\ lpref' = IF ref # None THEN [by |-> ref, of |-> {buffer[i] : i \in S}] ELSE lpref
  /\ head' = IF useHead /\ head = None THEN weights ELSE head
  /\ left' = left \ S /\ seen' = [i \in DOMAIN seen |-> seen[i] + IF i \in S THEN 1 ELSE 0]
  /\ pc' = "verdict"
  /\ UNCHANGED <<config, weights, minted, position, rollout, pass, over, fitting, saved>>

\* _ppo_step() and _grpo_step() up to the update rule: the value head is made on
\* first use, the reference's log-probabilities are put beside the minibatch or
\* taken away.
Score(S) ==
  /\ pc = "batch" /\ left # {} /\ S \in Drawn(left)
  /\ batch' = Collate(S)
  /\ lpref' = IF ref # None THEN [by |-> ref, of |-> {buffer[i] : i \in S}] ELSE None
  /\ head' = IF useHead /\ head = None THEN weights ELSE head
  /\ left' = left \ S /\ seen' = [i \in DOMAIN seen |-> seen[i] + IF i \in S THEN 1 ELSE 0]
  /\ pc' = "verdict"
  /\ UNCHANGED <<config, weights, minted, position, rollout, pass, over, fitting, saved>>

\* RLUpdateRule.step() after on_loss_computed: SKIP_STEP and STOP_TRAINING give
\* the minibatch up, RETRY_STEP does not; the loop looks at neither signal, only,
\* in PPO, at the KL.
Verdict(skip, high) ==
  /\ pc = "verdict" /\ (high => algo = "ppo")
  /\ IF skip THEN UNCHANGED model
             ELSE /\ minted' = minted + 1 /\ weights' = minted'
                  /\ head' = IF head = None THEN None ELSE minted'
  /\ over' = high
  /\ pc' = IF high THEN "tail" ELSE "batch"
  /\ UNCHANGED <<config, position, rollout, pass, left, seen, batch, lpref, fitting, saved>>

\* Mutant: a last, smaller minibatch is not waited for.
NextPassDropsRest ==
  /\ pc = "batch" /\ Cardinality(left) < MiniBatch /\ pass < Passes
  /\ pass' = pass + 1 /\ left' = DOMAIN buffer
  /\ UNCHANGED <<config, pc, model, position, rollout, seen, batch, lpref, over, fitting, saved>>

\* The next inner epoch draws a new permutation.
NextPass ==
  /\ pc = "batch" /\ left = {} /\ pass < Passes
  /\ pass' = pass + 1 /\ left' = DOMAIN buffer
  /\ UNCHANGED <<config, pc, model, position, rollout, seen, batch, lpref, over, fitting, saved>>

LastPass ==
  /\ pc = "batch" /\ left = {} /\ pass = Passes
  /\ pc' = "tail"
  /\ UNCHANGED <<config, model, position, rollout, inner, fitting, saved>>
------------------------------------------------------------------------------

\* The end of an outer step.
EndStep ==
  /\ pc = "tail" /\ pc' = "save"
  /\ step' = step + 1
  /\ UNCHANGED <<config, model, cursor, rollout, inner, fitting, saved>>

\* When due the model and the trainer's counters are saved, neither optimizer nor
\* value head.
Save ==
  /\ pc = "save" /\ pc' = "fetch"
  /\ ckpt' = IF (step % CkptEvery) = 0
               THEN [step |-> step, weights |-> weights] ELSE ckpt
  /\ UNCHANGED <<config, model, position, rollout, inner, fitting, crashes>>

\* The loop's condition fails: fit() returns and may be called again.
End ==
  /\ pc = "fetch" /\ step >= target /\ pc' = "idle"
  /\ UNCHANGED <<config, model, position, rollout, inner, fitting, saved>>

\* A reward function, a model, a critical callback or a save raises out of fit().
Raise ==
  /\ pc \notin {"idle", "failed"} /\ pc' = "failed"
  /\ UNCHANGED <<config, model, position, rollout, inner, fitting, saved>>

\* The process dies; another one is built from the recipe and loads the newest
\* checkpoint: the epoch starts over, the value head is gone.
CrashResume ==
  /\ crashes < MaxCrashes /\ crashes' = crashes + 1
  /\ step' = (IF ckpt = None THEN 0 ELSE ckpt.step)
  /\ weights' = (IF ckpt = None THEN 0 ELSE ckpt.weights)
  /\ head' = None /\ ref' = None /\ lpref' = None /\ kl' = FALSE /\ target' = 0
  /\ cursor' = 0 /\ buffer' = <<>> /\ adv' = <<>> /\ pass' = 0 /\ left' = {}
  /\ seen' = <<>> /\ batch' = {} /\ over' = FALSE /\ began' = weights' /\ pc' = "idle"
  /\ UNCHANGED <<config, minted, rolls, fits, ckpt>>

InFit ==
  \/ Fetch \/ Advantages \/ NextPass \/ LastPass \/ EndStep \/ Save \/ End
  \/ \E n \in 1..MaxEpisodes : Rollout(n)
  \/ \E S \in SUBSET left : Score(S)
  \/ \E skip, high \in BOOLEAN : Verdict(skip, high)

Next ==
  \/ InFit
  \/ \E k \in BOOLEAN, t \in 1..MaxStep : Fit(k, t)
  \/ Raise
  \/ CrashResume

Spec == Init /\ [][Next]_vars
------------------------------------------------------------------------------
Rows == 1..BufferSize
Names == 0..minted
IsEpisode(e) ==
  /\ DOMAIN e = {"roll", "row", "by"}
  /\ e.roll \in 0..1 /\ e.row \in 1..MaxEpisodes /\ e.by \in Names

\* The types of the variables, and how far the phases of a rollout have come: the
\* buffer never outgrows its size, an advantage exists for every row.
TypeOK ==
  /\ algo \in Algos /\ useHead \in BOOLEAN /\ lora \in BOOLEAN /\ kl \in BOOLEAN
  /\ pc \in {"idle", "fetch", "rollout", "gae", "batch", "verdict", "tail", "save", "failed"}
  /\ target \in 0..MaxStep /\ step \in 0..MaxStep
  /\ cursor \in 0..LoaderLen /\ minted \in Nat /\ weights \in Names
  /\ head \in Names \cup {None} /\ ref \in Names \cup {None, Base} /\ began \in Names
  /\ Len(buffer) <= BufferSize /\ \A i \in DOMAIN buffer : IsEpisode(buffer[i])
  /\ DOMAIN seen = DOMAIN buffer /\ left \subseteq DOMAIN buffer
  /\ pc \in {"batch", "verdict"} /\ algo = "ppo" => DOMAIN adv = DOMAIN buffer
  /\ pass \in 0..Passes /\ over \in BOOLEAN
  /\ \A r \in batch : IsEpisode(r.ep)
  /\ ckpt = None \/ ckpt \in [step : 0..MaxStep, weights : Names]
  /\ rolls \in 0..1 /\ fits \in 0..MaxFits /\ crashes \in 0..MaxCrashes

\* No episode gets ahead of another by more than one minibatch, and unless the KL
\* ended the step early each was used ppo_epochs times.
EvenUse ==
  /\ pc \in {"batch", "verdict"} =>
       \A i \in DOMAIN buffer : seen[i] = pass - IF i \in left THEN 1 ELSE 0
  /\ pc = "tail" /\ ~over => \A i \in DOMAIN buffer : seen[i] = Passes

\* A minibatch holds episodes of the last rollout only, none twice, all written by
\* the same weights: whatever an earlier step, or a fit that raised in the middle
\* of its passes, left in the buffer is not learned from (ppo.py:339).  Within a
\* pass each episode is used once, and none gets ahead of another.
OnPolicy ==
  /\ TypeOK /\ EvenUse
  /\ pc = "verdict" =>
       /\ \A r \in batch : r.ep.roll = rolls
       /\ \A r, s \in batch : r.ep.by = s.ep.by
       /\ Cardinality(batch) = Cardinality({r.ep : r \in batch})

\* However the permutations fall and whatever the buffer dropped, an episode is
\* learned from with the advantage computed for it, over a baseline of the weights
\* that wrote it: no update of the same step has moved the value head in between.
OwnAdvantage ==
  pc = "verdict" /\ algo = "ppo" =>
    \A r \in batch : r.adv.of = r.ep /\ r.adv.base \in {None, r.ep.by}

\* The loss sees reference log-probabilities when the objective of this fit has a
\* KL term and only then; they are of this minibatch, and of the weights the fit
\* began with or, with lora_base_as_ref, of the base weights, however often the
\* trainer was fitted before and whatever it was resumed from (ppo.py:213, 411).
KLOfThisFit ==
  pc = "verdict" =>
    IF kl THEN /\ lpref # None
               /\ lpref.by = (IF lora THEN Base ELSE began)
               /\ lpref.of = {r.ep : r \in batch}
          ELSE lpref = None

==============================================================================
