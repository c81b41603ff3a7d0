----------------------------- MODULE TwoPassRule -----------------------------
(***************************************************************************)
(* SAMUpdateRule.step and MeZOUpdateRule.step: rules that move the weights *)
(* away along a direction, evaluate the batch there and move them back.    *)
(* SAM takes the direction from the gradients of an accumulation window    *)
(* and steps with the gradient found at the far end; MeZO draws it from a  *)
(* seed and steps along it by the difference of two losses.                *)
(*                                                                         *)
(* The batch of a step is the step's number, and so is the direction it    *)
(* moves along.  The weights are what they learned and how far they are    *)
(* displaced along each direction.  A step may raise wherever it runs the  *)
(* model or dispatches an event; the trainer may then be fitted again.     *)
(***************************************************************************)
EXTENDS Integers, FiniteSets

CONSTANTS
  Rules,        \* the rules looked at: "sam", "mezo"
  Accumulate,   \* accumulate_grad_batches of SAM
  MaxStep       \* bound: steps of the run, those that raise included

ASSUME TwoPassAssumption ==
  /\ Rules \subseteq {"sam", "mezo"}
  /\ Accumulate \in Nat \ {0} /\ MaxStep \in Nat \ {0}

Batches == 1..MaxStep

VARIABLES
  rule,      \* the rule of this run
  phase,     \* "begin", "verdict", "backward", "plus", "minus", "second",
             \* "update", "stepped", "learn" or "end"
  step,      \* the batch at hand
  offset,    \* how far the weights are displaced along each direction
  left,      \* history: the displacement steps that raised left behind
  grads,     \* p.grad: the batches in it and the displacement each was taken at
  losses,    \* MeZO's losses of the step: displacements they were taken at
  micro,     \* _micro_step
  applied    \* history: the batches in the weights

twoPassVars == <<rule, phase, step, offset, left, grads, losses, micro, applied>>

Still == [d \in Batches |-> 0]
Sample == [batch : Batches, at : [Batches -> -1..1]]

TwoPassInit ==
  /\ rule \in Rules
  /\ phase = "begin" /\ step = 1 /\ offset = Still /\ left = Still
  /\ grads = {} /\ losses = {} /\ micro = 0 /\ applied = {}

\* The displacement after a move by n along the direction of this step.
Moved(n) == [offset EXCEPT ![step] = @ + n]
Here == [batch |-> step, at |-> offset]

Goto(label) == phase' = label /\ UNCHANGED <<rule, step, left>>
NextStep == step' = step + 1 /\ phase' = "begin" /\ UNCHANGED <<rule, left>>
------------------------------------------------------------------------------
\* SAM, pass 1: on_step_begin, forward pass and loss.
SamForward ==
  /\ rule = "sam" /\ phase = "begin" /\ step <= MaxStep
  /\ Goto("verdict") /\ UNCHANGED <<offset, grads, losses, micro, applied>>

\* What on_loss_computed answers: skip, stop and retry, which is taken for a skip,
\* all give the batch up with the gradients of its window.
SamSkip ==
  /\ phase = "verdict" /\ grads' = {} /\ micro' = 0
  /\ Goto("end") /\ UNCHANGED <<offset, losses, applied>>

\* The backward pass of pass 1, and whether the window is complete.
SamBackward ==
  /\ phase = "verdict"
  /\ grads' = grads \cup {Here} /\ micro' = micro + 1
  /\ Goto(IF (micro' % Accumulate) # 0 THEN "end" ELSE "backward")
  /\ UNCHANGED <<offset, losses, applied>>

\* Mutant: the gradients of pass 1 are not cleared.
SamPerturbKeepsGrads ==
  /\ phase = "backward" /\ offset' = Moved(1)
  /\ Goto("second") /\ UNCHANGED <<grads, losses, micro, applied>>

\* _compute_perturbation() from the gradients of the window, which are cleared.
SamPerturb ==
  /\ phase = "backward" /\ offset' = Moved(1) /\ grads' = {}
  /\ Goto("second") /\ UNCHANGED <<losses, micro, applied>>

\* Pass 2 and _restore().
SamSecond ==
  /\ phase = "second"
  /\ grads' = grads \cup {Here} /\ offset' = Moved(-1)
  /\ Goto("update") /\ UNCHANGED <<losses, micro, applied>>

\* Clip and optimizer.step(); on_optimizer_step_post, which may raise, is next.
SamUpdate ==
  /\ phase = "update"
  /\ applied' = applied \cup {g.batch : g \in grads}
  /\ Goto("stepped") /\ UNCHANGED <<offset, grads, losses, micro>>

\* zero_grad(); the scheduler's hook and on_step_end may still raise.
SamClear ==
  /\ phase = "stepped" /\ grads' = {}
  /\ Goto("end") /\ UNCHANGED <<offset, losses, micro, applied>>
------------------------------------------------------------------------------
\* MeZO: _perturb(+1) and the loss there.
MezoPlus ==
  /\ rule = "mezo" /\ phase = "begin" /\ step <= MaxStep
  /\ offset' = Moved(1) /\ losses' = {}
  /\ Goto("plus") /\ UNCHANGED <<grads, micro, applied>>

\* Mutant: the second move only undoes the first.
MezoMinusOnce ==
  /\ phase = "plus"
  /\ losses' = losses \cup {Here} /\ offset' = Moved(-1)
  /\ Goto("minus") /\ UNCHANGED <<grads, micro, applied>>

\* The loss at the plus end; _perturb(-2).
MezoMinus ==
  /\ phase = "plus"
  /\ losses' = losses \cup {Here} /\ offset' = Moved(-2)
  /\ Goto("minus") /\ UNCHANGED <<grads, micro, applied>>

\* The loss at the minus end; _perturb(+1).
MezoRestore ==
  /\ phase = "minus"
  /\ losses' = losses \cup {Here} /\ offset' = Moved(1)
  /\ Goto("learn") /\ UNCHANGED <<grads, micro, applied>>

\* on_forward_post, then _apply_update() with the difference of the losses.
MezoLearn ==
  /\ phase = "learn"
  /\ applied' = applied \cup {l.batch : l \in losses}
  /\ Goto("end") /\ UNCHANGED <<offset, grads, losses, micro>>
------------------------------------------------------------------------------
\* on_step_end, and the trainer goes on to the next batch.
StepEnd ==
  /\ phase = "end" /\ NextStep
  /\ UNCHANGED <<offset, grads, losses, micro, applied>>

\* A model, a loss, a critical callback raises out of step() and fit(), possibly
\* after a backward pass has written its gradient; nothing is put back.  A later
\* fit starts with the next batch from what is in memory.
Interrupt ==
  /\ phase # "begin" /\ left' = offset
  /\ \/ UNCHANGED grads
     \/ phase \in {"verdict", "second"} /\ grads' = grads \cup {Here}
  /\ step' = step + 1 /\ phase' = "begin"
  /\ UNCHANGED <<rule, offset, losses, micro, applied>>

TwoPassNext ==
  \/ SamForward \/ SamSkip \/ SamBackward \/ SamPerturb \/ SamSecond \/ SamUpdate
  \/ SamClear
  \/ MezoPlus \/ MezoMinus \/ MezoRestore \/ MezoLearn
  \/ StepEnd \/ Interrupt

TwoPassSpec == TwoPassInit /\ [][TwoPassNext]_twoPassVars
------------------------------------------------------------------------------
TwoPassTypeOK ==
  /\ rule \in Rules
  /\ phase \in {"begin", "verdict", "backward", "plus", "minus", "second",
                "update", "stepped", "learn", "end"}
  /\ step \in 1..MaxStep + 1 /\ (phase # "begin" => step \in Batches)
  /\ offset \in [Batches -> -1..1] /\ left \in [Batches -> -1..1]
  /\ grads \subseteq Sample /\ losses \subseteq Sample
  /\ micro \in 0..MaxStep /\ applied \subseteq Batches

\* Whenever the optimizer or an update moves the weights, and at the end of a step,
\* they are displaced by nothing but what steps that raised have left: a step that
\* is not interrupted puts back exactly the moves it made (sam.py:234,
\* mezo.py:161).
LeavesAsFound ==
  phase \in {"begin", "verdict", "update", "stepped", "learn", "end"} => offset = left

FarSide(n) == [batch |-> step, at |-> [left EXCEPT ![step] = @ + n]]

\* SAM steps with the gradient of this batch at the far end of this step's
\* direction, and with none that was taken anywhere else, whatever gradients a
\* window, a skip or a step that raised left in p.grad (sam.py:10 to 13); MeZO with
\* the losses of this batch at both ends of its direction.  Whether the other
\* batches of the window take part in SAM's update, as the module's docstring has
\* it (sam.py:16), is left open: the code gives them up (sam.py:224).
UpdateUsesFarSide ==
  /\ phase = "update" =>
       FarSide(1) \in grads /\ \A g \in grads : g.at = FarSide(1).at
  /\ phase = "learn" => losses = {FarSide(1), FarSide(-1)}
==============================================================================
