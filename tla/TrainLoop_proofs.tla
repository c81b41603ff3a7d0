---------------------------- MODULE TrainLoop_proofs ----------------------------
(***************************************************************************)
(* The training loop for every length of a run and of an epoch, schedule,  *)
(* set of metric values and number of deaths: where it is in the stream,   *)
(* what its checkpoints hold, when it stops.                               *)
(***************************************************************************)
EXTENDS TrainLoop, FiniteSetTheorems, WellFoundedInduction, TLAPS

\* A set of numbers with a bound and a member has a largest one.
LEMMA LargestExists ==
  ASSUME NEW b \in Nat, NEW S \in SUBSET (0..b), S # {}
  PROVE  \E n \in S : \A m \in S : m <= n
<1> DEFINE T == {b - n : n \in S}
           R == {ss \in Nat \X Nat : ss[1] < ss[2]}
<1>1. T \subseteq Nat /\ T # {}
  <2>1. T \subseteq Nat
    OBVIOUS
  <2>2. T # {}
    OBVIOUS
  <2> QED BY <2>1, <2>2
<1>2. IsWellFoundedOn(R, Nat)
  <2>1. OpToRel(<, Nat) = R
    BY Zenon DEF OpToRel
  <2> QED BY <2>1, NatLessThanWellFounded
<1>3. PICK x \in T : \A y \in T : ~(<<y, x>> \in R)
  <2> HIDE DEF R
  <2> QED BY <1>1, <1>2, WFMin
<1>4. PICK n \in S : x = b - n
  OBVIOUS
<1>5. ASSUME NEW m \in S PROVE m <= n
  <2>1. b - m \in T /\ <<b - m, x>> \in Nat \X Nat
    BY <1>1, <1>3
  <2>2. ~(b - m < x)
    <3>1. <<b - m, x>> \notin R
      BY <1>3, <2>1
    <3>2. <<b - m, x>>[1] = b - m /\ <<b - m, x>>[2] = x
      OBVIOUS
    <3> QED BY <2>1, <3>1, <3>2
  <2> QED BY <1>4, <2>2
<1> QED BY <1>5

\* latest() of a run with checkpoints is the newest of them.
LEMMA LatestIsLargest ==
  ASSUME Target \in Nat, Saved # {}
  PROVE  Latest \in Saved /\ \A m \in Saved : m <= Latest
<1>1. Saved \in SUBSET (0..Target)
  BY DEF Saved, Steps
<1>2. \E n \in Saved : \A m \in Saved : m <= n
  BY <1>1, LargestExists
<1> QED BY <1>2 DEF Latest

------------------------------------------------------------------------------
Up == pc # "down"

\* The counters agree with each other: between the fetch and the step counter
\* the place in the stream is one batch ahead of it.
PlaceInv ==
  Up =>
    /\ step \in Steps /\ epoch \in Nat /\ batch \in 0..PerEpoch /\ pos = batch
    /\ epoch * PerEpoch + batch = IF pc \in {"step", "after"} THEN step + 1 ELSE step
    /\ pc \in {"step", "after"} => step < Target

\* A checkpoint of step n is of place n of the stream.
PlaceOf(k, n) == k \in Snapshots /\ k.epoch * PerEpoch + k.batch = n

CkptInv ==
  /\ ckpts = [n \in Steps |-> ckpts[n]]
  /\ \A n \in Saved : PlaceOf(ckpts[n], n)

LearnedInv ==
  applied \subseteq Numbers /\ pending \subseteq Numbers /\ dropped \subseteq Numbers

\* No checkpoint is ahead of the run; one that is due is there, with the weights.
SavedInv ==
  Up =>
    /\ \A n \in Saved : n <= step
    /\ pc \in {"best", "fetch"} /\ step > 0 /\ Due(CkptEvery) =>
         step \in Saved /\ ckpts[step].applied = applied
    /\ pc = "done" /\ step > 0 => step \in Saved /\ ckpts[step].applied = applied

\* Who asked for a stop that counts has set the flag.
StopInv == Up /\ asked \cap {"loss", "batch_end"} # {} => stop

IInv ==
  /\ pc \in {"fetch", "step", "after", "eval", "save", "best", "done", "down"}
  /\ PlaceInv /\ CkptInv /\ LearnedInv /\ SavedInv /\ StopInv

\* The invariant holds at the start.
LEMMA InitIInv == Init => IInv
<1> SUFFICES ASSUME Init PROVE IInv
  OBVIOUS
<1>1. 0 \in Steps /\ 0 * PerEpoch + 0 = 0 /\ 0 \in 0..PerEpoch
  BY LoopAssumption DEF Steps
<1>2. Saved = {}
  BY DEF Init, Saved
<1>3. PlaceInv
  BY <1>1 DEF Init, PlaceInv
<1>4. CkptInv
  BY <1>2 DEF Init, CkptInv
<1>5. LearnedInv /\ SavedInv /\ StopInv
  BY <1>2 DEF Init, LearnedInv, SavedInv, StopInv, Learn!Init
<1> QED BY <1>3, <1>4, <1>5 DEF Init, IInv

------------------------------------------------------------------------------
\* What writing a checkpoint of this moment does to those on disk.
LEMMA SaveKeeps ==
  ASSUME IInv, pc \in {"fetch", "save", "best"}, Save
  PROVE  /\ CkptInv'
         /\ Saved' = Saved \cup {step} /\ ckpts'[step].applied = applied
<1>1. /\ step \in Steps /\ epoch \in Nat /\ batch \in 0..PerEpoch
      /\ epoch * PerEpoch + batch = step
  BY DEF IInv, PlaceInv, Up
<1>2. State \in Snapshots /\ State.epoch = epoch /\ State.batch = batch
      /\ State.applied = applied
  BY <1>1 DEF IInv, LearnedInv, State, Snapshots
<1>3. State # None
  BY <1>2, LoopAssumption
<1>4. /\ ckpts' = [n \in Steps |-> IF n = step THEN State ELSE ckpts[n]]
      /\ ckpts'[step] = State
      /\ \A n \in Steps \ {step} : ckpts'[n] = ckpts[n]
  BY <1>1 DEF Save, IInv, CkptInv
<1> HIDE DEF State
<1>5. Saved' = Saved \cup {step}
  BY <1>1, <1>3, <1>4 DEF Saved
<1>6. ASSUME NEW n \in Saved' PROVE PlaceOf(ckpts'[n], n)
  <2>1. CASE n = step
    BY <1>1, <1>2, <1>4, <2>1 DEF PlaceOf
  <2>2. CASE n # step
    BY <1>4, <1>5, <1>6, <2>2 DEF PlaceOf, IInv, CkptInv, Saved
  <2> QED BY <2>1, <2>2
<1>7. ckpts' = [n \in Steps |-> ckpts'[n]]
  BY <1>4
<1> QED
  BY <1>2, <1>4, <1>5, <1>6, <1>7 DEF CkptInv, PlaceOf

\* A batch's number is its place in the stream, and within the run.
LEMMA NumberInRange ==
  ASSUME IInv, pc = "step" PROVE Number = step /\ step \in Numbers
<1>1. /\ step \in Steps /\ epoch \in Nat /\ batch \in 0..PerEpoch /\ pos = batch
      /\ epoch * PerEpoch + batch = step + 1 /\ step < Target
  BY DEF IInv, PlaceInv, Up
<1>2. epoch * PerEpoch \in Nat
  BY <1>1, LoopAssumption
<1> QED BY <1>1, <1>2, LoopAssumption DEF Number, Numbers, Steps

\* The steps that leave counters, weights and checkpoints alone, and do not
\* enter a place where a checkpoint is due.
LEMMA StillStep ==
  ASSUME IInv, UNCHANGED <<place, grads, ckpts>>,
         \/ pc' = pc
         \/ pc = "eval" /\ pc' = "save"
         \/ pc = "best" /\ pc' = "fetch"
         \/ pc = "save" /\ pc' = "best" /\ ~Due(CkptEvery)
         \/ pc' = "down",
         StopInv'
  PROVE  IInv'
<1> USE DEF place, grads
<1>1. Saved' = Saved
  BY DEF Saved
<1>2. PlaceInv'
  BY DEF IInv, PlaceInv, Up
<1>3. CkptInv'
  BY <1>1 DEF IInv, CkptInv
<1>4. LearnedInv'
  BY DEF IInv, LearnedInv
<1>5. SavedInv'
  BY <1>1 DEF IInv, SavedInv, Up, Due
<1> QED BY <1>2, <1>3, <1>4, <1>5 DEF IInv, Up

\* A gradient step only adds this step's batch and those that were pending.
LEMMA TrainedStep ==
  ASSUME IInv, pc = "step", pc' = "after", UNCHANGED <<place, ckpts>>,
         applied' \subseteq applied \cup pending \cup {step},
         dropped' \subseteq dropped \cup pending \cup {step},
         pending' \subseteq pending \cup {step}, StopInv'
  PROVE  IInv'
<1> USE DEF place
<1>1. Saved' = Saved
  BY DEF Saved
<1>2. PlaceInv'
  BY DEF IInv, PlaceInv, Up
<1>3. CkptInv'
  BY <1>1 DEF IInv, CkptInv
<1>4. LearnedInv'
  BY NumberInRange DEF IInv, LearnedInv
<1>5. SavedInv'
  BY <1>1 DEF IInv, SavedInv, Up
<1> QED BY <1>2, <1>3, <1>4, <1>5 DEF IInv

\* A step that writes the checkpoint of this moment.
LEMMA SavingStep ==
  ASSUME IInv, Save, UNCHANGED <<place, grads, stop, asked>>,
         \/ pc = "save" /\ pc' = "best"
         \/ pc = "best" /\ pc' = "fetch"
         \/ pc = "fetch" /\ pc' = "done"
  PROVE  IInv'
<1> USE DEF place, grads
<1>1. CkptInv' /\ Saved' = Saved \cup {step} /\ ckpts'[step].applied = applied
  BY SaveKeeps
<1>2. PlaceInv'
  BY DEF IInv, PlaceInv, Up
<1>3. step \in Nat
  BY LoopAssumption DEF IInv, PlaceInv, Up, Steps
<1>4. SavedInv'
  BY <1>1, <1>3 DEF IInv, SavedInv, Up
<1> QED BY <1>1, <1>2, <1>4 DEF IInv, LearnedInv, StopInv, Up

\* A restart from a checkpoint that is the newest, or from the start without any.
LEMMA RestartStep ==
  ASSUME IInv, Resume \/ Rerun
  PROVE  IInv'
<1>1. /\ pc' = "fetch" /\ stop' = FALSE /\ asked' = {} /\ pending' = {}
      /\ UNCHANGED ckpts /\ pos' = batch'
  BY DEF Resume, Rerun, RestartAt, disk
<1>2. Saved' = Saved /\ CkptInv'
  BY <1>1 DEF IInv, CkptInv, Saved
<1>3. StopInv'
  BY <1>1 DEF StopInv
<1>4. CASE Resume
  <2>1. /\ Saved # {} /\ step' = Latest
        /\ epoch' = ckpts[Latest].epoch /\ batch' = ckpts[Latest].batch
        /\ applied' = ckpts[Latest].applied /\ dropped' = ckpts[Latest].dropped
    BY <1>4 DEF Resume, RestartAt
  <2>2. Latest \in Saved /\ \A m \in Saved : m <= Latest
    BY <2>1, LatestIsLargest, LoopAssumption
  <2>3. PlaceOf(ckpts[Latest], Latest)
    BY <2>2 DEF IInv, CkptInv
  <2>4. PlaceInv' /\ LearnedInv'
    BY <1>1, <2>1, <2>2, <2>3 DEF PlaceInv, LearnedInv, PlaceOf, Snapshots, Saved
  <2>5. SavedInv'
    BY <1>1, <1>2, <2>1, <2>2 DEF SavedInv
  <2> QED BY <1>1, <1>2, <1>3, <2>4, <2>5 DEF IInv
<1>5. CASE Rerun
  <2>1. /\ Saved = {} /\ step' = 0 /\ epoch' = 0 /\ batch' = 0 /\ applied' = {}
        /\ dropped' = {}
    BY <1>5 DEF Rerun, RestartAt
  <2>2. 0 \in Steps /\ 0 * PerEpoch + 0 = 0 /\ 0 \in 0..PerEpoch
    BY LoopAssumption DEF Steps
  <2>3. PlaceInv' /\ LearnedInv'
    BY <1>1, <2>1, <2>2 DEF PlaceInv, LearnedInv
  <2>4. SavedInv'
    BY <1>1, <1>2, <2>1 DEF SavedInv
  <2> QED BY <1>1, <1>2, <1>3, <2>3, <2>4 DEF IInv
<1> QED BY <1>4, <1>5

\* The head of the loop takes a batch.
LEMMA FetchStep ==
  ASSUME IInv, Fetch
  PROVE  IInv'
<1>1. /\ pc = "fetch" /\ step < Target /\ ~stop /\ pc' = "step"
      /\ UNCHANGED <<step, stop, grads, ckpts, asked>>
  BY DEF Fetch, disk
<1>2. /\ step \in Steps /\ epoch \in Nat /\ batch \in 0..PerEpoch /\ pos = batch
      /\ epoch * PerEpoch + batch = step
  BY <1>1 DEF IInv, PlaceInv, Up
<1>3. /\ epoch' \in Nat /\ batch' \in 0..PerEpoch /\ pos' = batch'
      /\ epoch' * PerEpoch + batch' = step + 1
  <2>1. CASE pos < PerEpoch
    BY <1>2, <2>1, LoopAssumption DEF Fetch
  <2>2. CASE ~(pos < PerEpoch)
    <3>1. epoch' = epoch + 1 /\ pos' = 1 /\ batch' = 1 /\ batch = PerEpoch
      BY <1>2, <2>2, LoopAssumption DEF Fetch
    <3>2. (epoch + 1) * PerEpoch = epoch * PerEpoch + PerEpoch
      BY <1>2, LoopAssumption
    <3>3. epoch * PerEpoch \in Nat
      BY <1>2, LoopAssumption
    <3> QED BY <1>2, <3>1, <3>2, <3>3, LoopAssumption
  <2> QED BY <2>1, <2>2
<1>4. PlaceInv'
  BY <1>1, <1>2, <1>3 DEF PlaceInv
<1>5. Saved' = Saved /\ CkptInv'
  BY <1>1 DEF IInv, CkptInv, Saved
<1>6. SavedInv' /\ StopInv' /\ LearnedInv'
  BY <1>1, <1>5 DEF IInv, SavedInv, StopInv, LearnedInv, Up, grads
<1> QED BY <1>1, <1>4, <1>5, <1>6 DEF IInv

\* The step counter moves on.
LEMMA CountStep ==
  ASSUME IInv, AfterStep
  PROVE  IInv'
<1>1. /\ pc = "after" /\ pc' = "eval" /\ step' = step + 1
      /\ UNCHANGED <<epoch, batch, pos, grads, ckpts>>
  BY DEF AfterStep, disk
<1>2. PlaceInv'
  BY <1>1, LoopAssumption DEF IInv, PlaceInv, Up, Steps
<1>3. Saved' = Saved /\ CkptInv'
  BY <1>1 DEF IInv, CkptInv, Saved
<1>4. StopInv'
  BY <1>1 DEF AfterStep, IInv, StopInv, Up
<1>5. step \in Nat /\ Saved \subseteq Nat
  BY <1>1, LoopAssumption DEF IInv, PlaceInv, Up, Steps, Saved
<1>6. SavedInv'
  BY <1>1, <1>3, <1>5 DEF IInv, SavedInv, Up
<1> QED BY <1>1, <1>2, <1>3, <1>4, <1>6 DEF IInv, LearnedInv, grads

\* A gradient step of TrainStep, its callbacks' requests included.
LEMMA GradientStep ==
  ASSUME IInv, NEW v \in Values, Learned(v) \/ StoppedOnLoss(v)
  PROVE  IInv'
<1>1. pc = "step" /\ pc' = "after" /\ UNCHANGED <<place, ckpts>>
  BY DEF Learned, StoppedOnLoss, disk
<1>2. Number = step
  BY <1>1, NumberInRange
<1>3. /\ applied' \subseteq applied \cup pending \cup {step}
      /\ dropped' \subseteq dropped \cup pending \cup {step}
      /\ pending' \subseteq pending \cup {step}
  BY <1>2 DEF Learned, StoppedOnLoss, Learn!Wait, Learn!Apply, Learn!Drop
<1>4. StopFileAsks \cap {"loss", "batch_end"} = {}
  BY DEF StopFileAsks
<1>5. StopInv'
  BY <1>1, <1>4 DEF Learned, StoppedOnLoss, IInv, StopInv, Up
<1> QED BY <1>1, <1>3, <1>5, TrainedStep

\* The end of the loop, with or without a save of its own.
LEMMA FinishStep ==
  ASSUME IInv, Finish
  PROVE  IInv'
<1>1. /\ pc = "fetch" /\ pc' = "done" /\ UNCHANGED <<place, grads, stop, asked>>
  BY DEF Finish
<1>2. CASE Due(CkptEvery)
  <2>1. UNCHANGED ckpts
    BY <1>2 DEF Finish
  <2>2. Saved' = Saved /\ CkptInv'
    BY <2>1 DEF IInv, CkptInv, Saved
  <2>3. SavedInv'
    BY <1>1, <1>2, <2>1, <2>2 DEF IInv, SavedInv, Up, place, grads
  <2>4. PlaceInv' /\ LearnedInv' /\ StopInv'
    BY <1>1 DEF IInv, PlaceInv, LearnedInv, StopInv, Up, place, grads
  <2> QED BY <1>1, <2>2, <2>3, <2>4 DEF IInv
<1>3. CASE ~Due(CkptEvery)
  <2>1. Save
    BY <1>3 DEF Finish
  <2> QED BY <1>1, <2>1, SavingStep
<1> QED BY <1>2, <1>3

\* Every step keeps the invariant.
LEMMA StepIInv == IInv /\ [Next]_vars => IInv'
<1> SUFFICES ASSUME IInv, [Next]_vars PROVE IInv'
  OBVIOUS
<1> USE DEF disk
<1>1. ASSUME NEW f \in Controls, Touch(f) PROVE IInv'
  <2>1. StopInv'
    BY <1>1 DEF Touch, IInv, StopInv, Up
  <2> QED BY <1>1, <2>1, StillStep DEF Touch
<1>2. CASE Fetch
  BY <1>2, FetchStep
<1>3. ASSUME NEW v \in Values, Learned(v) \/ StoppedOnLoss(v) PROVE IInv'
  BY <1>3, GradientStep
<1>4. ASSUME NEW v \in Values, Eval(v) PROVE IInv'
  <2>1. asked' \subseteq asked \cup {"early_stop"} /\ pc = "eval" /\ UNCHANGED stop
    BY <1>4 DEF Eval, CheckStop
  <2>2. StopInv'
    BY <2>1 DEF IInv, StopInv, Up
  <2> QED BY <1>4, <2>2, StillStep DEF Eval
<1>5. CASE AfterStep
  BY <1>5, CountStep
<1>6. CASE NoEval
  <2>1. StopInv'
    BY <1>6 DEF NoEval, IInv, StopInv, Up
  <2> QED BY <1>6, <2>1, StillStep DEF NoEval
<1>7. CASE MaybeSave
  <2>1. pc = "save" /\ pc' = "best" /\ UNCHANGED <<place, grads, stop, asked>>
    BY <1>7 DEF MaybeSave
  <2>2. StopInv'
    BY <2>1 DEF IInv, StopInv, Up
  <2>3. CASE Due(CkptEvery)
    BY <1>7, <2>1, <2>3, SavingStep DEF MaybeSave
  <2>4. CASE ~Due(CkptEvery)
    BY <1>7, <2>1, <2>2, <2>4, StillStep DEF MaybeSave
  <2> QED BY <2>3, <2>4
<1>8. CASE MaybeSaveBest
  <2>1. pc = "best" /\ pc' = "fetch" /\ UNCHANGED <<place, grads, stop, asked>>
    BY <1>8 DEF MaybeSaveBest
  <2>2. StopInv'
    BY <2>1 DEF IInv, StopInv, Up
  <2>3. Save \/ UNCHANGED ckpts
    BY <1>8 DEF MaybeSaveBest
  <2> QED BY <2>1, <2>2, <2>3, SavingStep, StillStep
<1>9. CASE Finish
  BY <1>9, FinishStep
<1>10. CASE Crash
  <2>1. StopInv'
    BY <1>10 DEF Crash, StopInv, Up
  <2> QED BY <1>10, <2>1, StillStep DEF Crash
<1>11. CASE Resume \/ Rerun
  BY <1>11, RestartStep
<1>12. CASE UNCHANGED vars
  <2>1. StopInv'
    BY <1>12 DEF vars, IInv, StopInv, Up
  <2> QED BY <1>12, <2>1, StillStep DEF vars, place, grads
<1> QED
  BY <1>1, <1>2, <1>3, <1>4, <1>5, <1>6, <1>7, <1>8, <1>9, <1>10, <1>11, <1>12
  DEF Next

------------------------------------------------------------------------------
\* The invariant holds in every behaviour.
LEMMA Invariance == Spec => []IInv
<1>1. Init => IInv
  BY InitIInv
<1>2. IInv /\ [Next]_vars => IInv'
  BY StepIInv
<1> QED BY <1>1, <1>2, PTL DEF Spec

\* A run that ends by itself has saved its last step, for every length of the
\* run and every checkpoint interval.
THEOREM EndSaved == Spec => []EndIsSaved
<1>1. IInv => EndIsSaved
  <2> SUFFICES ASSUME IInv, pc = "done", step > 0
               PROVE  /\ ckpts[step] # None /\ ckpts[step].applied = applied
                      /\ Latest = step
    BY DEF EndIsSaved
  <2>1. /\ step \in Saved /\ ckpts[step].applied = applied
        /\ \A n \in Saved : n <= step
    BY DEF IInv, SavedInv, Up
  <2>2. Latest \in Saved /\ step <= Latest
    BY <2>1, LatestIsLargest, LoopAssumption
  <2>3. Latest = step
    BY <2>1, <2>2, LoopAssumption DEF Saved, Steps
  <2> QED BY <2>1, <2>3 DEF Saved
<1> QED BY <1>1, Invariance, PTL

\* A stop asked for where the loop reads the answer ends it before the next
\* batch, through every crash and resume.
THEOREM StopsAreHonoured == Spec => StopHonoured
<1>1. IInv /\ [Next]_vars =>
        [pc = "fetch" /\ pc' = "step" => asked \cap {"loss", "batch_end"} = {}]_vars
  <2> SUFFICES ASSUME IInv, Next, pc = "fetch", pc' = "step"
               PROVE  asked \cap {"loss", "batch_end"} = {}
    OBVIOUS
  <2>1. Fetch
    BY DEF Next, Touch, Learned, StoppedOnLoss, Eval, AfterStep, NoEval, MaybeSave,
           MaybeSaveBest, Finish, Crash, Resume, Rerun, RestartAt
  <2> QED BY <2>1 DEF Fetch, IInv, StopInv, Up
<1> QED BY <1>1, Invariance, PTL DEF Spec, StopHonoured

------------------------------------------------------------------------------
(***************************************************************************)
(* Every batch once.  What a resume loses is what was pending when its     *)
(* checkpoint was saved; a checkpoint remembers the losses before it, so   *)
(* the bound for a checkpoint is the one after the next death.             *)
(***************************************************************************)
Missing(a, p, d, n) == (0..n - 1) \ (a \cup p \cup d)

\* The first n batches of the stream, told apart by what became of them, with at
\* most as many missing as so many deaths may cost.
Accounted(a, p, d, n, deaths) ==
  /\ a \cup p \cup d \subseteq 0..n - 1
  /\ a \cap p = {} /\ a \cap d = {} /\ p \cap d = {}
  /\ Cardinality(Missing(a, p, d, n)) <= (Accumulate - 1) * deaths

\* How many batches the run has had.
Had == IF pc = "after" THEN step + 1 ELSE step

OnceInv ==
  /\ crashes \in Nat
  /\ Up => /\ Accounted(applied, pending, dropped, Had, crashes)
           /\ Cardinality(pending) <= Accumulate - 1
  /\ \A n \in Saved : Accounted(ckpts[n].applied, {}, ckpts[n].dropped, n,
                                IF Up THEN crashes + 1 ELSE crashes)

\* One death more may cost one more group short of a batch.
LEMMA DeathCosts ==
  ASSUME NEW deaths \in Nat
  PROVE  /\ (Accumulate - 1) * deaths \in Nat
         /\ (Accumulate - 1) * (deaths + 1) = (Accumulate - 1) * deaths + (Accumulate - 1)
         /\ Accumulate - 1 \in Nat
<1>1. Accumulate - 1 \in Nat
  BY LoopAssumption
<1> DEFINE g == Accumulate - 1
<1>2. g \in Nat
  BY <1>1
<1> HIDE DEF g
<1>3. g * deaths \in Nat /\ g * (deaths + 1) = g * deaths + g
  BY <1>2
<1> QED
  BY <1>1, <1>3 DEF g

\* Some of the first n batches are finitely many, and nothing of nothing is.
LEMMA PartIsFinite ==
  ASSUME NEW n \in Int, NEW S, S \subseteq 0..n - 1
  PROVE  IsFiniteSet(S) /\ Cardinality(S) \in Nat
<1>1. IsFiniteSet(0..n - 1)
  BY FS_Interval
<1> QED
  BY <1>1, FS_Subset, FS_CardinalityType

LEMMA NoneIsNone == Cardinality({}) = 0
BY FS_EmptySet

\* A checkpoint of this moment forgets what is pending, and a death allows for it.
LEMMA StateIsAccounted ==
  ASSUME IInv, OnceInv, pc \in {"fetch", "save", "best"}
  PROVE  Accounted(State.applied, {}, State.dropped, step, crashes + 1)
<1>1. step \in Nat
  BY LoopAssumption DEF IInv, PlaceInv, Up, Steps
<1>2. /\ Accounted(applied, pending, dropped, step, crashes)
      /\ Cardinality(pending) <= Accumulate - 1 /\ crashes \in Nat
  BY DEF OnceInv, Up, Had
<1> DEFINE M == Missing(applied, pending, dropped, step)
           N == Missing(applied, {}, dropped, step)
<1>3. pending \subseteq 0..step - 1 /\ M \subseteq 0..step - 1 /\ N = M \cup pending
  BY <1>2 DEF Accounted, Missing
<1>4. Cardinality(M) <= (Accumulate - 1) * crashes
  BY <1>2 DEF Accounted
<1> HIDE DEF M, N
<1>5. /\ IsFiniteSet(M) /\ IsFiniteSet(pending)
      /\ Cardinality(M) \in Nat /\ Cardinality(pending) \in Nat
      /\ Cardinality(M \cap pending) \in Nat
  <2>1. step \in Int /\ M \cap pending \subseteq 0..step - 1
    BY <1>1, <1>3
  <2>2. IsFiniteSet(M) /\ Cardinality(M) \in Nat
    BY <1>3, <2>1, PartIsFinite
  <2>3. IsFiniteSet(pending) /\ Cardinality(pending) \in Nat
    BY <1>3, <2>1, PartIsFinite
  <2>4. Cardinality(M \cap pending) \in Nat
    BY <2>1, PartIsFinite
  <2> QED
    BY <2>2, <2>3, <2>4
<1>6. Cardinality(N) = Cardinality(M) + Cardinality(pending) - Cardinality(M \cap pending)
  BY <1>3, <1>5, FS_Union
<1>7. Cardinality(N) <= (Accumulate - 1) * (crashes + 1)
  <2>1. /\ (Accumulate - 1) * crashes \in Nat /\ Accumulate - 1 \in Nat
        /\ (Accumulate - 1) * (crashes + 1) = (Accumulate - 1) * crashes + (Accumulate - 1)
    BY <1>2, DeathCosts
  <2> QED
    BY <1>2, <1>4, <1>5, <1>6, <2>1
<1>8. State.applied = applied /\ State.dropped = dropped
  BY DEF State
<1> QED
  BY <1>2, <1>7, <1>8 DEF Accounted, N

\* Steps that learn nothing and save at most the checkpoint of this moment.
LEMMA OnceStill ==
  ASSUME IInv, OnceInv, UNCHANGED <<grads, crashes>>,
         \/ UNCHANGED ckpts
         \/ pc \in {"fetch", "save", "best"} /\ Save,
         Up => Had' = Had,
         Up' <=> Up
  PROVE  OnceInv'
<1>1. Up' => Accounted(applied', pending', dropped', Had', crashes')
             /\ Cardinality(pending') <= Accumulate - 1
  BY DEF OnceInv, grads
<1>2. CASE UNCHANGED ckpts
  BY <1>1, <1>2 DEF OnceInv, Saved
<1>3. CASE pc \in {"fetch", "save", "best"} /\ Save
  <2>1. /\ Saved' = Saved \cup {step}
        /\ ckpts' = [ckpts EXCEPT ![step] = State]
    BY <1>3, SaveKeeps DEF Save
  <2>2. /\ step \in Steps /\ ckpts = [n \in Steps |-> ckpts[n]]
    BY <1>3 DEF IInv, PlaceInv, CkptInv, Up
  <2>3. ckpts'[step] = State /\ \A n \in Saved \ {step} : ckpts'[n] = ckpts[n]
    BY <2>1, <2>2 DEF Saved
  <2>4. Accounted(State.applied, {}, State.dropped, step, crashes + 1)
    BY <1>3, StateIsAccounted
  <2>5. Up
    BY <1>3 DEF Up
  <2> HIDE DEF State
  <2>6. ASSUME NEW n \in Saved'
        PROVE  Accounted(ckpts'[n].applied, {}, ckpts'[n].dropped, n, crashes' + 1)
    BY <2>1, <2>3, <2>4, <2>5 DEF OnceInv
  <2> QED BY <1>1, <2>5, <2>6 DEF OnceInv
<1> QED BY <1>2, <1>3

\* A gradient step puts its batch, which is new, with the ones that are accounted for.
LEMMA OnceTrained ==
  ASSUME IInv, OnceInv, NEW v \in Values, Learned(v) \/ StoppedOnLoss(v)
  PROVE  OnceInv'
<1>1. pc = "step" /\ pc' = "after" /\ UNCHANGED <<step, ckpts, crashes>>
  BY DEF Learned, StoppedOnLoss, disk, place
<1>2. Number = step /\ step \in Nat
  BY <1>1, NumberInRange, LoopAssumption DEF Numbers
<1>3. /\ Accounted(applied, pending, dropped, step, crashes)
      /\ Cardinality(pending) <= Accumulate - 1
  BY <1>1 DEF OnceInv, Up, Had
<1>4. Learn!Cardinality(pending) = Cardinality(pending)
  BY Zenon DEF Cardinality, Learn!Cardinality
<1>5. pending \subseteq 0..step - 1 /\ step \notin 0..step - 1 /\ step \in Int
  BY <1>2, <1>3 DEF Accounted
<1>6. Cardinality(pending) \in Nat /\ Cardinality(pending \cup {step}) = Cardinality(pending) + 1
  <2>1. IsFiniteSet(pending) /\ Cardinality(pending) \in Nat
    BY <1>5, PartIsFinite
  <2>2. step \notin pending
    BY <1>5
  <2> QED
    BY <2>1, <2>2, FS_AddElement
<1>7. CASE Learn!Wait(step)
  <2>1. /\ pending' = pending \cup {step} /\ applied' = applied /\ dropped' = dropped
        /\ Cardinality(pending) + 1 < Accumulate
    BY <1>4, <1>7 DEF Learn!Wait
  <2>2. 0..step + 1 - 1 = (0..step - 1) \cup {step}
    BY <1>2
  <2>3. Missing(applied', pending', dropped', step + 1) = Missing(applied, pending, dropped, step)
    BY <1>5, <2>1, <2>2 DEF Missing
  <2>4. Accounted(applied', pending', dropped', step + 1, crashes)
    BY <1>3, <1>5, <2>1, <2>2, <2>3 DEF Accounted
  <2>5. Cardinality(pending') <= Accumulate - 1
    BY <1>6, <2>1, LoopAssumption
  <2> QED
    BY <1>1, <2>4, <2>5 DEF OnceInv, Up, Had, Saved
<1>8. ASSUME pending' = {},
             \/ applied' = applied \cup pending \cup {step} /\ dropped' = dropped
             \/ dropped' = dropped \cup pending \cup {step} /\ applied' = applied
      PROVE  OnceInv'
  <2>1. 0..step + 1 - 1 = (0..step - 1) \cup {step}
    BY <1>2
  <2>2. /\ applied' \cup pending' \cup dropped' = applied \cup pending \cup dropped \cup {step}
        /\ applied' \cap dropped' = {}
    BY <1>3, <1>5, <1>8 DEF Accounted
  <2>3. Missing(applied', pending', dropped', step + 1) = Missing(applied, pending, dropped, step)
    BY <1>5, <2>1, <2>2 DEF Missing
  <2>4. Accounted(applied', pending', dropped', step + 1, crashes)
    BY <1>3, <1>8, <2>1, <2>2, <2>3 DEF Accounted
  <2>5. Cardinality(pending') <= Accumulate - 1
    BY <1>8, NoneIsNone, LoopAssumption
  <2> QED
    BY <1>1, <2>4, <2>5 DEF OnceInv, Up, Had, Saved
<1> QED
  BY <1>2, <1>7, <1>8 DEF Learned, StoppedOnLoss, Learn!Apply, Learn!Drop

\* A restart goes back to what its checkpoint accounts for.
LEMMA OnceRestarted ==
  ASSUME IInv, OnceInv, Resume \/ Rerun
  PROVE  OnceInv'
<1> USE DEF disk, place
<1>1. /\ pc = "down" /\ pc' = "fetch" /\ pending' = {} /\ Saved' = Saved
      /\ UNCHANGED <<ckpts, crashes>> /\ crashes \in Nat
  BY DEF Resume, Rerun, RestartAt, Saved, OnceInv
<1>2. Accounted(applied', {}, dropped', step', crashes)
  <2>1. CASE Resume
    <3>1. Latest \in Saved
      BY <2>1, LatestIsLargest, LoopAssumption DEF Resume
    <3> QED BY <1>1, <2>1, <3>1 DEF Resume, RestartAt, OnceInv, Up
  <2>2. CASE Rerun
    <3>1. applied' = {} /\ dropped' = {} /\ step' = 0
      BY <2>2 DEF Rerun, RestartAt
    <3>2. Missing({}, {}, {}, 0) = {}
      BY DEF Missing
    <3>3. 0 <= (Accumulate - 1) * crashes
      BY <1>1, DeathCosts
    <3> QED BY <3>1, <3>2, <3>3, NoneIsNone DEF Accounted
  <2> QED BY <2>1, <2>2
<1>3. \A n \in Saved : Accounted(ckpts[n].applied, {}, ckpts[n].dropped, n, crashes + 1)
  <2>1. /\ (Accumulate - 1) * crashes \in Nat /\ Accumulate - 1 \in Nat
        /\ (Accumulate - 1) * (crashes + 1) = (Accumulate - 1) * crashes + (Accumulate - 1)
    BY <1>1, DeathCosts
  <2> SUFFICES ASSUME NEW n \in Saved
               PROVE  Accounted(ckpts[n].applied, {}, ckpts[n].dropped, n, crashes + 1)
    OBVIOUS
  <2>2. Accounted(ckpts[n].applied, {}, ckpts[n].dropped, n, crashes)
    BY <1>1 DEF OnceInv, Up
  <2>3. Cardinality(Missing(ckpts[n].applied, {}, ckpts[n].dropped, n)) \in Nat
    BY PartIsFinite, LoopAssumption DEF Missing, Saved, Steps
  <2> QED
    BY <2>1, <2>2, <2>3 DEF Accounted
<1>4. Cardinality(pending') <= Accumulate - 1
  BY <1>1, NoneIsNone, LoopAssumption
<1> QED BY <1>1, <1>2, <1>3, <1>4 DEF OnceInv, Had, Up

\* Every step keeps the account.
LEMMA StepOnceInv ==
  ASSUME IInv, OnceInv, [Next]_vars
  PROVE  OnceInv'
<1> USE DEF disk, place, Up, Had
<1>1. ASSUME NEW v \in Values, Learned(v) \/ StoppedOnLoss(v) PROVE OnceInv'
  BY <1>1, OnceTrained
<1>2. CASE Resume \/ Rerun
  BY <1>2, OnceRestarted
<1>3. CASE UNCHANGED vars
  BY <1>3, OnceStill DEF vars, grads
<1>4. ASSUME NEW f \in Controls, Touch(f) PROVE OnceInv'
  BY <1>4, OnceStill DEF Touch
<1>5. ASSUME NEW v \in Values, Eval(v) PROVE OnceInv'
  BY <1>5, OnceStill DEF Eval
<1>6. CASE Fetch \/ AfterStep \/ NoEval \/ MaybeSave
  BY <1>6, OnceStill DEF Fetch, AfterStep, NoEval, MaybeSave
<1>7. CASE MaybeSaveBest \/ Finish
  BY <1>7, OnceStill DEF MaybeSaveBest, Finish
<1>8. CASE Crash
  <2>1. pc # "down" /\ pc' = "down" /\ crashes' = crashes + 1 /\ UNCHANGED ckpts /\ Saved' = Saved
    BY <1>8 DEF Crash, Saved
  <2> QED
    BY <2>1 DEF OnceInv
<1> QED
  BY <1>1, <1>2, <1>3, <1>4, <1>5, <1>6, <1>7, <1>8 DEF Next

\* However often the run dies and wherever it is resumed, no batch is used twice,
\* and a death costs at most the batches that wait for their group, for groups of
\* any size; without gradient accumulation it costs none.
THEOREM BatchesUsedOnce == Spec => []EveryBatchOnce
<1>1. Init => OnceInv
  <2> SUFFICES ASSUME Init PROVE OnceInv
    OBVIOUS
  <2>1. Missing({}, {}, {}, 0) = {} /\ 0 <= (Accumulate - 1) * 0 /\ 0 <= Accumulate - 1
    BY DeathCosts DEF Missing
  <2> QED BY <2>1, NoneIsNone DEF Init, Learn!Init, OnceInv, Accounted, Saved, Up, Had
<1>2. IInv /\ OnceInv /\ [Next]_vars => OnceInv'
  BY StepOnceInv
<1>3. IInv /\ OnceInv => EveryBatchOnce
  <2> SUFFICES ASSUME IInv, OnceInv, pc = "fetch" PROVE EveryBatchOnce
    BY DEF EveryBatchOnce
  <2>1. step \in Nat /\ epoch * PerEpoch + batch = step
    BY LoopAssumption DEF IInv, PlaceInv, Up, Steps
  <2>2. Consumed = 0..step - 1
    BY <2>1 DEF Consumed
  <2>3. Cardinality(0..step - 1) = step
    BY <2>1, FS_Interval
  <2>4. Accounted(applied, pending, dropped, step, crashes)
    BY DEF OnceInv, Up, Had
  <2> QED BY <2>2, <2>3, <2>4 DEF EveryBatchOnce, Accounted, Missing
<1> QED BY <1>1, <1>2, <1>3, Invariance, PTL DEF Spec

------------------------------------------------------------------------------
(***************************************************************************)
(* The best checkpoint: a value that beats the best one raises the flag,   *)
(* the flag is served before the next batch, and only an evaluation lowers *)
(* it on the way.                                                          *)
(***************************************************************************)
\* Epochs without improvement are counted once per step at most, and a forced
\* evaluation was asked for by a control file.
CountsInv ==
  /\ bad <= step /\ (pc = "eval" => bad < step)
  /\ forced => "eval_now" \in Controls

\* While the flag is up the best value is better than the one that was saved.
FlagInv ==
  /\ flag => best # None
  /\ bestFile # None => bestFile.run <= crashes
  /\ bestFile # None /\ pc = "down" => bestFile.run < crashes
  /\ bestFile # None /\ bestFile.run = crashes =>
       best # None /\ best <= bestFile.value /\ (flag => best < bestFile.value)

TypesInv == TypeOK /\ CountsInv

\* The values best_ckpt keeps after it has looked at one more.
LEMMA ConsumeTyped ==
  ASSUME TypesInv, NEW v \in Values, Consume(v)
  PROVE  /\ best' \in Values /\ flag' \in BOOLEAN
         /\ flag' <=> Better(v, best)
         /\ Better(v, best) => best' = v
         /\ ~Better(v, best) => best' = best /\ best # None
<1>1. flag' \in BOOLEAN /\ (flag' <=> Better(v, best))
  BY Zenon DEF Consume, Better
<1> QED
  BY <1>1 DEF Consume, Better, TypesInv, TypeOK

\* The flag follows the best value and what was saved of it.
LEMMA ConsumeKeeps ==
  ASSUME TypesInv, FlagInv, NEW v \in Values, Consume(v), UNCHANGED <<bestFile, crashes>>,
         pc' # "down"
  PROVE  FlagInv'
<1>1. v \in Nat /\ (best # None => best \in Nat) /\ v # None
  BY LoopAssumption DEF TypesInv, TypeOK
<1>2. bestFile # None => bestFile.value \in Nat
  BY LoopAssumption DEF TypesInv, TypeOK
<1>3. CASE Better(v, best)
  BY <1>1, <1>2, <1>3, ConsumeTyped DEF FlagInv, Better
<1>4. CASE ~Better(v, best)
  BY <1>1, <1>2, <1>4, ConsumeTyped DEF FlagInv
<1> QED
  BY <1>3, <1>4

\* The place, the weights and the checkpoints have the types the invariant gives
\* them, and in a dead process those they died with.
LEMMA StepPlaceTypes ==
  ASSUME TypeOK, IInv', [Next]_vars
  PROVE  /\ pc' \in {"fetch", "step", "after", "eval", "save", "best", "done", "down"}
         /\ step' \in Steps /\ epoch' \in Nat /\ batch' \in 0..PerEpoch /\ pos' \in 0..PerEpoch
         /\ applied' \subseteq Numbers /\ pending' \subseteq Numbers /\ dropped' \subseteq Numbers
         /\ \A n \in Steps : ckpts'[n] = None \/ ckpts'[n] \in Snapshots
         /\ DOMAIN ckpts' = Steps
<1>1. step' \in Steps /\ epoch' \in Nat /\ batch' \in 0..PerEpoch /\ pos' \in 0..PerEpoch
  <2>1. CASE Up'
    BY <2>1 DEF IInv, PlaceInv
  <2>2. CASE ~Up'
    <3>1. UNCHANGED place
      BY <2>2 DEF Up, place, Next, vars, Touch, Fetch, Learned, StoppedOnLoss, AfterStep, Eval,
         NoEval, MaybeSave, MaybeSaveBest, Finish, Crash, Resume, Rerun, RestartAt
    <3> QED
      BY <3>1 DEF place, TypeOK
  <2> QED
    BY <2>1, <2>2
<1>2. \A n \in Steps : ckpts'[n] = None \/ ckpts'[n] \in Snapshots
  BY DEF IInv, CkptInv, PlaceOf, Saved
<1>3. DOMAIN ckpts' = Steps
  BY DEF IInv, CkptInv
<1> QED
  BY <1>1, <1>2, <1>3 DEF IInv, LearnedInv

\* What early_stop, the control files and the stops become.
ControlTypes ==
  /\ stop \in BOOLEAN /\ esBest \in Values \cup {None} /\ bad \in Nat
  /\ files \subseteq Controls /\ forced \in BOOLEAN /\ asked \subseteq Callers
  /\ crashes \in 0..MaxCrashes

LEMMA StepControl ==
  ASSUME IInv, TypesInv, [Next]_vars
  PROVE  ControlTypes' /\ CountsInv'
<1> USE LoopAssumption DEF disk, place, grads, earlyStop, control, Steps
<1>t. /\ ControlTypes /\ CountsInv /\ step \in Nat
      /\ stop \in BOOLEAN /\ forced \in BOOLEAN
  BY DEF TypesInv, TypeOK, ControlTypes
<1>1. ASSUME NEW v \in Values, Learned(v) \/ StoppedOnLoss(v) PROVE ControlTypes' /\ CountsInv'
  <2>1. /\ UNCHANGED <<step, esBest, bad, crashes>> /\ pc' = "after"
        /\ asked' \subseteq asked \cup {"stop_file", "loss"}
        /\ files' \subseteq files
    BY <1>1 DEF Learned, StoppedOnLoss, StopFileAsks, OnStepEnd
  <2>2. stop' \in BOOLEAN
    BY <1>1, <1>t DEF Learned, StoppedOnLoss
  <2>3. forced' \in BOOLEAN /\ (forced' => forced \/ "eval_now" \in files)
    <3>1. OnStepEnd(v)
      BY <1>1 DEF Learned, StoppedOnLoss
    <3>2. forced' = forced \/ forced' = ("eval_now" \in files)
      BY <3>1 DEF OnStepEnd
    <3>3. forced \in BOOLEAN /\ ("eval_now" \in files) \in BOOLEAN
      BY <1>t
    <3>4. CASE forced' = forced
      BY <3>3, <3>4
    <3>5. CASE forced' = ("eval_now" \in files)
      BY <3>3, <3>5
    <3> QED
      BY <3>2, <3>4, <3>5
  <2> QED
    BY <1>t, <2>1, <2>2, <2>3 DEF ControlTypes, CountsInv, Callers
<1>2. ASSUME NEW v \in Values, Eval(v) PROVE ControlTypes' /\ CountsInv'
  <2>1. /\ UNCHANGED <<step, files, crashes>> /\ pc = "eval" /\ pc' = "save"
        /\ forced' = FALSE /\ stop' = stop
        /\ asked' \subseteq asked \cup {"early_stop"}
        /\ esBest' \in {v, esBest} /\ bad' \in {0, bad + 1}
    BY <1>2 DEF Eval, CheckStop
  <2>2. forced' \in BOOLEAN /\ stop' \in BOOLEAN
    BY <1>t, <2>1, Zenon
  <2> QED
    BY <1>t, <2>1, <2>2 DEF ControlTypes, CountsInv, Callers
<1>3. CASE AfterStep
  <2>1. /\ UNCHANGED <<files, forced, esBest, bad, crashes>> /\ step' = step + 1
        /\ asked' \subseteq asked \cup {"batch_end"}
    BY <1>3 DEF AfterStep
  <2>2. stop' \in BOOLEAN
    BY <1>3, <1>t DEF AfterStep
  <2> QED
    BY <1>t, <2>1, <2>2 DEF ControlTypes, CountsInv, Callers
<1>4. CASE Crash
  <2>1. crashes' = crashes + 1 /\ crashes < MaxCrashes /\ pc' = "down"
        /\ UNCHANGED <<step, stop, esBest, bad, files, forced, asked>>
    BY <1>4 DEF Crash
  <2> QED
    BY <1>t, <2>1 DEF ControlTypes, CountsInv
<1>5. CASE Resume \/ Rerun
  <2>1. /\ pc' = "fetch" /\ asked' = {} /\ esBest' = None /\ bad' = 0
        /\ UNCHANGED <<files, crashes>>
    BY <1>5 DEF Resume, Rerun, RestartAt
  <2>2. stop' \in BOOLEAN /\ forced' \in BOOLEAN /\ ~forced'
    BY <1>5 DEF Resume, Rerun, RestartAt
  <2>3. step' \in Nat
    BY <1>5, LatestIsLargest DEF Resume, Rerun, RestartAt, Saved
  <2> QED
    BY <1>t, <2>1, <2>2, <2>3 DEF ControlTypes, CountsInv
<1>6. ASSUME NEW f \in Controls, Touch(f) PROVE ControlTypes' /\ CountsInv'
  BY <1>6, <1>t DEF Touch, ControlTypes, CountsInv
<1>7. CASE Fetch \/ NoEval \/ MaybeSave \/ MaybeSaveBest \/ Finish \/ UNCHANGED vars
  <2>1. /\ UNCHANGED <<step, stop, esBest, bad, files, forced, asked, crashes>>
        /\ pc' = "eval" => pc = "eval"
    BY <1>7 DEF Fetch, NoEval, MaybeSave, MaybeSaveBest, Finish, vars
  <2> QED
    BY <1>t, <2>1 DEF ControlTypes, CountsInv
<1> QED
  BY <1>1, <1>2, <1>3, <1>4, <1>5, <1>6, <1>7 DEF Next
\* The best value, the flag, and what the best pointer names.
BestTypes ==
  /\ best \in Values \cup {None} /\ flag \in BOOLEAN
  /\ bestFile = None \/ bestFile \in [step : Steps, value : Values, run : 0..MaxCrashes]

\* What is monitored stays; the value of a flag taken down is a value.
LoweredTypes == monitor \in Monitors /\ lowered \in Values \cup {None}

LEMMA StepLowered ==
  ASSUME TypesInv, FlagInv, [Next]_vars
  PROVE  LoweredTypes' /\ monitor' = monitor
<1> USE DEF bestCkpt
<1>t. /\ monitor \in Monitors /\ lowered \in Values \cup {None}
      /\ best \in Values \cup {None}
  BY DEF TypesInv, TypeOK
<1>1. monitor' = monitor /\ lowered' \in {lowered, best, None}
  BY DEF Next, vars, Touch, Fetch, Learned, StoppedOnLoss, OnStepEnd, Eval, AfterStep, NoEval,
         MaybeSave, MaybeSaveBest, Finish, Crash, Resume, Rerun, RestartAt
<1> QED
  BY <1>t, <1>1 DEF LoweredTypes

LEMMA StepBest ==
  ASSUME TypesInv, FlagInv, [Next]_vars
  PROVE  BestTypes' /\ FlagInv'
<1> USE LoopAssumption DEF disk, bestCkpt
<1>t. /\ best \in Values \cup {None} /\ flag \in BOOLEAN /\ crashes \in Nat
      /\ bestFile = None \/ bestFile \in [step : Steps, value : Values, run : 0..MaxCrashes]
  BY DEF TypesInv, TypeOK
<1>1. ASSUME NEW v \in Values, Consume(v), UNCHANGED <<bestFile, crashes>>, pc' # "down"
      PROVE  BestTypes' /\ FlagInv'
  BY <1>1, <1>t, ConsumeTyped, ConsumeKeeps DEF BestTypes
<1>2. ASSUME UNCHANGED <<bestFile, best, flag>>,
             \/ crashes' = crashes /\ (pc' = "down" => pc = "down")
             \/ crashes' = crashes + 1
      PROVE  BestTypes' /\ FlagInv'
  BY <1>2, <1>t DEF BestTypes, FlagInv
<1>3. ASSUME NEW v \in Values, Learned(v) \/ StoppedOnLoss(v) PROVE BestTypes' /\ FlagInv'
  <2>1. UNCHANGED <<bestFile, crashes>> /\ pc' = "after" /\ (Consume(v) \/ UNCHANGED <<best, flag>>)
    BY <1>3 DEF Learned, StoppedOnLoss, OnStepEnd
  <2> QED
    BY <1>1, <1>2, <2>1
<1>4. ASSUME NEW v \in Values, Eval(v) PROVE BestTypes' /\ FlagInv'
  <2>1. /\ UNCHANGED <<bestFile, crashes>> /\ pc' = "save"
        /\ Consume(v) \/ (flag' = FALSE /\ UNCHANGED best)
    BY <1>4 DEF Eval
  <2>2. CASE Consume(v)
    BY <1>1, <2>1, <2>2
  <2>3. CASE flag' = FALSE /\ UNCHANGED best
    <3>1. flag' \in BOOLEAN /\ ~flag'
      BY <2>3
    <3> QED
      BY <1>t, <2>1, <2>3, <3>1 DEF BestTypes, FlagInv
  <2> QED
    BY <2>1, <2>2, <2>3
<1>5. CASE MaybeSaveBest
  <2>1. flag' \in BOOLEAN /\ ~flag' /\ UNCHANGED <<best, crashes>> /\ pc' = "fetch"
    BY <1>5 DEF MaybeSaveBest
  <2>2. CASE flag
    <3>1. bestFile' = [step |-> step, value |-> best, run |-> crashes]
      BY <1>5, <2>2 DEF MaybeSaveBest
    <3>2. best \in Values /\ best \in Nat
      BY <1>t, <2>2 DEF FlagInv
    <3>3. step \in Steps /\ crashes \in 0..MaxCrashes
      BY DEF TypesInv, TypeOK
    <3>4. bestFile' \in [step : Steps, value : Values, run : 0..MaxCrashes]
      BY <3>1, <3>2, <3>3
    <3>5. bestFile'.run = crashes /\ bestFile'.value = best
      BY <3>1
    <3> QED
      BY <1>t, <2>1, <3>2, <3>4, <3>5 DEF BestTypes, FlagInv
  <2>3. CASE ~flag
    BY <1>5, <1>t, <2>1, <2>3 DEF MaybeSaveBest, BestTypes, FlagInv
  <2> QED
    BY <2>2, <2>3
<1>6. CASE Resume \/ Rerun
  <2>1. /\ best' = None /\ flag' \in BOOLEAN /\ ~flag' /\ pc' = "fetch"
        /\ UNCHANGED <<bestFile, crashes>>
    BY <1>6 DEF Resume, Rerun, RestartAt
  <2>2. bestFile # None => bestFile.run < crashes
    BY <1>6 DEF Resume, Rerun, RestartAt, FlagInv
  <2> QED
    BY <1>t, <2>1, <2>2 DEF BestTypes, FlagInv
<1>7. ASSUME NEW f \in Controls, Touch(f) PROVE BestTypes' /\ FlagInv'
  BY <1>2, <1>7 DEF Touch
<1>8. CASE Fetch \/ AfterStep \/ NoEval \/ MaybeSave \/ Finish \/ Crash \/ UNCHANGED vars
  <2>1. /\ UNCHANGED <<bestFile, bestCkpt>>
        /\ \/ crashes' = crashes /\ (pc' = "down" => pc = "down")
           \/ crashes' = crashes + 1
    BY <1>8 DEF Fetch, AfterStep, NoEval, MaybeSave, Finish, Crash, vars
  <2> QED
    BY <1>2, <2>1
<1> QED
  BY <1>3, <1>4, <1>5, <1>6, <1>7, <1>8 DEF Next
\* Types and flag hold from the start and after every step.
BestInv == IInv /\ TypesInv /\ FlagInv

LEMMA InitBestInv == Init => BestInv
<1> SUFFICES ASSUME Init PROVE BestInv
  OBVIOUS
<1>1. stop \in BOOLEAN /\ flag \in BOOLEAN /\ forced \in BOOLEAN /\ ~flag /\ ~forced
  BY DEF Init
<1>2. /\ 0 \in Steps /\ 0 \in 0..PerEpoch /\ 0 \in 0..Target /\ 0 \in 0..MaxCrashes
      /\ 0 <= 0
  BY LoopAssumption DEF Steps
<1>3. TypeOK
  BY <1>1, <1>2 DEF Init, Learn!Init, TypeOK
<1> QED
  BY <1>1, <1>2, <1>3, InitIInv DEF Init, BestInv, TypesInv, CountsInv, FlagInv

LEMMA StepBestInv == BestInv /\ [Next]_vars => BestInv'
<1> SUFFICES ASSUME BestInv, [Next]_vars PROVE BestInv'
  OBVIOUS
<1>1. IInv'
  BY StepIInv DEF BestInv
<1>2. ControlTypes' /\ CountsInv'
  BY StepControl DEF BestInv
<1>3. BestTypes' /\ FlagInv'
  BY StepBest DEF BestInv
<1>4. bad' \in 0..Target
  BY <1>1, <1>2, StepPlaceTypes, LoopAssumption
     DEF BestInv, TypesInv, ControlTypes, CountsInv, Steps
<1>5. TypeOK'
  <2>1. TypeOK
    BY DEF BestInv, TypesInv
  <2>2. LoweredTypes'
    BY StepLowered DEF BestInv
  <2> QED
    BY <1>1, <1>2, <1>3, <1>4, <2>1, <2>2, StepPlaceTypes
       DEF TypeOK, ControlTypes, BestTypes, LoweredTypes
<1> QED
  BY <1>1, <1>2, <1>3, <1>5 DEF BestInv, TypesInv

LEMMA BestInvariance == Spec => []BestInv
BY InitBestInv, StepBestInv, PTL DEF Spec

\* Within one process every move of the best pointer is an improvement, whatever
\* is monitored, however evaluations and saves fall and wherever the run died.
THEOREM PointerImproves == Spec => BestMovesOnImprovement
<1>1. BestInv /\ [Next]_vars =>
        [bestFile' # bestFile /\ bestFile # None /\ bestFile.run = crashes =>
           bestFile'.value < bestFile.value]_vars
  <2> SUFFICES ASSUME BestInv, Next, bestFile' # bestFile, bestFile # None,
                      bestFile.run = crashes
               PROVE  bestFile'.value < bestFile.value
    OBVIOUS
  <2>1. MaybeSaveBest
    BY DEF Next, Touch, Fetch, Learned, StoppedOnLoss, Eval, AfterStep, NoEval, MaybeSave,
           Finish, Crash, Resume, Rerun, RestartAt, disk
  <2>2. flag /\ bestFile' = [step |-> step, value |-> best, run |-> crashes]
    BY <2>1 DEF MaybeSaveBest, disk
  <2> QED
    BY <2>2 DEF BestInv, FlagInv
<1> QED
  BY <1>1, BestInvariance, PTL DEF Spec, BestMovesOnImprovement

------------------------------------------------------------------------------
\* The best value is on disk, or the flag it raised was taken down.
OnFile ==
  bestFile # None /\ bestFile.value = best /\ bestFile.run = crashes /\ bestFile.step \in Saved

ServedInv ==
  Up => /\ best # None => flag \/ OnFile \/ (monitor = "loss" /\ lowered = best)
        /\ pc \in {"fetch", "step", "done"} => ~flag
        /\ pc \in {"after", "eval"} /\ monitor = "val_loss" => ~flag

\* No checkpoint goes away.
LEMMA SavedStay == IInv /\ [Next]_vars => Saved \subseteq Saved'
<1> SUFFICES ASSUME IInv, [Next]_vars PROVE Saved \subseteq Saved'
  OBVIOUS
<1>1. CASE UNCHANGED ckpts
  BY <1>1 DEF Saved
<1>2. CASE ckpts' # ckpts
  <2>1. Save /\ pc \in {"fetch", "save", "best"}
    BY <1>2 DEF Next, vars, Touch, Fetch, Learned, StoppedOnLoss, Eval, AfterStep, NoEval,
           MaybeSave, MaybeSaveBest, Finish, Crash, Resume, Rerun, RestartAt, disk
  <2> QED
    BY <2>1, SaveKeeps
<1> QED
  BY <1>1, <1>2

LEMMA StepServed ==
  ASSUME BestInv, ServedInv, [Next]_vars
  PROVE  ServedInv'
<1> USE LoopAssumption DEF disk, bestCkpt, Up
<1>t. TypesInv /\ FlagInv /\ flag \in BOOLEAN /\ monitor \in {"loss", "val_loss"}
  BY DEF BestInv, TypesInv, TypeOK
<1>s. Saved \subseteq Saved' /\ monitor' = monitor
  BY <1>t, SavedStay, StepLowered DEF BestInv
<1>f. UNCHANGED <<bestFile, best, crashes>> /\ OnFile => OnFile'
  BY <1>s DEF OnFile
<1>1. ASSUME NEW v \in Values, Learned(v) \/ StoppedOnLoss(v) PROVE ServedInv'
  <2>1. pc = "step" /\ pc' = "after" /\ UNCHANGED <<bestFile, lowered, crashes>>
        /\ IF monitor = "loss" THEN Consume(v) ELSE UNCHANGED <<best, flag>>
    BY <1>1 DEF Learned, StoppedOnLoss, OnStepEnd
  <2>2. CASE monitor = "loss"
    BY <1>t, <1>s, <1>f, <2>1, <2>2, ConsumeTyped DEF ServedInv
  <2>3. CASE monitor # "loss"
    BY <1>t, <1>s, <1>f, <2>1, <2>3 DEF ServedInv
  <2> QED
    BY <2>2, <2>3
<1>2. ASSUME NEW v \in Values, Eval(v) PROVE ServedInv'
  <2>1. pc = "eval" /\ pc' = "save" /\ UNCHANGED <<bestFile, crashes>>
    BY <1>2 DEF Eval
  <2>2. CASE monitor = "val_loss"
    <3>1. Consume(v) /\ UNCHANGED lowered
      BY <1>2, <2>2 DEF Eval
    <3> QED
      BY <1>t, <1>s, <1>f, <2>1, <2>2, <3>1, ConsumeTyped DEF ServedInv
  <2>3. CASE monitor = "loss"
    <3>1. flag' = FALSE /\ UNCHANGED best /\ lowered' = IF flag THEN best ELSE lowered
      BY <1>2, <2>3 DEF Eval
    <3> QED
      BY <1>t, <1>s, <1>f, <2>1, <2>3, <3>1 DEF ServedInv
  <2> QED
    BY <1>t, <2>2, <2>3
<1>3. CASE MaybeSaveBest
  <2>1. /\ pc = "best" /\ pc' = "fetch" /\ flag' \in BOOLEAN /\ ~flag'
        /\ UNCHANGED <<best, lowered, crashes>>
    BY <1>3 DEF MaybeSaveBest
  <2>2. CASE flag
    <3>1. bestFile' = [step |-> step, value |-> best, run |-> crashes] /\ Save
      BY <1>3, <2>2 DEF MaybeSaveBest
    <3>2. bestFile'.value = best /\ bestFile'.run = crashes /\ bestFile'.step = step
      BY <3>1
    <3>3. bestFile' # None
      <4>1. best \in Values /\ step \in Steps /\ crashes \in 0..MaxCrashes
        BY <1>t, <2>2 DEF TypesInv, TypeOK, FlagInv
      <4>2. bestFile' \in [step : Steps, value : Values, run : 0..MaxCrashes]
        BY <3>1, <4>1
      <4> QED
        BY <4>2
    <3>4. step \in Saved'
      BY <2>1, <3>1, SaveKeeps DEF BestInv
    <3> QED
      BY <2>1, <3>2, <3>3, <3>4 DEF ServedInv, OnFile
  <2>3. CASE ~flag
    <3>1. UNCHANGED bestFile
      BY <1>3, <2>3 DEF MaybeSaveBest
    <3> QED
      BY <1>s, <1>f, <2>1, <2>3, <3>1 DEF ServedInv
  <2> QED
    BY <2>2, <2>3
<1>4. CASE Resume \/ Rerun
  <2>1. best' = None /\ flag' \in BOOLEAN /\ ~flag'
    BY <1>4 DEF Resume, Rerun, RestartAt
  <2> QED
    BY <2>1 DEF ServedInv
<1>5. CASE \/ \E f \in Controls : Touch(f)
           \/ Fetch \/ AfterStep \/ NoEval \/ MaybeSave \/ Finish \/ UNCHANGED vars
  <2>1. /\ UNCHANGED <<bestFile, bestCkpt, crashes>>
        /\ \/ pc' = pc
           \/ pc = "fetch" /\ pc' \in {"step", "done"}
           \/ pc = "after" /\ pc' = "eval"
           \/ pc = "eval" /\ pc' = "save"
           \/ pc = "save" /\ pc' = "best"
    BY <1>5 DEF Touch, Fetch, AfterStep, NoEval, MaybeSave, Finish, vars
  <2> QED
    BY <1>t, <1>s, <1>f, <2>1 DEF ServedInv
<1>6. CASE Crash
  BY <1>6 DEF Crash, ServedInv
<1> QED
  BY <1>1, <1>2, <1>3, <1>4, <1>5, <1>6 DEF Next

\* At every step boundary the best value this process has seen is on disk and
\* named by the best pointer, whatever is monitored and however evaluations fall,
\* or an evaluation of the very step that reached it took its flag down.
THEOREM BestOnDisk == Spec => []BestIsSaved
<1>1. Init => ServedInv
  BY DEF Init, ServedInv, Up
<1>2. BestInv /\ ServedInv /\ [Next]_vars => ServedInv'
  BY StepServed
<1>3. BestInv /\ ServedInv => BestIsSaved
  BY DEF BestInv, TypesInv, ServedInv, BestIsSaved, OnFile, Saved, Up
<1> QED
  BY <1>1, <1>2, <1>3, BestInvariance, PTL DEF Spec
================================================================================
