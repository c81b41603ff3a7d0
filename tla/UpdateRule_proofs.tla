--------------------------- MODULE UpdateRule_proofs ---------------------------
(***************************************************************************)
(* The update rule keeps the contract of TrainStep for every number of     *)
(* steps, size of a group and retry budget, whatever the callbacks answer  *)
(* and whichever snapshots fail.                                           *)
(***************************************************************************)
EXTENDS UpdateRule, FiniteSetTheorems, TLAPS

\* The remainder of the successor: the next micro step completes the group or
\* adds one gradient to it.
LEMMA NextRemainder ==
  ASSUME NEW a \in Nat \ {0}, NEW m \in Nat
  PROVE  /\ (m % a) \in 0..a - 1
         /\ ((m + 1) % a) = IF (m % a) + 1 = a THEN 0 ELSE (m % a) + 1
<1> DEFINE q == m \div a        r == m % a
           p == (m + 1) \div a  s == (m + 1) % a
<1>1. q \in Int /\ p \in Int /\ r \in 0..a - 1 /\ s \in 0..a - 1
  BY SMT
<1>2. m = a * q + r /\ m + 1 = a * p + s
  BY SMT
<1>3. a * (p - q) = r + 1 - s
  BY <1>1, <1>2, SMT
<1> HIDE DEF q, r, p, s
<1>4. p - q \in 0..1
  <2>1. CASE p - q >= 2
    <3>1. a * (p - q) >= a * 2
      BY <2>1, <1>1, SMTT(30)
    <3> QED BY <3>1, <1>1, <1>3
  <2>2. CASE p - q <= -1
    <3>1. a * (p - q) <= a * (-1)
      BY <2>2, <1>1, SMTT(30)
    <3> QED BY <3>1, <1>1, <1>3
  <2> QED BY <2>1, <2>2, <1>1
<1>5. CASE p - q = 0
  <2>1. s = r + 1
    BY <1>1, <1>3, <1>5
  <2> QED BY <2>1, <1>1 DEF r, s
<1>6. CASE p - q = 1
  <2>1. s = 0 /\ r + 1 = a
    BY <1>1, <1>3, <1>6
  <2> QED BY <2>1, <1>1 DEF r, s
<1> QED BY <1>4, <1>5, <1>6

------------------------------------------------------------------------------
Used == applied \cup lost \cup pending \cup dropped

\* The batches used so far, by the place of the control: the batch of the
\* current step is used once the step is past its verdict or its backward.
Fresh ==
  /\ pc = "begin" => Used \subseteq 0..step - 1
  /\ pc \in {"verdict", "backward"} => Used \subseteq 0..step - 1 /\ step < MaxStep
  /\ pc \in {"post", "end"} => Used \subseteq 0..step /\ step < MaxStep

\* The pending gradients are those of the current group.
GroupFilled ==
  /\ IsFiniteSet(pending)
  /\ Cardinality(pending) = (micro % Accumulate)

\* A snapshot, however old, holds nothing that the weights never learned.
SnapshotLearned == Restored \subseteq applied \cup lost

IInv ==
  /\ pc \in {"begin", "verdict", "backward", "post", "end", "halted"}
  /\ step \in Nat /\ micro \in Nat
  /\ Fresh /\ GroupFilled /\ SnapshotLearned

\* The invariant holds at the start.
LEMMA InitIInv == Init => IInv
<1> SUFFICES ASSUME Init PROVE IInv
  OBVIOUS
<1>1. Cardinality({}) = 0 /\ IsFiniteSet({})
  BY FS_EmptySet
<1>2. (0 % Accumulate) = 0
  BY RuleAssumption, SMT
<1> QED
  BY <1>1, <1>2 DEF Init, IInv, Fresh, GroupFilled, SnapshotLearned, Restored, Used

\* What a verdict that ends the retries does to the batches.
LEMMA VerdictStep ==
  ASSUME IInv, NEW s \in Signals, Verdict(s)
  PROVE  IInv' /\ (Contract!Next \/ UNCHANGED Contract!vars)
<1> USE DEF Contract!vars
<1>1. pc = "verdict" /\ Used \subseteq 0..step - 1 /\ step < MaxStep
  BY DEF Verdict, IInv, Fresh
<1>2. CASE s = CONTINUE
  <2>1. pc' = "backward" /\ UNCHANGED <<applied, pending, dropped, micro, step, snap, lost>>
    BY <1>2 DEF Verdict, grads
  <2>2. IInv'
    BY <1>1, <2>1 DEF IInv, Fresh, GroupFilled, SnapshotLearned, Restored, Used
  <2> QED BY <2>1, <2>2
<1>3. CASE s # CONTINUE
  <2>1. /\ pc' = "post" /\ UNCHANGED <<applied, step, snap, lost>>
        /\ dropped' = dropped \cup pending \cup {step}
        /\ pending' = {} /\ micro' = 0
    BY <1>3 DEF Verdict
  <2>2. Cardinality({}) = 0 /\ IsFiniteSet({}) /\ (0 % Accumulate) = 0
    BY FS_EmptySet, RuleAssumption, SMT
  <2>3. Used' \subseteq 0..step
    BY <1>1, <2>1 DEF Used, IInv
  <2>4. IInv'
    BY <1>1, <2>1, <2>2, <2>3 DEF IInv, Fresh, GroupFilled, SnapshotLearned, Restored
  <2>5. Contract!Drop(step)
    BY <1>1, <2>1 DEF Contract!Drop
  <2>6. step \in Batches \ Contract!Used
    BY <1>1, RuleAssumption DEF Batches, IInv, Contract!Used, Used
  <2> QED BY <2>4, <2>5, <2>6 DEF Contract!Next
<1> QED BY <1>2, <1>3

\* A backward pass waits for its group or completes it.
LEMMA BackwardStep ==
  ASSUME IInv, Backward
  PROVE  IInv' /\ Contract!Next
<1>1. /\ pc = "backward" /\ pc' = "post" /\ micro' = micro + 1
      /\ UNCHANGED <<step, dropped, snap, lost>>
  BY DEF Backward
<1>2. Used \subseteq 0..step - 1 /\ step < MaxStep /\ step \in Nat /\ micro \in Nat
  BY <1>1 DEF IInv, Fresh
<1>3. /\ step \notin Used
      /\ step \in Batches \ Contract!Used
  BY <1>2, RuleAssumption DEF Batches, Contract!Used, Used
<1>4. /\ (micro % Accumulate) \in 0..Accumulate - 1
      /\ (micro' % Accumulate) = IF (micro % Accumulate) + 1 = Accumulate
                                 THEN 0 ELSE (micro % Accumulate) + 1
  BY <1>1, <1>2, NextRemainder, RuleAssumption
<1>5. IsFiniteSet(pending) /\ Cardinality(pending) = (micro % Accumulate)
  BY DEF IInv, GroupFilled
<1>6. /\ IsFiniteSet(pending \cup {step})
      /\ Cardinality(pending \cup {step}) = Cardinality(pending) + 1
  BY <1>3, <1>5, FS_AddElement DEF Used
<1>7. Accumulate \in Nat \ {0}
  BY RuleAssumption
<1>8. Contract!Cardinality(pending) = Cardinality(pending)
  BY Zenon DEF Cardinality, Contract!Cardinality
<1>9. CASE (micro' % Accumulate) # 0
  <2>1. pending' = pending \cup {step} /\ UNCHANGED applied
    BY <1>9 DEF Backward
  <2>2. GroupFilled'
    BY <2>1, <1>4, <1>5, <1>6, <1>9 DEF GroupFilled
  <2>3. Cardinality(pending) + 1 < Accumulate
    BY <1>4, <1>5, <1>7, <1>9
  <2>4. Contract!Wait(step)
    BY <1>1, <1>8, <2>1, <2>3 DEF Contract!Wait
  <2>5. IInv'
    BY <1>1, <1>2, <2>1, <2>2 DEF IInv, Fresh, SnapshotLearned, Restored, Used
  <2> QED BY <2>4, <2>5, <1>3 DEF Contract!Next
<1>10. CASE (micro' % Accumulate) = 0
  <2>1. pending' = {} /\ applied' = applied \cup pending \cup {step}
    BY <1>10 DEF Backward
  <2>2. GroupFilled'
    BY <2>1, <1>10, FS_EmptySet DEF GroupFilled
  <2>3. Cardinality(pending) + 1 = Accumulate
    BY <1>4, <1>5, <1>7, <1>10
  <2>4. Contract!Apply(step)
    BY <1>1, <1>8, <2>1, <2>3 DEF Contract!Apply
  <2>5. IInv'
    BY <1>1, <1>2, <2>1, <2>2 DEF IInv, Fresh, SnapshotLearned, Restored, Used
  <2> QED BY <2>4, <2>5, <1>3 DEF Contract!Next
<1> QED BY <1>9, <1>10

\* Every step keeps the invariant and is a step of TrainStep or none at all.
LEMMA StepIInv ==
  ASSUME IInv, [Next]_vars
  PROVE  IInv' /\ [Contract!Next]_Contract!vars
<1> USE DEF Contract!vars
<1> DEFINE Still == UNCHANGED <<applied, pending, dropped, micro>>
<1>1. ASSUME NEW o \in Outcomes, Begin(o) PROVE IInv' /\ UNCHANGED Contract!vars
  <2>1. /\ Still /\ UNCHANGED <<step, lost>> /\ pc = "begin" /\ step < MaxStep
        /\ pc' = "verdict"
    BY <1>1 DEF Begin, grads
  <2>2. snap' \in {[step |-> step, weights |-> applied], [step |-> step, weights |-> None], snap}
    BY <1>1 DEF Begin, TakeSnapshot, Outcomes
  <2>3. SnapshotLearned'
    BY <2>1, <2>2 DEF IInv, SnapshotLearned, Restored
  <2>4. IInv'
    BY <2>1, <2>3 DEF IInv, Fresh, GroupFilled, Used
  <2> QED BY <2>1, <2>4
<1>2. CASE Retry
  <2>1. /\ pc = "verdict" /\ UNCHANGED <<pc, step, pending, dropped, micro, snap>>
        /\ applied' = Restored /\ lost' = lost \cup (applied \ Restored)
    BY <1>2 DEF Retry
  <2>2. applied' \cup lost' = applied \cup lost
    BY <2>1 DEF IInv, SnapshotLearned
  <2>3. SnapshotLearned'
    BY <2>1 DEF SnapshotLearned, Restored
  <2>4. Used' = Used
    BY <2>1, <2>2 DEF Used
  <2>5. IInv'
    BY <2>1, <2>3, <2>4 DEF IInv, Fresh, GroupFilled
  <2> QED BY <2>1, <2>2, <2>5
<1>3. ASSUME NEW s \in Signals, Verdict(s)
      PROVE  IInv' /\ [Contract!Next]_Contract!vars
  BY <1>3, VerdictStep
<1>4. CASE Backward
  BY <1>4, BackwardStep
<1>5. CASE StepEnd
  <2>1. Still /\ UNCHANGED <<step, snap, lost>> /\ pc = "post" /\ pc' = "end"
    BY <1>5 DEF StepEnd, grads
  <2>2. IInv'
    BY <2>1 DEF IInv, Fresh, GroupFilled, SnapshotLearned, Restored, Used
  <2> QED BY <2>1, <2>2
<1>6. CASE NextStep
  <2>1. Still /\ UNCHANGED <<snap, lost>> /\ step' = step + 1 /\ pc = "end"
        /\ pc' \in {"begin", "halted"}
    BY <1>6 DEF NextStep, grads
  <2>2. IInv'
    BY <2>1 DEF IInv, Fresh, GroupFilled, SnapshotLearned, Restored, Used
  <2> QED BY <2>1, <2>2
<1>7. CASE Raise
  <2>1. Still /\ UNCHANGED <<step, snap, lost>> /\ pc' = "halted"
    BY <1>7 DEF Raise, grads
  <2>2. IInv'
    BY <2>1 DEF IInv, Fresh, GroupFilled, SnapshotLearned, Restored, Used
  <2> QED BY <2>1, <2>2
<1>8. CASE UNCHANGED vars
  BY <1>8 DEF vars, IInv, Fresh, GroupFilled, SnapshotLearned, Restored, Used
<1> QED
  BY <1>1, <1>2, <1>3, <1>4, <1>5, <1>6, <1>7, <1>8 DEF Next

------------------------------------------------------------------------------
\* The update rule implements TrainStep whatever the callbacks answer, however
\* often a step is replayed, whichever snapshots fail and wherever it raises: no
\* batch is used twice, and the weights learn by whole groups.
THEOREM RuleImplementsTrainStep == Spec => ImplementsTrainStep
<1>1. Init => IInv
  BY InitIInv
<1>2. Init => Contract!Init
  BY DEF Init, Contract!Init
<1>3. IInv /\ [Next]_vars => IInv' /\ [Contract!Next]_Contract!vars
  BY StepIInv
<1> QED
  BY <1>1, <1>2, <1>3, PTL DEF Spec, ImplementsTrainStep, Contract!Spec

------------------------------------------------------------------------------
(***************************************************************************)
(* Verdicts, whether or not snapshots fail: a restored snapshot, however   *)
(* old, holds no batch that the step did not find learned.                 *)
(***************************************************************************)
Learned == applied \cup pending

LearnedBefore ==
  /\ pc \in {"begin", "verdict", "backward"} => Learned \subseteq 0..step - 1
  /\ pc \in {"post", "end"} => Learned \subseteq 0..step
  /\ pc \in {"verdict", "backward", "post", "end"} => step < MaxStep /\ DOMAIN entry = 0..step
  /\ pc = "begin" => DOMAIN entry = 0..step - 1
  /\ snap # None => snap.weights = None \/ snap.weights \subseteq 0..step - 1

\* The slot that the loop reads is written by the last verdict of the step only.
SlotInv ==
  /\ pc = "verdict" => signal = CONTINUE
  /\ pc = "backward" => sig = CONTINUE /\ signal = CONTINUE
  /\ pc \in {"post", "end"} => ((signal = STOP_TRAINING) <=> (sig = STOP_TRAINING))

VerdictInv ==
  /\ TypeOK /\ LearnedBefore /\ SlotInv
  /\ pc \in {"post", "end"} /\ sig # CONTINUE => step \notin Learned

LEMMA InitVerdictInv == Init => VerdictInv
BY RuleAssumption DEF Init, VerdictInv, TypeOK, LearnedBefore, SlotInv, Learned, Signals,
   CONTINUE, Batches

LEMMA StepVerdictInv ==
  ASSUME VerdictInv, [Next]_vars
  PROVE  VerdictInv'
<1> USE RuleAssumption DEF CONTINUE, SKIP_STEP, RETRY_STEP, STOP_TRAINING, Signals
<1>t. TypeOK /\ LearnedBefore /\ SlotInv
  BY DEF VerdictInv
<1>1. ASSUME NEW o \in Outcomes, Begin(o) PROVE VerdictInv'
  <2>1. /\ pc = "begin" /\ pc' = "verdict" /\ step < MaxStep /\ signal' = CONTINUE /\ retries' = 0
        /\ UNCHANGED <<step, applied, pending, dropped, micro, sig, lost>>
    BY <1>1 DEF Begin, grads
  <2>2. step \in Batches /\ applied \in SUBSET Batches /\ applied \subseteq 0..step - 1
    BY <1>t, <2>1 DEF TypeOK, Batches, LearnedBefore, Learned
  <2>3. snap' \in {[step |-> step, weights |-> applied], [step |-> step, weights |-> None], snap}
    BY <1>1 DEF Begin, TakeSnapshot, Outcomes
  <2>4. snap' = None \/ snap' \in [step : Batches, weights : {None} \cup SUBSET Batches]
    <3>1. /\ [step |-> step, weights |-> applied] \in [step : Batches, weights : {None} \cup SUBSET Batches]
          /\ [step |-> step, weights |-> None] \in [step : Batches, weights : {None} \cup SUBSET Batches]
      BY <2>2
    <3> QED
      BY <1>t, <2>3, <3>1, Zenon DEF TypeOK
  <2>5. \A s \in DOMAIN entry' : entry'[s] \in [weights : SUBSET Batches, snapshot : Outcomes]
    <3>1. \A s \in 0..step : s = step \/ s \in DOMAIN entry
      BY <1>t, <2>1, <2>2 DEF LearnedBefore, Batches
    <3>2. entry' = [s \in 0..step |-> IF s = step THEN [weights |-> applied, snapshot |-> o] ELSE entry[s]]
      BY <1>1 DEF Begin, Entered
    <3> QED
      BY <1>t, <2>2, <3>1, <3>2 DEF TypeOK
  <2>6. TypeOK'
    BY <1>t, <2>1, <2>4, <2>5 DEF TypeOK
  <2>7. LearnedBefore'
    <3>1. DOMAIN entry' = 0..step
      BY <1>1 DEF Begin, Entered
    <3> QED
      BY <1>t, <2>1, <2>2, <2>3, <3>1 DEF LearnedBefore, Learned
  <2> QED
    BY <1>t, <2>1, <2>6, <2>7 DEF VerdictInv, SlotInv
<1>2. CASE Retry
  <2>1. /\ pc = "verdict" /\ UNCHANGED <<pc, step, pending, dropped, micro, signal, snap, entry>>
        /\ retries' \in 0..MaxRetries /\ sig' \in Signals
        /\ applied' = Restored /\ lost' = lost \cup (applied \ Restored)
    BY <1>2, <1>t DEF Retry, TypeOK
  <2>2. applied' \subseteq Batches /\ applied' \subseteq 0..step - 1 /\ lost' \subseteq Batches
    BY <1>t, <2>1 DEF TypeOK, LearnedBefore, Learned, Restored
  <2>3. TypeOK'
    BY <1>t, <2>1, <2>2 DEF TypeOK
  <2> QED
    BY <1>t, <2>1, <2>2, <2>3 DEF VerdictInv, LearnedBefore, SlotInv, Learned
<1>3. ASSUME NEW s \in Signals, Verdict(s) PROVE VerdictInv'
  <2>1. /\ pc = "verdict" /\ UNCHANGED <<step, retries, snap, entry, lost, applied>>
        /\ sig' = s /\ pc' = IF s = CONTINUE THEN "backward" ELSE "post"
        /\ signal' = IF s = CONTINUE THEN signal ELSE IF s = RETRY_STEP THEN SKIP_STEP ELSE s
        /\ s = CONTINUE => UNCHANGED <<pending, dropped, micro>>
        /\ s # CONTINUE => dropped' = dropped \cup pending \cup {step} /\ pending' = {} /\ micro' = 0
    BY <1>3 DEF Verdict, Propagated, grads
  <2>2. step \in Batches /\ Learned \subseteq 0..step - 1 /\ signal = CONTINUE
    BY <1>t, <2>1 DEF TypeOK, LearnedBefore, SlotInv, Batches
  <2>a. /\ pc' \in {"backward", "post"} /\ dropped' \subseteq Batches /\ pending' \subseteq pending
        /\ micro' \in Nat /\ signal' \in Signals
    <3>1. CASE s = CONTINUE
      BY <1>t, <2>1, <2>2, <3>1 DEF TypeOK
    <3>2. CASE s # CONTINUE
      <4>1. dropped' = dropped \cup pending \cup {step} /\ pending' = {} /\ micro' = 0
        BY <2>1, <3>2
      <4>2. dropped \subseteq Batches /\ pending \subseteq Batches
        BY <1>t DEF TypeOK
      <4>3. dropped' \subseteq Batches
        BY <2>2, <4>1, <4>2
      <4>4. pc' = "post" /\ signal' \in Signals
        BY <2>1, <3>2
      <4> QED
        BY <4>1, <4>3, <4>4
    <3> QED
      BY <3>1, <3>2
  <2>3. TypeOK'
    BY <1>t, <2>1, <2>a DEF TypeOK
  <2>b. Learned' \subseteq Learned /\ step \in Nat
    BY <2>1, <2>2, <2>a DEF Learned, Batches
  <2>4. LearnedBefore' /\ (pc' = "post" => step' \notin Learned')
    BY <1>t, <2>1, <2>2, <2>a, <2>b DEF LearnedBefore
  <2>5. SlotInv'
    BY <2>1, <2>2 DEF SlotInv
  <2> QED
    BY <2>1, <2>3, <2>4, <2>5 DEF VerdictInv
<1>4. CASE Backward
  <2>1. /\ pc = "backward" /\ pc' = "post" /\ micro' = micro + 1
        /\ UNCHANGED <<step, dropped, retries, sig, signal, snap, entry, lost>>
        /\ Learned' = Learned \cup {step}
        /\ applied' \subseteq Learned \cup {step} /\ pending' \subseteq Learned \cup {step}
    BY <1>4 DEF Backward, Learned
  <2>2. step \in Batches /\ Learned \subseteq 0..step - 1 /\ sig = CONTINUE /\ signal = CONTINUE
    BY <1>t, <2>1 DEF TypeOK, LearnedBefore, SlotInv, Batches
  <2>3. TypeOK'
    BY <1>t, <2>1, <2>2 DEF TypeOK, Learned
  <2>4. LearnedBefore'
    BY <1>t, <2>1, <2>2 DEF LearnedBefore, TypeOK
  <2> QED
    BY <2>1, <2>2, <2>3, <2>4 DEF VerdictInv, SlotInv
<1>5. CASE StepEnd \/ Raise
  <2>1. /\ UNCHANGED <<step, applied, pending, dropped, micro, retries, sig, signal, snap, entry, lost>>
        /\ (pc = "post" /\ pc' = "end") \/ pc' = "halted"
    BY <1>5 DEF StepEnd, Raise, grads
  <2>2. TypeOK'
    BY <1>t, <2>1 DEF TypeOK
  <2> QED
    BY <1>t, <2>1, <2>2 DEF VerdictInv, LearnedBefore, SlotInv, Learned
<1>6. CASE NextStep
  <2>1. /\ pc = "end" /\ pc' \in {"begin", "halted"} /\ step' = step + 1
        /\ UNCHANGED <<applied, pending, dropped, micro, retries, sig, signal, snap, entry, lost>>
    BY <1>6 DEF NextStep, grads
  <2>2. step < MaxStep /\ Learned \subseteq 0..step /\ step \in Nat
    BY <1>t, <2>1 DEF LearnedBefore, TypeOK
  <2>3. TypeOK'
    BY <1>t, <2>1, <2>2 DEF TypeOK
  <2>4. LearnedBefore'
    BY <1>t, <2>1, <2>2 DEF LearnedBefore, Learned
  <2> QED
    BY <2>1, <2>3, <2>4 DEF VerdictInv, SlotInv
<1>8. CASE UNCHANGED vars
  BY <1>8 DEF vars, VerdictInv, TypeOK, LearnedBefore, SlotInv, Learned
<1> QED
  BY <1>1, <1>2, <1>3, <1>4, <1>5, <1>6, <1>8 DEF Next

\* A batch that was turned down is in neither weights nor pending gradients,
\* whatever the callbacks answer, and also when snapshots fail.
THEOREM RejectedStaysOut == Spec => []RejectedNeverLearned
<1>1. VerdictInv /\ [Next]_vars => VerdictInv'
  BY StepVerdictInv
<1>2. VerdictInv => RejectedNeverLearned
  BY DEF VerdictInv, RejectedNeverLearned, Learned
<1> QED
  BY <1>1, <1>2, InitVerdictInv, PTL DEF Spec

\* The loop stops exactly when a callback of this very step asked for it.
THEOREM StopsAreOfThisStep == Spec => []StopIsOfThisStep
<1>1. VerdictInv /\ [Next]_vars => VerdictInv'
  BY StepVerdictInv
<1>2. VerdictInv => StopIsOfThisStep
  BY DEF VerdictInv, SlotInv, StopIsOfThisStep
<1> QED
  BY <1>1, <1>2, InitVerdictInv, PTL DEF Spec

------------------------------------------------------------------------------
(***************************************************************************)
(* Replays: the snapshot at hand is that of the last step that had one.    *)
(***************************************************************************)
SnapshotIsLast ==
  IF snap = None
  THEN \A s \in DOMAIN entry : entry[s].snapshot = "raised"
  ELSE /\ snap.step \in DOMAIN entry
       /\ \/ entry[snap.step].snapshot = "taken" /\ snap.weights = entry[snap.step].weights
          \/ entry[snap.step].snapshot = "uncopied" /\ snap.weights = None
       /\ \A s \in DOMAIN entry : s > snap.step => entry[s].snapshot = "raised"

ReplayInv ==
  /\ VerdictInv
  /\ pc # "halted" => SnapshotIsLast
  /\ pc = "verdict" => \/ applied = entry[step].weights
                       \/ snap # None /\ snap.weights # None /\ applied = snap.weights

LEMMA InitReplayInv == Init => ReplayInv
BY InitVerdictInv DEF Init, ReplayInv, SnapshotIsLast

LEMMA StepReplayInv == ReplayInv /\ [Next]_vars => ReplayInv'
<1> SUFFICES ASSUME ReplayInv, [Next]_vars PROVE ReplayInv'
  OBVIOUS
<1>0. VerdictInv /\ VerdictInv' /\ LearnedBefore /\ TypeOK
  BY StepVerdictInv DEF ReplayInv, VerdictInv
<1>1. ASSUME NEW o \in Outcomes, Begin(o) PROVE ReplayInv'
  <2>1. /\ pc = "begin" /\ pc' = "verdict" /\ step \in Nat /\ UNCHANGED <<step, applied>>
        /\ entry' = [s \in 0..step |-> IF s = step THEN [weights |-> applied, snapshot |-> o]
                                                  ELSE entry[s]]
        /\ TakeSnapshot(o)
    BY <1>0, <1>1 DEF Begin, Entered, grads, TypeOK
  <2>2. DOMAIN entry = 0..step - 1 /\ DOMAIN entry' = 0..step
    BY <1>0, <2>1 DEF LearnedBefore
  <2>3. entry'[step].weights = applied /\ entry'[step].snapshot = o
    BY <2>1
  <2>4. \A s \in 0..step - 1 : entry'[s] = entry[s] /\ s \in 0..step /\ s # step
    BY <2>1
  <2>5. SnapshotIsLast'
    <3>1. CASE o = "raised"
      <4>1. snap' = snap
        BY <2>1, <3>1 DEF TakeSnapshot
      <4>2. \A s \in 0..step : s = step \/ s \in 0..step - 1
        BY <2>1
      <4> QED
        BY <2>1, <2>2, <2>3, <2>4, <3>1, <4>1, <4>2 DEF ReplayInv, SnapshotIsLast
    <3>2. CASE o # "raised"
      <4>1. /\ snap' = [step |-> step, weights |-> IF o = "taken" THEN applied ELSE None]
            /\ o \in {"taken", "uncopied"}
        BY <2>1, <3>2 DEF TakeSnapshot, Outcomes
      <4>2. snap' # None
        <5>1. step \in Batches /\ applied \in SUBSET Batches
          BY <1>0, <1>1, RuleAssumption DEF Begin, TypeOK, Batches
        <5>2. snap' \in [step : Batches, weights : {None} \cup SUBSET Batches]
          BY <4>1, <5>1
        <5> QED
          BY <5>2, RuleAssumption DEF RuleAssumption
      <4> QED
        BY <2>1, <2>2, <2>3, <4>1, <4>2 DEF SnapshotIsLast
    <3> QED
      BY <3>1, <3>2
  <2> QED
    BY <1>0, <2>1, <2>3, <2>5 DEF ReplayInv
<1>2. CASE Retry
  <2>1. UNCHANGED <<pc, step, snap, entry>> /\ pc = "verdict" /\ applied' = Restored
    BY <1>2 DEF Retry
  <2> QED
    BY <1>0, <2>1 DEF ReplayInv, SnapshotIsLast, Restored
<1>3. CASE (\E s \in Signals : Verdict(s)) \/ Backward \/ StepEnd \/ NextStep \/ Raise
  <2>1. UNCHANGED <<snap, entry>> /\ pc # "halted" /\ pc' # "verdict"
    BY <1>0, <1>3 DEF Verdict, Backward, StepEnd, NextStep, Raise, TypeOK
  <2> QED
    BY <1>0, <2>1 DEF ReplayInv, SnapshotIsLast
<1>4. CASE UNCHANGED vars
  BY <1>0, <1>4 DEF vars, ReplayInv, SnapshotIsLast
<1> QED
  BY <1>1, <1>2, <1>3, <1>4 DEF Next

\* A replay starts from the weights its step started with, or, when the step's
\* snapshot raised, from those of the last step that had a snapshot.
THEOREM RetriesSeePreStepState == Spec => []RetrySeesPreStepState
<1>1. ReplayInv => RetrySeesPreStepState
  <2> SUFFICES ASSUME ReplayInv, pc = "verdict", applied # entry[step].weights
               PROVE  \E s \in 0..step - 1 :
                        /\ applied = entry[s].weights /\ entry[s].snapshot = "taken"
                        /\ \A r \in s + 1..step : entry[r].snapshot = "raised"
    BY DEF RetrySeesPreStepState
  <2>1. /\ snap # None /\ snap.weights # None /\ applied = snap.weights /\ SnapshotIsLast
        /\ DOMAIN entry = 0..step /\ step \in Nat
    BY DEF ReplayInv, VerdictInv, LearnedBefore, TypeOK
  <2>2. /\ snap.step \in 0..step /\ entry[snap.step].snapshot = "taken"
        /\ applied = entry[snap.step].weights
        /\ \A s \in 0..step : s > snap.step => entry[s].snapshot = "raised"
    BY <2>1 DEF SnapshotIsLast
  <2>3. snap.step \in 0..step - 1 /\ \A r \in snap.step + 1..step : r \in 0..step /\ r > snap.step
    BY <2>1, <2>2
  <2> QED
    BY <2>2, <2>3
<1> QED
  BY <1>1, InitReplayInv, StepReplayInv, PTL DEF Spec
===============================================================================
