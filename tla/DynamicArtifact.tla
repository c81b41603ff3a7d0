---------------------------- MODULE DynamicArtifact ----------------------------
(***************************************************************************)
(* data/artifacts/dynamic_producer.py: the training thread submits batches *)
(* to a bounded queue, a worker thread produces an artifact of each.  A    *)
(* callback object may see more than one fit().  Each artifact goes to the *)
(* directory of its version: one per step, or the same one every time when *)
(* the version is fixed.                                                   *)
(***************************************************************************)
EXTENDS Integers, Sequences, SequencesExt, FiniteSets, FiniteSetsExt

CONSTANTS
  QueueSize,   \* output.queue_size
  Every,       \* trigger.every_n_steps
  MaxSteps,    \* bound: training steps of all fits together
  MaxFits      \* bound: calls of fit()

ASSUME DynamicAssumption ==
  QueueSize \in Nat \ {0} /\ Every \in Nat \ {0} /\ MaxSteps \in Nat /\ MaxFits \in Nat

Steps == 1..MaxSteps
Fits == 1..MaxFits
Poison == 0
NoStep == -1

VARIABLES
  fixed,       \* output.version is not "auto"
  training,    \* "no", "yes", "stopping" or "joining": the training thread
  fits, step,  \* fit() calls and training steps so far
  lastStep,    \* _last_step
  queue, stop, dropped, produced,   \* _q, _stop, _dropped, _produced
  worker,      \* of each fit: "none", "test", "get", "produce" or "done"
  item,        \* step each worker has taken
  stored,      \* the step whose batch each directory holds; 0 the fixed one
  taken,       \* history: steps submitted
  lost,        \* history: steps dropped by a full queue
  made, failed \* history: steps whose production ended, and how

dynamicVars == <<fixed, training, fits, step, lastStep, queue, stop, dropped, produced,
                 worker, item, stored, taken, lost, made, failed>>

DynamicInit ==
  /\ fixed \in BOOLEAN /\ training = "no" /\ fits = 0 /\ step = 0 /\ lastStep = NoStep
  /\ queue = <<>> /\ stop = FALSE /\ dropped = 0 /\ produced = 0
  /\ worker = [f \in Fits |-> "none"] /\ item = [f \in Fits |-> NoStep]
  /\ stored = [d \in {0} \cup Steps |-> NoStep]
  /\ taken = {} /\ lost = {} /\ made = {} /\ failed = {}

OnTrainStart ==
  /\ training = "no" /\ fits < MaxFits
  /\ training' = "yes" /\ fits' = fits + 1
  /\ worker' = [worker EXCEPT ![fits + 1] = "test"]
  /\ UNCHANGED <<fixed, step, lastStep, queue, stop, dropped, produced, item,
                 stored, taken, lost, made, failed>>

\* Mutant: a submission that finds the queue full is forgotten.
SubmitUncounted(n) ==
  IF Len(queue) < QueueSize
  THEN queue' = Append(queue, n) /\ UNCHANGED <<dropped, lost>>
  ELSE UNCHANGED <<queue, dropped, lost>>

\* put_nowait() of a submission: accepted, or dropped and counted.
Submit(n) ==
  IF Len(queue) < QueueSize
  THEN queue' = Append(queue, n) /\ UNCHANGED <<dropped, lost>>
  ELSE dropped' = dropped + 1 /\ lost' = lost \cup {n} /\ UNCHANGED queue

\* on_step_end(): every so many steps, once per step, and if the condition
\* holds.  A rule that learns several times in a step calls it again with the
\* same step.
OnStepEnd(n, condition) ==
  /\ training = "yes" /\ n \in {step, step + 1} \cap Steps
  /\ step' = n
  /\ IF (n % Every) = 0 /\ n # lastStep
     THEN /\ lastStep' = n
          /\ IF condition THEN Submit(n) /\ taken' = taken \cup {n}
             ELSE UNCHANGED <<queue, dropped, lost, taken>>
     ELSE UNCHANGED <<lastStep, queue, dropped, lost, taken>>
  /\ UNCHANGED <<fixed, training, fits, stop, produced, worker, item, stored, made, failed>>

\* on_train_end() up to the join: the flag, then the poison pill if it fits.
OnTrainEnd ==
  /\ training = "yes"
  /\ stop' = TRUE /\ training' = "stopping"
  /\ UNCHANGED <<fixed, fits, step, lastStep, queue, dropped, produced, worker,
                 item, stored, taken, lost, made, failed>>

PutPoison ==
  /\ training = "stopping"
  /\ queue' = IF Len(queue) < QueueSize THEN Append(queue, Poison) ELSE queue
  /\ training' = "joining"
  /\ UNCHANGED <<fixed, fits, step, lastStep, stop, dropped, produced, worker,
                 item, stored, taken, lost, made, failed>>

\* join(): returns when the worker has ended, or after ten seconds.
Join ==
  /\ training = "joining"
  /\ training' = "no"
  /\ UNCHANGED <<fixed, fits, step, lastStep, queue, stop, dropped, produced,
                 worker, item, stored, taken, lost, made, failed>>

Moves(f, from, to) == worker[f] = from /\ worker' = [worker EXCEPT ![f] = to]

\* Mutant: the loop has no end of its own, it waits for the pill.
TestStopNever(f) ==
  /\ Moves(f, "test", "get")
  /\ UNCHANGED <<fixed, training, fits, step, lastStep, queue, stop, dropped,
                 produced, item, stored, taken, lost, made, failed>>

\* The head of _loop().
TestStop(f) ==
  /\ Moves(f, "test", IF stop THEN "done" ELSE "get")
  /\ UNCHANGED <<fixed, training, fits, step, lastStep, queue, stop, dropped,
                 produced, item, stored, taken, lost, made, failed>>

\* get(timeout=0.5): nothing came, an item, or the pill.
GetTimeout(f) ==
  /\ queue = <<>> /\ Moves(f, "get", "test")
  /\ UNCHANGED <<fixed, training, fits, step, lastStep, queue, stop, dropped,
                 produced, item, stored, taken, lost, made, failed>>

Get(f) ==
  /\ queue # <<>> /\ queue' = Tail(queue)
  /\ IF Head(queue) = Poison THEN Moves(f, "get", "done") /\ UNCHANGED item
     ELSE Moves(f, "get", "produce") /\ item' = [item EXCEPT ![f] = Head(queue)]
  /\ UNCHANGED <<fixed, training, fits, step, lastStep, stop, dropped, produced,
                 stored, taken, lost, made, failed>>

Directory(n) == IF fixed THEN 0 ELSE n

\* _produce_one() to its end.  The samples of every batch have the same names:
\* in a directory that is complete they are taken for present and passed over,
\* and the production counts all the same.
Produce(f) ==
  /\ Moves(f, "produce", "test") /\ item' = [item EXCEPT ![f] = NoStep]
  /\ LET n == item[f] IN
     /\ stored' = [stored EXCEPT ![Directory(n)] = IF @ = NoStep THEN n ELSE @]
     /\ made' = made \cup {n}
  /\ produced' = produced + 1
  /\ UNCHANGED <<fixed, training, fits, step, lastStep, queue, stop, dropped,
                 taken, lost, failed>>

\* _produce_one() raises: logged, and the artifact is skipped.
ProduceFails(f) ==
  /\ Moves(f, "produce", "test") /\ item' = [item EXCEPT ![f] = NoStep]
  /\ failed' = failed \cup {item[f]}
  /\ UNCHANGED <<fixed, training, fits, step, lastStep, queue, stop, dropped,
                 produced, stored, taken, lost, made>>

Work(f) == TestStop(f) \/ GetTimeout(f) \/ Get(f) \/ Produce(f) \/ ProduceFails(f)

DynamicNext ==
  \/ OnTrainStart \/ OnTrainEnd \/ PutPoison \/ Join
  \/ \E n \in Steps, c \in BOOLEAN : OnStepEnd(n, c)
  \/ \E f \in Fits : Work(f)

\* The training thread reaches the end of on_train_end(), and a thread that can
\* go on does: get() and a production end after some time.
Fairness == WF_dynamicVars(PutPoison) /\ WF_dynamicVars(Join) /\ \A f \in Fits : WF_dynamicVars(Work(f))
DynamicSpec == DynamicInit /\ [][DynamicNext]_dynamicVars /\ Fairness
------------------------------------------------------------------------------
DynamicTypeOK ==
  /\ training \in {"no", "yes", "stopping", "joining"}
  /\ queue \in BoundedSeq({Poison} \cup Steps, QueueSize)
  /\ dropped \in 0..MaxSteps /\ produced \in 0..MaxSteps
  /\ \A f \in Fits : worker[f] = "produce" <=> item[f] \in Steps

InWork == {item[f] : f \in {g \in Fits : worker[g] = "produce"}}
Waiting == {n \in Steps : Contains(queue, n)}

\* Each step that was submitted is in one place: waiting, with a worker, made,
\* failed, or dropped by a full queue, and the two counters tell how many were
\* made and dropped.  A directory holds the batch of a production that ended, its
\* own one unless the version is fixed.
Accounted ==
  /\ DynamicTypeOK
  /\ taken = Waiting \cup InWork \cup made \cup failed \cup lost
  /\ produced = Cardinality(made) /\ dropped = Cardinality(lost)
  /\ Cardinality(taken) = Cardinality(Waiting) + Cardinality(InWork)
                            + produced + Cardinality(failed) + dropped
  /\ \A n \in made : stored[Directory(n)] \in IF fixed THEN made ELSE {n}

\* In the first fit what waits in the queue is taken, whatever productions fail,
\* until the fit ends; and every worker ends after its fit does, although the
\* pill does not get into a full queue.  (In a later fit nothing is served: the
\* stop flag stays set.)
WorkersServeAndEnd ==
  /\ \A n \in Steps : (fits = 1 /\ n \in Waiting) ~> (n \notin Waiting \/ stop)
  /\ \A f \in Fits : (fits = f /\ training = "stopping") ~> (worker[f] = "done")
===============================================================================
