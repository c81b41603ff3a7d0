--------------------------- MODULE RLTrainer_proofs ---------------------------
(***************************************************************************)
(* What the update rule is given is of this rollout and of this fit.  The  *)
(* properties of RLTrainer speak of the moment a minibatch has been        *)
(* scored; the inductive invariant says what the buffer, the advantages,   *)
(* the value head and the reference policy are on the way there, through   *)
(* fits that raised in the middle of a pass and deaths of the process.     *)
(***************************************************************************)
EXTENDS RLTrainer, FiniteSetTheorems, SequenceTheorems, TLAPS

Episode == [roll : 0..1, row : 1..MaxEpisodes, by : Nat]

\* From the end of a rollout to the last of its minibatches.
Using == {"gae", "batch", "verdict"}
InStep == Using \cup {"rollout", "tail"}
Running == InStep \cup {"fetch", "save"}

\* The counters, and the names that weights, head and reference carry.
Counters ==
  /\ algo \in Algos /\ useHead \in BOOLEAN /\ kl \in BOOLEAN /\ over \in BOOLEAN
  /\ pc \in Running \cup {"idle", "failed"}
  /\ target \in 0..MaxStep /\ step \in 0..MaxStep /\ (pc \in InStep => step < target)
  /\ cursor \in 0..LoaderLen /\ rolls \in 0..1
  /\ fits \in 0..MaxFits /\ crashes \in 0..MaxCrashes
  /\ minted \in Nat /\ weights \in Names /\ began \in Names
  /\ ref \in Names \cup {None, Base} /\ lora \in BOOLEAN
  /\ ckpt = None \/ ckpt \in [step : 0..MaxStep, weights : Names]

\* The value head is trained with the model from the moment it exists.
HeadInv == head = None \/ head = weights

\* No episode is twice in the buffer; all are of one rollout by one policy, and
\* until the advantages are there that policy has not moved.
BufferInv ==
  /\ buffer \in Seq(Episode) /\ Len(buffer) <= BufferSize
  /\ \A i \in DOMAIN buffer : buffer[i].by \in Names
  /\ \A i, j \in DOMAIN buffer : buffer[i].row = buffer[j].row => i = j
  /\ \A i, j \in DOMAIN buffer : buffer[i].by = buffer[j].by
  /\ pc \in Using => \A i \in DOMAIN buffer : buffer[i].roll = rolls
  /\ pc = "gae" => \A i \in DOMAIN buffer : buffer[i].by = weights

\* How far the passes over the buffer have come.
PassInv ==
  /\ DOMAIN seen = DOMAIN buffer /\ left \subseteq DOMAIN buffer
  /\ pass \in 0..Passes /\ (pc \in Using => pass # 0)
  /\ pc \in Using =>
       \A i \in DOMAIN buffer : seen[i] = pass - IF i \in left THEN 1 ELSE 0
  /\ pc = "tail" /\ ~over => \A i \in DOMAIN buffer : seen[i] = Passes

\* The advantages of a rollout stay those of its episodes, over a baseline of the
\* policy that wrote them, while the passes move the value head.
AdvantageInv ==
  pc \in {"batch", "verdict"} /\ algo = "ppo" =>
    /\ DOMAIN adv = DOMAIN buffer
    /\ \A i \in DOMAIN buffer :
         adv[i].of = buffer[i] /\ adv[i].base \in {None, buffer[i].by}

\* The reference policy of a fit with a KL term is the one the fit began with, or
\* that of the base weights.
Reference == IF lora THEN Base ELSE began

RefInv == pc \in Running => ref = IF kl THEN Reference ELSE None

\* The minibatch in work was drawn from the buffer as it is.
BatchInv ==
  /\ \A r \in batch : r.ep \in Episode /\ r.ep.by \in Names
  /\ pc = "verdict" => \E S \in SUBSET DOMAIN buffer : batch = Collate(S)

IInv ==
  /\ Counters /\ HeadInv /\ BufferInv /\ PassInv /\ AdvantageInv
  /\ RefInv /\ BatchInv /\ KLOfThisFit
------------------------------------------------------------------------------
\* A row of the buffer type is what the model calls an episode.
LEMMA EpisodeShape ==
  ASSUME NEW e \in Episode, e.by \in Names
  PROVE  IsEpisode(e)
BY DEF Episode, IsEpisode

\* The invariant implies the model's own type invariant.
LEMMA TypesFollow == IInv => TypeOK
<1> SUFFICES ASSUME IInv PROVE TypeOK
  OBVIOUS
<1>1. \A i \in DOMAIN buffer : IsEpisode(buffer[i])
  BY EpisodeShape DEF IInv, BufferInv
<1>2. \A r \in batch : IsEpisode(r.ep)
  BY EpisodeShape DEF IInv, BatchInv
<1>3. Len(buffer) <= BufferSize /\ DOMAIN seen = DOMAIN buffer /\ left \subseteq DOMAIN buffer
  BY DEF IInv, BufferInv, PassInv
<1>4. pc \in {"batch", "verdict"} /\ algo = "ppo" => DOMAIN adv = DOMAIN buffer
  BY DEF IInv, AdvantageInv
<1>5. head \in Names \cup {None} /\ pass \in 0..Passes
  BY DEF IInv, HeadInv, PassInv, Counters
<1> QED
  BY <1>1, <1>2, <1>3, <1>4, <1>5 DEF IInv, Counters, TypeOK, Running, InStep, Using

\* The constants are what the proofs take them for.
LEMMA Sizes ==
  /\ LoaderLen \in Nat \ {0} /\ MaxEpisodes \in Nat \ {0} /\ BufferSize \in Nat \ {0}
  /\ Passes \in Nat \ {0} /\ MaxStep \in Nat \ {0} /\ MaxFits \in Nat \ {0}
  /\ MaxCrashes \in Nat /\ None \notin Nat /\ None # Base /\ Algos \subseteq {"ppo", "grpo"}
<1>1. Base \in Int
  BY DEF Base
<1>2. None \notin Int
  BY Zenon, RLAssumption
<1>3. /\ \A c \in {LoaderLen, MaxEpisodes, BufferSize, MiniBatch, Passes, CkptEvery,
                  MaxStep, MaxFits} : c \in Nat \ {0}
      /\ MaxCrashes \in Nat /\ Algos \subseteq {"ppo", "grpo"}
  BY Zenon, RLAssumption
<1>4. None # Base
  BY Zenon, <1>1, <1>2
<1>5. None \notin Nat
  BY SMT, <1>2
<1>6. /\ LoaderLen \in Nat \ {0} /\ MaxEpisodes \in Nat \ {0} /\ BufferSize \in Nat \ {0}
      /\ Passes \in Nat \ {0} /\ MaxStep \in Nat \ {0} /\ MaxFits \in Nat \ {0}
  BY Zenon, <1>3
<1> QED
  BY Zenon, <1>3, <1>4, <1>5, <1>6

\* What a rollout writes, and what of it the buffer keeps.
LEMMA HeldEpisodes ==
  ASSUME NEW n \in 1..MaxEpisodes, weights \in Names, minted \in Nat, rolls \in 0..1
  PROVE  LET b == Held(Episodes(n)) IN
         /\ b \in Seq(Episode) /\ Len(b) <= BufferSize
         /\ \A i \in DOMAIN b : b[i].by = weights /\ b[i].roll = 1 - rolls
         /\ \A i, j \in DOMAIN b : b[i].row = b[j].row => i = j
<1> DEFINE eps == Episodes(n)
           m == IF Len(eps) > BufferSize THEN Len(eps) - BufferSize + 1 ELSE 1
           b == SubSeq(eps, m, Len(eps))
<1>1. /\ n \in Nat \ {0} /\ BufferSize \in Nat \ {0} /\ MaxEpisodes \in Nat
      /\ weights \in Nat /\ 1 - rolls \in 0..1
  BY Sizes DEF Names
<1>2. \A i \in 1..n : /\ eps[i] = [roll |-> 1 - rolls, row |-> i, by |-> weights]
                      /\ eps[i] \in Episode
  BY <1>1 DEF Episodes, Episode
<1>3. eps \in Seq(Episode) /\ Len(eps) = n
  <2>1. eps = [i \in 1..n |-> [roll |-> 1 - rolls, row |-> i, by |-> weights]]
    BY DEF Episodes
  <2> HIDE DEF eps
  <2>2. eps \in [1..n -> Episode]
    BY <1>2, <2>1
  <2> QED
    BY <1>1, <2>2
<1>4. m \in 1..n /\ n - m + 1 \in 1..BufferSize
  BY <1>1, <1>3
<1>5. Held(Episodes(n)) = b /\ b = SubSeq(eps, m, n)
  BY <1>3 DEF Held
<1> HIDE DEF eps, m, b
<1>6. /\ b \in Seq(Episode) /\ Len(b) = n - m + 1
      /\ \A i \in 1..n - m + 1 : b[i] = eps[m + i - 1]
  <2>1. ASSUME NEW i \in m..n PROVE eps[i] \in Episode
    <3>1. i \in 1..n
      BY <1>1, <1>4
    <3> QED
      BY <1>2, <3>1
  <2>2. m \in Int /\ n \in Int /\ m <= n
    BY <1>1, <1>4
  <2> QED
    BY <1>5, <2>1, <2>2, SubSeqProperties
<1>7. DOMAIN b = 1..n - m + 1
  BY <1>6, <1>1, <1>4
<1>8. ASSUME NEW i \in DOMAIN b
      PROVE  b[i].by = weights /\ b[i].roll = 1 - rolls /\ b[i].row = m + i - 1
  <2>1. m + i - 1 \in 1..n /\ i \in 1..n - m + 1
    BY <1>1, <1>4, <1>7
  <2>2. b[i] = [roll |-> 1 - rolls, row |-> m + i - 1, by |-> weights]
    BY <1>2, <1>6, <2>1
  <2> QED
    BY <2>2
<1>9. \A i, j \in DOMAIN b : b[i].row = b[j].row => i = j
  BY <1>1, <1>4, <1>7, <1>8
<1> QED
  BY <1>1, <1>4, <1>5, <1>6, <1>8, <1>9

\* The initial states satisfy the invariant.
LEMMA InitIInv == Init => IInv
<1> SUFFICES ASSUME Init PROVE IInv
  OBVIOUS
<1>1. pc = "idle" /\ buffer = <<>> /\ batch = {} /\ left = {} /\ seen = <<>>
  BY DEF Init
<1>a. kl \in BOOLEAN /\ over \in BOOLEAN
  BY DEF Init
<1>2. Counters /\ HeadInv
  BY <1>a, Sizes DEF Init, Counters, HeadInv, Names, Running, InStep, Using
<1>3. BufferInv
  BY <1>1, Sizes DEF BufferInv, Using
<1>4. PassInv
  BY <1>1, Sizes DEF Init, PassInv, Using
<1>5. AdvantageInv /\ RefInv /\ BatchInv /\ KLOfThisFit
  BY <1>1 DEF AdvantageInv, RefInv, BatchInv, KLOfThisFit, Running, InStep, Using
<1> QED
  BY <1>2, <1>3, <1>4, <1>5 DEF IInv

\* The counters are within their bounds after every step.
LEMMA StepCounters ==
  ASSUME IInv, [Next]_vars
  PROVE  Counters'
<1> USE Sizes DEF config, model, position, rollout, inner, fitting, saved, Running, InStep,
                  Using, Names
<1>c. Counters
  BY DEF IInv
<1>1. ASSUME NEW k \in BOOLEAN, NEW t \in 1..MaxStep, Fit(k, t) PROVE Counters'
  <2>1. ref' \in Names' \cup {None, Base}
    BY <1>c, <1>1 DEF Fit, Counters, Frozen
  <2>2. /\ weights' = weights /\ minted' = minted /\ began' = weights /\ kl' = k /\ pc' = "fetch"
        /\ fits' \in 0..MaxFits /\ target' = t /\ cursor' = 0
        /\ UNCHANGED <<algo, useHead, lora, step, rolls, over, crashes, ckpt>>
    BY <1>c, <1>1 DEF Fit, Counters
  <2> QED
    BY <1>c, <2>1, <2>2 DEF Counters
<1>2. CASE Fetch
  BY <1>c, <1>2 DEF Fetch, Counters
<1>3. ASSUME NEW n \in 1..MaxEpisodes, Rollout(n) PROVE Counters'
  <2>1. over' \in BOOLEAN
    BY <1>3 DEF Rollout, Enter
  <2> QED
    BY <1>c, <1>3, <2>1 DEF Rollout, Enter, Counters
<1>4. CASE Advantages
  BY <1>c, <1>4 DEF Advantages, Counters
<1>5. ASSUME NEW S \in SUBSET left, Score(S) PROVE Counters'
  BY <1>c, <1>5 DEF Score, Counters
<1>6. ASSUME NEW skip \in BOOLEAN, NEW high \in BOOLEAN, Verdict(skip, high) PROVE Counters'
  BY <1>c, <1>6 DEF Verdict, Counters
<1>7. CASE NextPass
  BY <1>c, <1>7 DEF NextPass, Counters
<1>8. CASE LastPass
  BY <1>c, <1>8 DEF LastPass, Counters
<1>9. CASE EndStep
  BY <1>c, <1>9 DEF EndStep, Counters
<1>10. CASE Save
  BY <1>c, <1>10 DEF Save, Counters
<1>11. CASE End
  BY <1>c, <1>11 DEF End, Counters
<1>12. CASE Raise
  BY <1>c, <1>12 DEF Raise, Counters
<1>13. CASE CrashResume
  <2>1. over' \in BOOLEAN /\ kl' \in BOOLEAN
    BY <1>13 DEF CrashResume
  <2>2. step' \in 0..MaxStep /\ weights' \in Names /\ began' = weights' /\ minted' = minted
    BY <1>c, <1>13 DEF CrashResume, Counters
  <2>3. /\ pc' = "idle" /\ target' = 0 /\ cursor' = 0 /\ ref' = None /\ crashes' \in 0..MaxCrashes
        /\ UNCHANGED <<algo, useHead, lora, rolls, fits, ckpt>>
    BY <1>c, <1>13 DEF CrashResume, Counters
  <2> QED
    BY <1>c, <2>1, <2>2, <2>3 DEF Counters
<1>14. CASE UNCHANGED vars
  BY <1>c, <1>14 DEF vars, Counters
<1> QED
  BY <1>1, <1>2, <1>3, <1>4, <1>5, <1>6, <1>7, <1>8, <1>9, <1>10, <1>11, <1>12, <1>13, <1>14
     DEF Next, InFit

\* The actions that leave buffer, advantages, head and names as they are.
Frame == UNCHANGED <<buffer, rolls, adv, weights, minted, head>>

LEMMA FrameSteps ==
  ASSUME Fetch \/ NextPass \/ LastPass \/ EndStep \/ Save \/ End \/ Raise \/ UNCHANGED vars
            \/ \E k \in BOOLEAN, t \in 1..MaxStep : Fit(k, t)
  PROVE  Frame /\ UNCHANGED <<algo, batch, lpref>> /\ (pc' \in Using => pc = pc')
BY DEF Fetch, NextPass, LastPass, EndStep, Save, End, Raise, vars, Fit, Frame, Using,
       config, model, position, rollout, inner, fitting, saved

\* The value head keeps the name of the weights it is trained with.
LEMMA StepHead ==
  ASSUME IInv, [Next]_vars
  PROVE  HeadInv'
<1> USE DEF HeadInv
<1>h. HeadInv
  BY DEF IInv
<1>1. CASE Frame
  BY <1>1, <1>h DEF Frame
<1>2. ASSUME NEW n \in 1..MaxEpisodes, Rollout(n) PROVE HeadInv'
  BY <1>2, <1>h DEF Rollout, Enter, model
<1>3. CASE Advantages
  BY <1>3, <1>h DEF Advantages, model
<1>4. ASSUME NEW S \in SUBSET left, Score(S) PROVE HeadInv'
  BY <1>4, <1>h DEF Score
<1>5. ASSUME NEW skip \in BOOLEAN, NEW high \in BOOLEAN, Verdict(skip, high) PROVE HeadInv'
  BY <1>5, <1>h DEF Verdict, model
<1>6. CASE CrashResume
  BY <1>6 DEF CrashResume
<1> QED
  BY <1>1, <1>2, <1>3, <1>4, <1>5, <1>6, FrameSteps DEF Next, InFit

\* The buffer holds one rollout by one policy.
LEMMA StepBuffer ==
  ASSUME IInv, [Next]_vars
  PROVE  BufferInv'
<1>b. BufferInv /\ Counters /\ HeadInv
  BY DEF IInv
<1>1. CASE Frame /\ (pc' \in Using => pc = pc')
  BY <1>1, <1>b DEF Frame, BufferInv, Names, Using
<1>2. ASSUME NEW n \in 1..MaxEpisodes, Rollout(n) PROVE BufferInv'
  <2>1. /\ buffer' = Held(Episodes(n)) /\ rolls' = 1 - rolls
        /\ weights' = weights /\ minted' = minted
    BY <1>2 DEF Rollout, Enter, model
  <2>2. weights \in Names /\ minted \in Nat /\ rolls \in 0..1
    BY <1>b DEF Counters
  <2>3. /\ buffer' \in Seq(Episode) /\ Len(buffer') <= BufferSize
        /\ \A i \in DOMAIN buffer' : buffer'[i].by = weights /\ buffer'[i].roll = 1 - rolls
        /\ \A i, j \in DOMAIN buffer' : buffer'[i].row = buffer'[j].row => i = j
    BY <2>1, <2>2, HeldEpisodes
  <2> QED
    BY <2>1, <2>2, <2>3 DEF BufferInv, Names
<1>3. CASE Advantages
  BY <1>3, <1>b DEF Advantages, model, BufferInv, Names, Using
<1>4. ASSUME NEW S \in SUBSET left, Score(S) PROVE BufferInv'
  BY <1>4, <1>b DEF Score, rollout, BufferInv, Names, Using
<1>5. ASSUME NEW skip \in BOOLEAN, NEW high \in BOOLEAN, Verdict(skip, high) PROVE BufferInv'
  <2>1. /\ UNCHANGED <<buffer, rolls>> /\ pc = "verdict" /\ pc' \in {"tail", "batch"}
        /\ minted' \in {minted, minted + 1} /\ minted \in Nat
    BY <1>5, <1>b DEF Verdict, rollout, model, Counters
  <2>2. Names \subseteq Names'
    BY <2>1 DEF Names
  <2> QED
    BY <2>1, <2>2, <1>b DEF BufferInv, Using
<1>6. CASE CrashResume
  <2>1. buffer' = <<>>
    BY <1>6 DEF CrashResume
  <2> QED
    BY <2>1, Sizes DEF BufferInv
<1> QED
  BY <1>1, <1>2, <1>3, <1>4, <1>5, <1>6, FrameSteps DEF Next, InFit

\* The advantages stay with their episodes.
LEMMA StepAdvantages ==
  ASSUME IInv, [Next]_vars
  PROVE  AdvantageInv'
<1>a. AdvantageInv /\ BufferInv /\ HeadInv
  BY DEF IInv
<1>1. CASE Frame /\ UNCHANGED algo /\ (pc' \in Using => pc = pc')
  BY <1>1, <1>a DEF Frame, AdvantageInv, Using
<1>2. ASSUME NEW n \in 1..MaxEpisodes, Rollout(n) PROVE AdvantageInv'
  BY <1>2 DEF Rollout, Enter, config, AdvantageInv
<1>3. CASE Advantages
  <2>1. /\ adv' = [i \in DOMAIN buffer |-> [of |-> buffer[i], base |-> head]]
        /\ buffer' = buffer /\ pc = "gae"
    BY <1>3 DEF Advantages
  <2>2. \A i \in DOMAIN buffer : adv'[i].of = buffer[i] /\ adv'[i].base \in {None, buffer[i].by}
    BY <2>1, <1>a DEF HeadInv, BufferInv
  <2> QED
    BY <2>1, <2>2 DEF AdvantageInv
<1>4. ASSUME NEW S \in SUBSET left, Score(S) PROVE AdvantageInv'
  BY <1>4, <1>a DEF Score, config, rollout, AdvantageInv
<1>5. ASSUME NEW skip \in BOOLEAN, NEW high \in BOOLEAN, Verdict(skip, high) PROVE AdvantageInv'
  BY <1>5, <1>a DEF Verdict, config, rollout, AdvantageInv
<1>6. CASE CrashResume
  BY <1>6 DEF CrashResume, AdvantageInv
<1> QED
  BY <1>1, <1>2, <1>3, <1>4, <1>5, <1>6, FrameSteps DEF Next, InFit

\* The passes use the episodes evenly.
LEMMA StepPasses ==
  ASSUME IInv, [Next]_vars
  PROVE  PassInv'
<1> USE Sizes DEF Using, config, model, position, rollout, inner, fitting, saved
<1>p. PassInv
  BY DEF IInv
<1>1. ASSUME NEW k \in BOOLEAN, NEW t \in 1..MaxStep, Fit(k, t) PROVE PassInv'
  BY <1>1, <1>p DEF Fit, PassInv
<1>2. CASE Fetch \/ EndStep \/ Save \/ End \/ Raise
  BY <1>2, <1>p DEF Fetch, EndStep, Save, End, Raise, PassInv
<1>3. ASSUME NEW n \in 1..MaxEpisodes, Rollout(n) PROVE PassInv'
  <2>1. /\ pass' = 1 /\ left' = DOMAIN buffer' /\ seen' = [i \in DOMAIN buffer' |-> 0]
        /\ pc' \in {"gae", "batch"}
    BY <1>3 DEF Rollout, Enter
  <2> QED
    BY <2>1 DEF PassInv
<1>4. CASE Advantages
  BY <1>4, <1>p DEF Advantages, PassInv
<1>5. ASSUME NEW S \in SUBSET left, Score(S) PROVE PassInv'
  <2>1. /\ pc = "batch" /\ pc' = "verdict" /\ UNCHANGED <<buffer, pass>> /\ left' = left \ S
        /\ seen' = [i \in DOMAIN seen |-> seen[i] + IF i \in S THEN 1 ELSE 0]
    BY <1>5 DEF Score
  <2>2. ASSUME NEW i \in DOMAIN buffer PROVE seen'[i] = pass - IF i \in left' THEN 1 ELSE 0
    <3>1. /\ seen[i] = pass - IF i \in left THEN 1 ELSE 0
          /\ seen'[i] = seen[i] + IF i \in S THEN 1 ELSE 0
          /\ pass \in Nat
      BY <1>p, <2>1 DEF PassInv
    <3>2. CASE i \in S
      BY <2>1, <3>1, <3>2
    <3>3. CASE i \notin S
      BY <2>1, <3>1, <3>3
    <3> QED
      BY <3>2, <3>3
  <2> QED
    BY <1>p, <2>1, <2>2 DEF PassInv
<1>6. ASSUME NEW skip \in BOOLEAN, NEW high \in BOOLEAN, Verdict(skip, high) PROVE PassInv'
  <2>1. /\ pc = "verdict" /\ UNCHANGED <<buffer, pass, left, seen>>
        /\ pc' = "batch" \/ (pc' = "tail" /\ over')
    BY <1>6 DEF Verdict
  <2> QED
    BY <1>p, <2>1 DEF PassInv
<1>7. CASE NextPass
  BY <1>7, <1>p DEF NextPass, PassInv
<1>8. CASE LastPass
  BY <1>8, <1>p DEF LastPass, PassInv
<1>9. CASE CrashResume
  <2>1. buffer' = <<>> /\ seen' = <<>> /\ left' = {} /\ pass' = 0 /\ pc' = "idle"
    BY <1>9 DEF CrashResume
  <2> QED
    BY <2>1 DEF PassInv
<1>10. CASE UNCHANGED vars
  BY <1>10, <1>p DEF vars, PassInv
<1> QED
  BY <1>1, <1>2, <1>3, <1>4, <1>5, <1>6, <1>7, <1>8, <1>9, <1>10 DEF Next, InFit

\* The episodes of a minibatch are those of the indices it was drawn by.
LEMMA CollatedEpisodes ==
  ASSUME NEW S
  PROVE  {r.ep : r \in Collate(S)} = {buffer[i] : i \in S}
<1>1. ASSUME NEW i \in S PROVE \E r \in Collate(S) : r.ep = buffer[i]
  <2>1. [ep |-> buffer[i], adv |-> IF algo = "ppo" THEN adv[i] ELSE None] \in Collate(S)
    BY DEF Collate
  <2> QED
    BY <2>1
<1>2. \A r \in Collate(S) : \E i \in S : r.ep = buffer[i]
  BY DEF Collate
<1> QED
  BY <1>1, <1>2

\* The reference and its log-probabilities are of this fit and this minibatch.
LEMMA StepReference ==
  ASSUME IInv, [Next]_vars
  PROVE  RefInv' /\ KLOfThisFit'
<1> USE DEF InStep, Running, Using, config, model, position, rollout, inner, fitting, saved
<1>r. RefInv /\ KLOfThisFit /\ Counters
  BY DEF IInv
<1>1. ASSUME NEW k \in BOOLEAN, NEW t \in 1..MaxStep, Fit(k, t) PROVE RefInv' /\ KLOfThisFit'
  BY <1>1 DEF Fit, Frozen, Reference, RefInv, KLOfThisFit
<1>2. CASE \/ Fetch \/ Advantages \/ NextPass \/ LastPass \/ EndStep \/ Save \/ End \/ Raise
           \/ UNCHANGED vars
  <2>1. /\ UNCHANGED <<lora, kl, began, ref, lpref, batch>>
        /\ pc' \in Running => pc \in Running
        /\ pc' = "verdict" => pc = "verdict"
    BY <1>2 DEF Fetch, Advantages, NextPass, LastPass, EndStep, Save, End, Raise, vars
  <2> QED
    BY <1>r, <2>1 DEF RefInv, Reference, KLOfThisFit
<1>3. ASSUME NEW n \in 1..MaxEpisodes, Rollout(n) PROVE RefInv' /\ KLOfThisFit'
  BY <1>3, <1>r DEF Rollout, Enter, RefInv, Reference, KLOfThisFit
<1>4. ASSUME NEW S \in SUBSET left, Score(S) PROVE RefInv' /\ KLOfThisFit'
  <2>1. /\ pc = "batch" /\ UNCHANGED <<lora, kl, began, ref>> /\ batch' = Collate(S)
        /\ lpref' = IF ref # None THEN [by |-> ref, of |-> {buffer[i] : i \in S}] ELSE None
    BY <1>4 DEF Score
  <2>2. ref = (IF kl THEN Reference ELSE None) /\ Reference # None
    BY <1>r, <2>1, Sizes DEF RefInv, Reference, Counters, Names
  <2>3. {r.ep : r \in batch'} = {buffer[i] : i \in S}
    BY <2>1, CollatedEpisodes
  <2>4. CASE kl
    <3>1. lpref' = [by |-> Reference, of |-> {r.ep : r \in batch'}]
      BY <2>1, <2>2, <2>3, <2>4
    <3>2. Reference \in Int /\ {buffer[i] : i \in S} \subseteq Episode
      <4>1. S \subseteq DOMAIN buffer /\ buffer \in Seq(Episode)
        BY DEF IInv, PassInv, BufferInv
      <4> QED
        BY <1>r, <4>1 DEF Counters, Names, Reference, Base
    <3>3. lpref' # None
      BY <2>3, <3>1, <3>2, RLAssumption DEF Episode
    <3> QED
      BY <2>1, <2>2, <2>4, <3>1, <3>3 DEF RefInv, Reference, KLOfThisFit
  <2>5. CASE ~kl
    BY <2>1, <2>2, <2>5 DEF RefInv, Reference, KLOfThisFit
  <2> QED
    BY <2>4, <2>5
<1>5. ASSUME NEW skip \in BOOLEAN, NEW high \in BOOLEAN, Verdict(skip, high)
      PROVE  RefInv' /\ KLOfThisFit'
  BY <1>5, <1>r DEF Verdict, RefInv, Reference, KLOfThisFit
<1>6. CASE CrashResume
  BY <1>6 DEF CrashResume, RefInv, KLOfThisFit
<1> QED
  BY <1>1, <1>2, <1>3, <1>4, <1>5, <1>6 DEF Next, InFit

\* The minibatch in work stays one drawn from the buffer.
LEMMA StepBatch ==
  ASSUME IInv, [Next]_vars
  PROVE  BatchInv'
<1>b. BatchInv /\ BufferInv /\ PassInv /\ Counters
  BY DEF IInv
<1>1. CASE Frame /\ UNCHANGED <<algo, batch>> /\ (pc' \in Using => pc = pc')
  <2>1. \A S : Collate(S)' = Collate(S)
    BY <1>1 DEF Frame, Collate
  <2> QED
    BY <1>1, <1>b, <2>1 DEF Frame, BatchInv, Names, Using
<1>2. ASSUME NEW n \in 1..MaxEpisodes, Rollout(n) PROVE BatchInv'
  BY <1>2, <1>b DEF Rollout, Enter, model, BatchInv, Names
<1>3. CASE Advantages
  BY <1>3, <1>b DEF Advantages, model, inner, BatchInv, Names
<1>4. ASSUME NEW S \in SUBSET left, Score(S) PROVE BatchInv'
  <2>1. /\ batch' = Collate(S) /\ UNCHANGED <<buffer, adv, algo, minted>>
        /\ S \in SUBSET DOMAIN buffer
    BY <1>4, <1>b DEF Score, config, rollout, PassInv
  <2>2. Collate(S)' = Collate(S)
    BY <2>1 DEF Collate
  <2>3. \A i \in S : buffer[i] \in Episode /\ buffer[i].by \in Names
    BY <1>b, <2>1 DEF BufferInv
  <2>4. \A r \in Collate(S) : \E i \in S : r.ep = buffer[i]
    BY DEF Collate
  <2>5. \A r \in batch' : r.ep \in Episode /\ r.ep.by \in Names'
    BY <2>1, <2>3, <2>4 DEF Names
  <2> QED
    BY <2>1, <2>2, <2>5 DEF BatchInv
<1>5. ASSUME NEW skip \in BOOLEAN, NEW high \in BOOLEAN, Verdict(skip, high) PROVE BatchInv'
  <2>1. batch' = batch /\ pc' # "verdict" /\ minted' \in {minted, minted + 1} /\ minted \in Nat
    BY <1>5, <1>b DEF Verdict, model, Counters
  <2>2. Names \subseteq Names'
    BY <2>1 DEF Names
  <2> QED
    BY <1>b, <2>1, <2>2 DEF BatchInv
<1>6. CASE CrashResume
  BY <1>6 DEF CrashResume, BatchInv
<1> QED
  BY <1>1, <1>2, <1>3, <1>4, <1>5, <1>6, FrameSteps DEF Next, InFit

\* The invariant holds in every behaviour.
THEOREM Invariance == Spec => []IInv
<1>1. ASSUME IInv, [Next]_vars PROVE IInv'
  BY <1>1, StepCounters, StepHead, StepBuffer, StepPasses, StepAdvantages, StepReference,
     StepBatch DEF IInv
<1> QED
  BY InitIInv, <1>1, PTL DEF Spec
------------------------------------------------------------------------------
\* The loss sees the log-probabilities of the weights this fit began with, or, with
\* lora_base_as_ref, of the base weights that no update moves, for this minibatch,
\* when the objective has a KL term and only then, however many fits came before
\* and wherever they raised (ppo.py:213, grpo.py, ref_policy.py:153).
THEOREM KLIsOfThisFit == Spec => []KLOfThisFit
<1>1. IInv => KLOfThisFit
  BY DEF IInv
<1> QED
  BY Invariance, <1>1, PTL

\* An episode is learned from with the advantage computed for it, over a baseline
\* of the weights that wrote it, for any sizes of buffer, minibatch and rollout.
THEOREM AdvantagesAreOwn == Spec => []OwnAdvantage
<1>1. ASSUME IInv PROVE OwnAdvantage
  <2> SUFFICES ASSUME pc = "verdict", algo = "ppo", NEW r \in batch
               PROVE  r.adv.of = r.ep /\ r.adv.base \in {None, r.ep.by}
    BY DEF OwnAdvantage
  <2>1. PICK S \in SUBSET DOMAIN buffer : batch = Collate(S)
    BY <1>1 DEF IInv, BatchInv
  <2>2. PICK i \in S : r = [ep |-> buffer[i], adv |-> adv[i]]
    BY <2>1 DEF Collate
  <2> QED
    BY <1>1, <2>1, <2>2 DEF IInv, AdvantageInv
<1> QED
  BY Invariance, <1>1, PTL

\* What determines a row of a minibatch is its episode.
LEMMA OneRowPerEpisode ==
  ASSUME IInv, pc = "verdict", NEW r \in batch, NEW s \in batch, r.ep = s.ep
  PROVE  r = s
<1>1. PICK S \in SUBSET DOMAIN buffer : batch = Collate(S)
  BY DEF IInv, BatchInv
<1>2. PICK i \in S : r = [ep |-> buffer[i], adv |-> IF algo = "ppo" THEN adv[i] ELSE None]
  BY <1>1 DEF Collate
<1>3. PICK j \in S : s = [ep |-> buffer[j], adv |-> IF algo = "ppo" THEN adv[j] ELSE None]
  BY <1>1 DEF Collate
<1>4. i = j
  BY <1>1, <1>2, <1>3 DEF IInv, BufferInv
<1> QED
  BY <1>2, <1>3, <1>4

\* A minibatch is as large as the set of its episodes.
LEMMA NoneTwice ==
  ASSUME IInv, pc = "verdict"
  PROVE  Cardinality(batch) = Cardinality({r.ep : r \in batch})
<1> DEFINE eps == {r.ep : r \in batch}
           f == [r \in batch |-> r.ep]
<1>1. IsFiniteSet(batch)
  <2>1. PICK S \in SUBSET DOMAIN buffer : batch = Collate(S)
    BY DEF IInv, BatchInv
  <2>2. IsFiniteSet(S)
    <3>1. DOMAIN buffer = 1..Len(buffer) /\ Len(buffer) \in Nat
      BY DEF IInv, BufferInv
    <3>2. IsFiniteSet(1..Len(buffer))
      BY <3>1, FS_Interval
    <3> QED
      BY <3>1, <3>2, FS_Subset
  <2> DEFINE g == [i \in S |-> [ep |-> buffer[i], adv |-> IF algo = "ppo" THEN adv[i] ELSE None]]
  <2>3. g \in Surjection(S, batch)
    BY <2>1 DEF Collate, Surjection
  <2> QED
    BY <2>2, <2>3, FS_Surjection
<1>2. f \in Bijection(batch, eps)
  <2>1. f \in Surjection(batch, eps)
    BY DEF Surjection
  <2>2. f \in Injection(batch, eps)
    <3>1. ASSUME NEW r \in batch, NEW s \in batch, f[r] = f[s] PROVE r = s
      <4>1. r.ep = s.ep
        BY <3>1
      <4> QED
        BY <4>1, OneRowPerEpisode
    <3>2. f \in [batch -> eps]
      OBVIOUS
    <3> HIDE DEF f
    <3> QED
      BY <3>1, <3>2 DEF Injection, IsInjective
  <2> QED
    BY <2>1, <2>2 DEF Bijection
<1> QED
  BY <1>1, <1>2, FS_Bijection DEF ExistsBijection

\* Only episodes of the last rollout are learned from, none twice in a minibatch,
\* all by one policy, and the passes use them evenly (ppo.py:339), after any
\* history of fits, exceptions and deaths.
THEOREM LearnsOnPolicy == Spec => []OnPolicy
<1>1. ASSUME IInv PROVE OnPolicy
  <2>1. TypeOK /\ EvenUse
    BY <1>1, TypesFollow DEF IInv, PassInv, EvenUse, Using
  <2>2. ASSUME pc = "verdict", NEW r \in batch, NEW s \in batch
        PROVE  r.ep.roll = rolls /\ r.ep.by = s.ep.by
    <3>1. PICK S \in SUBSET DOMAIN buffer : batch = Collate(S)
      BY <1>1, <2>2 DEF IInv, BatchInv
    <3>2. PICK i \in S : r.ep = buffer[i]
      BY <3>1, <2>2 DEF Collate
    <3>3. PICK j \in S : s.ep = buffer[j]
      BY <3>1, <2>2 DEF Collate
    <3> QED
      BY <1>1, <2>2, <3>1, <3>2, <3>3 DEF IInv, BufferInv, Using
  <2>3. pc = "verdict" => Cardinality(batch) = Cardinality({r.ep : r \in batch})
    BY <1>1, NoneTwice
  <2> QED
    BY <2>1, <2>2, <2>3 DEF OnPolicy
<1> QED
  BY Invariance, <1>1, PTL
==============================================================================
