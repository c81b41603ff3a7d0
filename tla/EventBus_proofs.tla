---------------------------- MODULE EventBus_proofs ----------------------------
(***************************************************************************)
(* Proofs about EventBus, for any callbacks, any of them critical, any     *)
(* limit of failures and any number of events; and, in a part of its own,  *)
(* about SAM and MeZO, for any window and any pattern of exceptions: the   *)
(* weights are put back, and an update is made from what was taken far     *)
(* away.  The two components share no state and are not composed here.     *)
(***************************************************************************)
EXTENDS EventBus, TwoPassRule, TLAPS

------------------------------------------------------------------------------
(***************************************************************************)
(* The inductive invariant: the count of a callback is the length of the   *)
(* run of failures its invocations end with; the answer so far is the      *)
(* largest of the signals so far; the sink is in place after the event     *)
(* on_train_start, and up to then a callback fails once an event at most.  *)
(***************************************************************************)
\* The last failures[c] invocations raised, and the one before did not.
CountsTheRun(c) ==
  LET n == Len(outcomes[c])
  IN  /\ failures[c] <= n
      /\ \A i \in n - failures[c] + 1..n : ~outcomes[c][i]
      /\ failures[c] < n => outcomes[c][n - failures[c]]

CountInv ==
  \A c \in Callbacks \ Critical :
    /\ CountsTheRun(c)
    /\ c \in quarantined <=> failures[c] >= MaxFailures

CriticalInv == \A c \in Critical : failures[c] = 0 /\ c \notin quarantined

SinkInv == failures[N] = 0 /\ N \notin quarantined

AnswerInv ==
  pc # "raised" =>
    /\ result \in answers \cup {CONTINUE}
    /\ \A s \in answers : s <= result

\* Up to on_train_start a callback has failed at most once in each event.
EarlyInv ==
  /\ events = 0 => pc = "idle"
  /\ events <= TrainStart => \A c \in Callbacks : failures[c] <= events
  /\ events <= TrainStart /\ pc = "loop" =>
       \A c \in Callbacks : c >= next => failures[c] < events
  /\ events = TrainStart =>
       (pc = "idle" \/ (pc = "loop" /\ next > N) => installed)
  /\ events > TrainStart => installed

LogInv == \A c \in Callbacks : log[c] + dropped[c] >= failures[c] - TrainStart

IInv == TypeOK /\ CountInv /\ CriticalInv /\ SinkInv /\ AnswerInv /\ EarlyInv /\ LogInv

------------------------------------------------------------------------------
\* Max of the signal so far and a new one is the larger of the two (base.py:165).
LEMMA MaxOfTwo ==
  ASSUME NEW r \in Signals, NEW s \in Signals
  PROVE  Max({r, s}) = IF s > r THEN s ELSE r
<1> DEFINE m == IF s > r THEN s ELSE r
<1>1. m \in {r, s} /\ \A y \in {r, s} : m >= y  BY DEF Signals
<1>2. \A x \in {r, s} : (\A y \in {r, s} : x >= y) => x = m  BY DEF Signals
<1> QED  BY <1>1, <1>2, Zenon DEF Max

\* A signal of a set that none of the set exceeds is its Max.
LEMMA MaxIsTheLargest ==
  ASSUME NEW S \in SUBSET Signals, NEW r \in S, \A s \in S : s <= r
  PROVE  Max(S) = r
<1>1. r \in S /\ \A y \in S : r >= y  BY DEF Signals
<1>2. \A x \in S : (\A y \in S : x >= y) => x = r  BY DEF Signals
<1> QED  BY <1>1, <1>2, Zenon DEF Max

\* What Append does, for elements of any kind.
LEMMA AppendIsLast ==
  ASSUME NEW S, NEW q \in Seq(S), NEW e \in S
  PROVE  /\ Append(q, e) \in Seq(S) /\ Len(Append(q, e)) = Len(q) + 1
         /\ Append(q, e)[Len(q) + 1] = e
         /\ \A i \in 1..Len(q) : Append(q, e)[i] = q[i]
OBVIOUS

LEMMA AppendOutcome ==
  ASSUME NEW q \in Seq(BOOLEAN), NEW e \in BOOLEAN
  PROVE  /\ Append(q, e) \in Seq(BOOLEAN) /\ Len(Append(q, e)) = Len(q) + 1
         /\ Append(q, e)[Len(q) + 1] = e
         /\ \A i \in 1..Len(q) : Append(q, e)[i] = q[i]
<1> DEFINE S == BOOLEAN
<1>1. q \in Seq(S) /\ e \in S  OBVIOUS
<1> HIDE DEF S
<1>2. /\ Append(q, e) \in Seq(S) /\ Len(Append(q, e)) = Len(q) + 1
      /\ Append(q, e)[Len(q) + 1] = e
      /\ \A i \in 1..Len(q) : Append(q, e)[i] = q[i]
  BY <1>1, AppendIsLast
<1> QED  BY <1>2, Zenon DEF S

\* on_train_start is the first or the third event (base.py:615, 652).
LEMMA TrainStartType == TrainStart \in {1, 3}
BY DEF TrainStart

\* A failure reported after on_train_start is written or dropped, and one before
\* it is neither (callback_isolation.py:102 to 129).
LEMMA ReportAccounts ==
  ASSUME TypeOK, next \in Callbacks, Report
  PROVE  /\ log' \in [Callbacks -> Nat] /\ dropped' \in [Callbacks -> Nat]
         /\ \A c \in Callbacks :
              log'[c] + dropped'[c] =
                log[c] + dropped[c] + (IF installed /\ c = next THEN 1 ELSE 0)
<1>0. log \in [Callbacks -> Nat] /\ dropped \in [Callbacks -> Nat]  BY DEF TypeOK
<1>1. CASE ~installed
  <2>1. log' = log /\ dropped' = dropped  BY <1>1 DEF Report
  <2> QED  BY <1>0, <1>1, <2>1
<1>2. CASE installed /\ Logged(next)
  <2>1. /\ log' \in [Callbacks -> Nat] /\ dropped' = dropped
        /\ \A c \in Callbacks : log'[c] = IF c = next THEN log[c] + 1 ELSE log[c]
    BY <1>0, <1>2 DEF Logged
  <2> QED  BY <1>0, <1>2, <2>1
<1>3. CASE installed /\ Dropped(next)
  <2>1. /\ dropped' \in [Callbacks -> Nat] /\ log' = log
        /\ \A c \in Callbacks : dropped'[c] = IF c = next THEN dropped[c] + 1 ELSE dropped[c]
    BY <1>0, <1>3 DEF Dropped
  <2> QED  BY <1>0, <1>3, <2>1
<1> QED  BY <1>1, <1>2, <1>3 DEF Report

\* The bus starts with nothing counted and nobody quarantined.
LEMMA InitIInv == Init => IInv
<1> SUFFICES ASSUME Init PROVE IInv
  OBVIOUS
<1> USE BusAssumption
<1>1. TypeOK
  <2>1. events \in 0..MaxEvents /\ next \in 1..N + 1 /\ result \in Signals
    BY DEF Init, Signals, CONTINUE
  <2>2. failures \in [Callbacks -> 0..MaxFailures] /\ log \in [Callbacks -> Nat]
    BY DEF Init
  <2>3. outcomes \in [Callbacks -> Seq(BOOLEAN)]
    <3>1. <<>> \in Seq(BOOLEAN)  OBVIOUS
    <3> QED  BY <3>1 DEF Init
  <2>4. installed \in BOOLEAN /\ resumed \in BOOLEAN  BY Zenon DEF Init
  <2>5. dropped \in [Callbacks -> Nat]  BY DEF Init
  <2> QED  BY <2>1, <2>2, <2>3, <2>4, <2>5 DEF Init, TypeOK
<1>2. CountInv /\ CriticalInv /\ SinkInv
  <2>1. \A c \in Callbacks : failures[c] = 0 /\ outcomes[c] = <<>> /\ c \notin quarantined
    BY DEF Init
  <2>2. N \in Callbacks /\ Critical \subseteq Callbacks  BY DEF Callbacks
  <2>3. CountInv  BY <2>1 DEF CountInv, CountsTheRun
  <2>4. CriticalInv /\ SinkInv  BY <2>1, <2>2, Zenon DEF CriticalInv, SinkInv
  <2> QED  BY <2>3, <2>4
<1>3. AnswerInv /\ LogInv
  BY TrainStartType DEF Init, AnswerInv, LogInv, CONTINUE
<1>4. EarlyInv  BY TrainStartType DEF Init, EarlyInv
<1> QED  BY <1>1, <1>2, <1>3, <1>4 DEF IInv

\* A hook that returns ends the run of failures of its callback (base.py:163).
LEMMA ReturnKeeps ==
  ASSUME IInv, NEW s \in Signals, Return(s)
  PROVE  IInv'
<1> USE BusAssumption
<1>r. TrainStart \in {1, 3} /\ TrainStart' = TrainStart
  BY TrainStartType DEF Return, TrainStart
<1>n. next <= N /\ next \notin quarantined  BY Zenon DEF Return, Called
<1>0. TypeOK /\ next \in Callbacks /\ next \notin quarantined
  <2>1. TypeOK  BY DEF IInv
  <2>2. next \in 1..N + 1  BY <2>1, Zenon DEF TypeOK
  <2> QED  BY <1>n, <2>1, <2>2 DEF Callbacks
<1>1. result' = (IF s > result THEN s ELSE result)
  BY <1>0, MaxOfTwo DEF TypeOK, Return
<1>a. answers' = answers \cup {s} /\ pc = "loop" /\ pc' = "loop"
  BY DEF Return, Called
<1>b. /\ failures' = [failures EXCEPT ![next] = 0] /\ next' = next + 1
      /\ events' = events /\ quarantined' = quarantined
      /\ resumed' = resumed /\ log' = log /\ dropped' = dropped
  BY DEF Return
<1>c. installed' = (installed \/ (next = N /\ events = TrainStart))
  BY DEF Return
<1>d. outcomes' = [outcomes EXCEPT ![next] = Append(outcomes[next], TRUE)]
  BY DEF Return, Record
<1>2. TypeOK'
  <2>1. result' \in Signals /\ answers' \subseteq Signals
    BY <1>0, <1>1, <1>a DEF TypeOK
  <2>2. failures' \in [Callbacks -> 0..MaxFailures]
    BY <1>0, <1>b DEF TypeOK
  <2>3. outcomes' \in [Callbacks -> Seq(BOOLEAN)]
    BY <1>0, <1>d DEF TypeOK
  <2>4. installed' \in BOOLEAN
    BY <1>c, Zenon
  <2>5. next' \in 1..N + 1
    BY <1>0, <1>b DEF TypeOK, Callbacks
  <2> QED  BY <1>0, <1>a, <1>b, <2>1, <2>2, <2>3, <2>4, <2>5 DEF TypeOK
<1>3. CountInv'
  <2> SUFFICES ASSUME NEW c \in Callbacks \ Critical
               PROVE  CountsTheRun(c)' /\ (c \in quarantined <=> failures[c] >= MaxFailures)'
    BY BusAssumption DEF CountInv
  <2>1. CASE c = next
    <3>1. failures'[c] = 0 /\ outcomes'[c] = Append(outcomes[c], TRUE) /\ c \notin quarantined'
      BY <1>0, <2>1 DEF TypeOK, Return, Record
    <3>2. outcomes[c] \in Seq(BOOLEAN)  BY <1>0 DEF TypeOK
    <3> QED  BY <3>1, <3>2 DEF CountsTheRun
  <2>2. CASE c # next
    BY <1>0, <2>2 DEF IInv, TypeOK, CountInv, CountsTheRun, Return, Record
  <2> QED  BY <2>1, <2>2
<1>4. CriticalInv' /\ SinkInv'
  BY <1>0 DEF IInv, TypeOK, CriticalInv, SinkInv, Return, Callbacks
<1>5. AnswerInv'
  <2>1. result \in answers \cup {CONTINUE} /\ \A t \in answers : t <= result
    BY <1>a DEF IInv, AnswerInv
  <2>2. result' \in answers' \cup {CONTINUE}  BY <1>1, <1>a, <2>1
  <2>3. \A t \in answers' : t <= result'
    BY <1>0, <1>1, <1>a, <2>1 DEF TypeOK, Signals
  <2> QED  BY <2>2, <2>3 DEF AnswerInv
<1>6. EarlyInv'
  <2>1. events # 0 /\ events \in Nat  BY <1>0, <1>a DEF IInv, EarlyInv, TypeOK
  <2>2. \A c \in Callbacks : failures'[c] = IF c = next THEN 0 ELSE failures[c]
    BY <1>0, <1>b DEF TypeOK
  <2>3. events <= TrainStart =>
           /\ \A c \in Callbacks : failures'[c] <= events
           /\ \A c \in Callbacks : c >= next' => failures'[c] < events
    <3>1. events <= TrainStart =>
             /\ \A c \in Callbacks : failures[c] <= events
             /\ \A c \in Callbacks : c >= next => failures[c] < events
      BY <1>a DEF IInv, EarlyInv
    <3> QED  BY <1>0, <1>b, <2>1, <2>2, <3>1 DEF Callbacks
  <2>4. events = TrainStart /\ next' > N => installed'
    <3>1. next' > N => next = N  BY <1>0, <1>b DEF Callbacks
    <3> QED  BY <1>c, <3>1, Zenon
  <2>5. events > TrainStart => installed'
    <3>1. events > TrainStart => installed  BY DEF IInv, EarlyInv
    <3> QED  BY <1>c, <3>1, Zenon
  <2> QED  BY <1>r, <1>a, <1>b, <2>1, <2>3, <2>4, <2>5 DEF EarlyInv
<1>7. LogInv'
  <2>1. \A c \in Callbacks :
          log[c] + dropped[c] >= failures[c] - TrainStart /\ failures[c] \in Nat
          /\ log[c] \in Nat /\ dropped[c] \in Nat
    BY <1>0 DEF IInv, TypeOK, LogInv
  <2>2. \A c \in Callbacks : failures'[c] = IF c = next THEN 0 ELSE failures[c]
    BY <1>0, <1>b DEF TypeOK
  <2> QED  BY <1>r, <1>b, <2>1, <2>2 DEF LogInv
<1> QED  BY <1>2, <1>3, <1>4, <1>5, <1>6, <1>7 DEF IInv

\* An isolated failure lengthens the run by one; at the limit, and not before,
\* the callback is quarantined (base.py:150 to 152).
LEMMA IsolateKeeps ==
  ASSUME IInv, Isolate
  PROVE  IInv'
<1> USE BusAssumption
<1>n. next <= N /\ next \notin quarantined /\ next \notin Critical \cup {N}
  BY Zenon DEF Isolate, Called
<1>t. /\ TypeOK /\ next \in Callbacks \ Critical /\ next # N /\ next \notin quarantined
  <2>1. TypeOK  BY DEF IInv
  <2>2. next \in 1..N + 1  BY <2>1, Zenon DEF TypeOK
  <2> QED  BY <1>n, <2>1, <2>2 DEF Callbacks
<1>0. /\ TypeOK /\ next \in Callbacks \ Critical /\ next # N /\ next \notin quarantined
      /\ failures[next] < MaxFailures
  BY <1>t DEF IInv, TypeOK, CountInv
<1>1. failures' = [failures EXCEPT ![next] = failures[next] + 1]
  BY DEF Isolate
<1>2. quarantined' = IF failures[next] + 1 >= MaxFailures
                     THEN quarantined \cup {next} ELSE quarantined
  BY <1>0, <1>1 DEF Isolate, TypeOK
<1>3. outcomes' = [outcomes EXCEPT ![next] = Append(outcomes[next], FALSE)]
  BY DEF Isolate, Record
<1>4. /\ log' \in [Callbacks -> Nat] /\ dropped' \in [Callbacks -> Nat]
      /\ \A c \in Callbacks :
           log'[c] + dropped'[c] =
             log[c] + dropped[c] + (IF installed /\ c = next THEN 1 ELSE 0)
  BY <1>0, ReportAccounts DEF Isolate
<1>a. /\ pc = "loop" /\ pc' = "loop" /\ next' = next + 1 /\ events' = events
      /\ result' = result /\ answers' = answers
  BY DEF Isolate, Called
<1>b. installed' = installed /\ resumed' = resumed
  BY DEF Isolate
<1>c. TrainStart \in {1, 3} /\ TrainStart' = TrainStart
  BY <1>b, TrainStartType DEF TrainStart
<1>5. TypeOK'
  <2>1. failures' \in [Callbacks -> 0..MaxFailures]  BY <1>0, <1>1 DEF TypeOK
  <2>2. outcomes' \in [Callbacks -> Seq(BOOLEAN)]  BY <1>0, <1>3 DEF TypeOK
  <2>3. log' \in [Callbacks -> Nat] /\ dropped' \in [Callbacks -> Nat]  BY <1>4
  <2>4. next' \in 1..N + 1  BY <1>0, <1>a DEF Callbacks
  <2>5. quarantined' \subseteq Callbacks  BY <1>0, <1>2 DEF TypeOK
  <2> QED  BY <1>0, <1>a, <1>b, <2>1, <2>2, <2>3, <2>4, <2>5, Zenon DEF TypeOK
<1>6. CountInv'
  <2> SUFFICES ASSUME NEW c \in Callbacks \ Critical
               PROVE  CountsTheRun(c)' /\ (c \in quarantined <=> failures[c] >= MaxFailures)'
    BY DEF CountInv
  <2>0. /\ CountsTheRun(c) /\ (c \in quarantined <=> failures[c] >= MaxFailures)
        /\ failures[c] \in Nat /\ outcomes[c] \in Seq(BOOLEAN)
    BY <1>0 DEF IInv, CountInv, TypeOK
  <2>1. CASE c = next
    <3>1. failures'[c] = failures[c] + 1 /\ outcomes'[c] = Append(outcomes[c], FALSE)
      BY <1>0, <1>1, <1>3, <2>1 DEF TypeOK
    <3> DEFINE n == Len(outcomes[c])
    <3>a. /\ Len(outcomes'[c]) = n + 1 /\ n \in Nat
          /\ outcomes'[c][n + 1] = FALSE
          /\ \A i \in 1..n : outcomes'[c][i] = outcomes[c][i]
      <4>1. FALSE \in BOOLEAN /\ n \in Nat  BY <2>0
      <4>2. /\ Len(Append(outcomes[c], FALSE)) = n + 1
            /\ Append(outcomes[c], FALSE)[n + 1] = FALSE
            /\ \A i \in 1..n : Append(outcomes[c], FALSE)[i] = outcomes[c][i]
        BY <2>0, <4>1, AppendOutcome, Zenon
      <4> QED  BY <3>1, <4>1, <4>2, Zenon
    <3>b. /\ failures[c] <= n
          /\ \A i \in n - failures[c] + 1..n : ~outcomes[c][i]
          /\ failures[c] < n => outcomes[c][n - failures[c]]
      BY <2>0 DEF CountsTheRun
    <3>c. \A i \in n - failures[c] + 1..n + 1 : ~outcomes'[c][i]
      <4> HIDE DEF n
      <4> TAKE i \in n - failures[c] + 1..n + 1
      <4>1. CASE i = n + 1  BY <4>1, <3>a
      <4>2. CASE i # n + 1
        <5>1. i \in 1..n /\ i \in n - failures[c] + 1..n  BY <4>2, <3>a, <3>b, <2>0
        <5> QED  BY <5>1, <3>a, <3>b
      <4> QED  BY <4>1, <4>2
    <3>d. failures[c] < n => outcomes'[c][n - failures[c]]
      <4> HIDE DEF n
      <4> HAVE failures[c] < n
      <4>1. n - failures[c] \in 1..n  BY <3>a, <2>0
      <4> QED  BY <4>1, <3>a, <3>b
    <3>e. /\ failures'[c] <= n + 1 /\ (n + 1) - failures'[c] = n - failures[c]
          /\ failures'[c] < n + 1 => failures[c] < n
      BY <2>0, <3>1, <3>a, <3>b
    <3>2. CountsTheRun(c)'
      <4> HIDE DEF n
      <4> QED  BY <3>a, <3>c, <3>d, <3>e DEF CountsTheRun
    <3>3. c \in quarantined' <=> failures'[c] >= MaxFailures  BY <1>0, <1>2, <2>1, <3>1
    <3> QED  BY <3>2, <3>3
  <2>2. CASE c # next
    <3>1. failures'[c] = failures[c] /\ outcomes'[c] = outcomes[c]
      BY <1>0, <1>1, <1>3, <2>2 DEF TypeOK
    <3> QED  BY <1>2, <2>0, <2>2, <3>1 DEF CountsTheRun
  <2> QED  BY <2>1, <2>2
<1>7. CriticalInv' /\ SinkInv'
  BY <1>0, <1>1, <1>2 DEF IInv, TypeOK, CriticalInv, SinkInv, Callbacks
<1>8. AnswerInv'  BY <1>a DEF IInv, AnswerInv
<1>d. \A c \in Callbacks : failures'[c] = IF c = next THEN failures[c] + 1 ELSE failures[c]
  BY <1>0, <1>1 DEF TypeOK
<1>9. EarlyInv'
  <2>1. events # 0 /\ events \in Nat  BY <1>0, <1>a DEF IInv, EarlyInv, TypeOK
  <2>2. \A c \in Callbacks : failures[c] \in Nat  BY <1>0 DEF TypeOK
  <2>3. events <= TrainStart =>
           /\ \A c \in Callbacks : failures'[c] <= events
           /\ \A c \in Callbacks : c >= next' => failures'[c] < events
    BY <1>0, <1>a, <1>c, <1>d, <2>1, <2>2 DEF IInv, EarlyInv, Callbacks
  <2>5. events > TrainStart => installed'
    <3>1. events > TrainStart => installed  BY DEF IInv, EarlyInv
    <3> QED  BY <1>b, <3>1, Zenon
  <2>6. ~(next' > N)  BY <1>0, <1>a DEF Callbacks
  <2> QED  BY <1>a, <1>c, <2>1, <2>3, <2>5, <2>6 DEF EarlyInv
<1>10. LogInv'
  <2> SUFFICES ASSUME NEW c \in Callbacks
               PROVE  log'[c] + dropped'[c] >= failures'[c] - TrainStart
    BY <1>c DEF LogInv
  <2>1. /\ failures[c] \in Nat /\ log[c] \in Nat /\ dropped[c] \in Nat
        /\ log[c] + dropped[c] >= failures[c] - TrainStart
    BY <1>0 DEF IInv, TypeOK, LogInv
  <2>2. CASE installed \/ c # next  BY <1>4, <1>c, <1>d, <2>1, <2>2
  <2>3. CASE ~installed /\ c = next
    <3>1. events <= TrainStart /\ failures[c] < events /\ events \in Nat
      BY <1>0, <1>a, <1>c, <2>3 DEF IInv, EarlyInv, TypeOK, Callbacks
    <3> QED  BY <1>4, <1>c, <1>d, <2>1, <2>3, <3>1
  <2> QED  BY <2>2, <2>3
<1> QED  BY <1>5, <1>6, <1>7, <1>8, <1>9, <1>10 DEF IInv

\* A critical failure leaves the counts alone and ends the dispatch (base.py:147
\* to 149).
LEMMA RaiseKeeps ==
  ASSUME IInv, Raise
  PROVE  IInv'
<1> USE BusAssumption
<1>r. TrainStart \in {1, 3} /\ TrainStart' = TrainStart
  BY TrainStartType DEF Raise, TrainStart
<1>0. TypeOK /\ next \in Critical /\ next \in Callbacks
  BY DEF IInv, TypeOK, Raise, Called, Callbacks
<1>1. outcomes' = [outcomes EXCEPT ![next] = Append(outcomes[next], FALSE)]
  BY DEF Raise, Record
<1>2. /\ log' \in [Callbacks -> Nat] /\ dropped' \in [Callbacks -> Nat]
      /\ \A c \in Callbacks :
           log'[c] + dropped'[c] =
             log[c] + dropped[c] + (IF installed /\ c = next THEN 1 ELSE 0)
  BY <1>0, ReportAccounts DEF Raise
<1>3. TypeOK'
  <2>1. outcomes' \in [Callbacks -> Seq(BOOLEAN)]  BY <1>0, <1>1 DEF TypeOK
  <2> QED  BY <1>0, <1>2, <2>1 DEF TypeOK, Raise
<1>4. CountInv'
  BY <1>0, <1>1 DEF IInv, TypeOK, CountInv, CountsTheRun, Raise
<1>5. CriticalInv' /\ SinkInv' /\ AnswerInv'
  BY DEF IInv, CriticalInv, SinkInv, AnswerInv, Raise
<1>6. EarlyInv'
  <2>1. /\ events' = events /\ failures' = failures /\ installed' = installed
        /\ pc = "loop" /\ pc' = "raised"
    BY DEF Raise, Called
  <2> QED  BY <1>r, <2>1 DEF IInv, EarlyInv
<1>7. LogInv'
  <2> SUFFICES ASSUME NEW c \in Callbacks
               PROVE  log'[c] + dropped'[c] >= failures'[c] - TrainStart
    BY <1>r DEF LogInv
  <2>1. failures' = failures  BY DEF Raise
  <2>2. /\ failures[c] \in Nat /\ log[c] \in Nat /\ dropped[c] \in Nat
        /\ log[c] + dropped[c] >= failures[c] - TrainStart
    BY <1>0 DEF IInv, TypeOK, LogInv
  <2> QED  BY <1>r, <1>2, <2>1, <2>2
<1> QED  BY <1>3, <1>4, <1>5, <1>6, <1>7 DEF IInv

\* Every step of the bus keeps the invariant.
LEMMA StepIInv == IInv /\ [Next]_vars => IInv'
<1> SUFFICES ASSUME IInv, [Next]_vars PROVE IInv'
  OBVIOUS
<1> USE BusAssumption
<1>1. CASE Dispatch
  <2>1. (TypeOK /\ CountInv /\ CriticalInv /\ SinkInv)'
    BY <1>1 DEF IInv, Dispatch, TypeOK, CountInv, CountsTheRun, CriticalInv, SinkInv,
       Callbacks, Signals, CONTINUE
  <2>2. (AnswerInv /\ EarlyInv /\ LogInv)'
    <3>1. /\ TrainStart \in {1, 3} /\ TrainStart' = TrainStart
          /\ events \in Nat /\ events' = events + 1 /\ pc' = "loop" /\ next' = 1
          /\ failures' = failures /\ installed' = installed
          /\ \A c \in Callbacks : failures[c] \in Nat
      BY <1>1, TrainStartType DEF IInv, Dispatch, TypeOK, TrainStart
    <3>2. EarlyInv'
      <4>1. events = TrainStart => pc = "idle" /\ installed
        BY <1>1, <3>1 DEF IInv, EarlyInv, Dispatch
      <4> QED  BY <3>1, <4>1 DEF IInv, EarlyInv
    <3> QED  BY <1>1, <3>1, <3>2 DEF IInv, Dispatch, AnswerInv, LogInv, CONTINUE
  <2> QED  BY <2>1, <2>2 DEF IInv
<1>2. CASE Pass
  <2>1. (TypeOK /\ CountInv /\ CriticalInv /\ SinkInv)'
    BY <1>2 DEF IInv, Pass, TypeOK, CountInv, CountsTheRun, CriticalInv, SinkInv, Callbacks
  <2>2. (AnswerInv /\ EarlyInv /\ LogInv)'
    BY <1>2 DEF IInv, Pass, TypeOK, AnswerInv, EarlyInv, LogInv, TrainStart, Callbacks
  <2> QED  BY <2>1, <2>2 DEF IInv
<1>3. ASSUME NEW s \in Signals, Return(s) PROVE IInv'  BY <1>3, ReturnKeeps
<1>4. CASE Isolate  BY <1>4, IsolateKeeps
<1>5. CASE Raise  BY <1>5, RaiseKeeps
<1>6. CASE Answer
  <2>1. (TypeOK /\ CountInv /\ CriticalInv /\ SinkInv)'
    BY <1>6 DEF IInv, Answer, TypeOK, CountInv, CountsTheRun, CriticalInv, SinkInv
  <2>2. (AnswerInv /\ EarlyInv /\ LogInv)'
    BY <1>6 DEF IInv, Answer, TypeOK, AnswerInv, EarlyInv, LogInv, TrainStart
  <2> QED  BY <2>1, <2>2 DEF IInv
<1>7. CASE UNCHANGED vars
  BY <1>7 DEF vars, IInv, TypeOK, CountInv, CountsTheRun, CriticalInv, SinkInv,
     AnswerInv, EarlyInv, LogInv, TrainStart
<1> QED  BY <1>1, <1>2, <1>3, <1>4, <1>5, <1>6, <1>7 DEF Next

\* The invariant holds in every behaviour.
THEOREM Invariance == Spec => []IInv
BY InitIInv, StepIInv, PTL DEF Spec

------------------------------------------------------------------------------
\* A callback is quarantined exactly when its last MaxFailures invocations all
\* raised (base.py:142 to 161), whatever the limit and the number of events.
THEOREM QuarantineIsExact == Spec => []QuarantineExact
<1>1. IInv => QuarantineExact
  <2> SUFFICES ASSUME IInv, NEW c \in Callbacks
               PROVE  c \in quarantined <=> c \notin Critical /\ KeepsFailing(c)
    BY DEF QuarantineExact
  <2> USE BusAssumption
  <2>1. CASE c \in Critical  BY <2>1 DEF IInv, CriticalInv
  <2>2. CASE c \notin Critical
    <3>1. /\ CountsTheRun(c) /\ (c \in quarantined <=> failures[c] >= MaxFailures)
          /\ failures[c] \in 0..MaxFailures /\ outcomes[c] \in Seq(BOOLEAN)
      BY <2>2 DEF IInv, CountInv, TypeOK
    <3>2. failures[c] >= MaxFailures => KeepsFailing(c)
      BY <3>1 DEF CountsTheRun, KeepsFailing
    <3>3. KeepsFailing(c) => failures[c] >= MaxFailures
      <4> DEFINE n == Len(outcomes[c])
      <4> SUFFICES ASSUME KeepsFailing(c), failures[c] < MaxFailures PROVE FALSE
        BY <3>1
      <4>1. n \in Nat /\ n >= MaxFailures /\ \A i \in n - MaxFailures + 1..n : ~outcomes[c][i]
        BY <3>1 DEF KeepsFailing
      <4>2. failures[c] < n => outcomes[c][n - failures[c]]  BY <3>1 DEF CountsTheRun
      <4> HIDE DEF n
      <4>3. failures[c] < n /\ n - failures[c] \in n - MaxFailures + 1..n  BY <3>1, <4>1
      <4> QED  BY <4>1, <4>2, <4>3
    <3> QED  BY <2>2, <3>1, <3>2, <3>3
  <2> QED  BY <2>1, <2>2
<1> QED  BY <1>1, Invariance, PTL

\* dispatch() answers with the strongest signal (base.py:165).
THEOREM StrongestSignalWins == Spec => []StrongestWins
<1>1. IInv => StrongestWins
  <2> SUFFICES ASSUME IInv, pc = "idle" PROVE result = Max(answers \cup {CONTINUE})
    BY DEF StrongestWins
  <2> DEFINE S == answers \cup {CONTINUE}
  <2>1. S \in SUBSET Signals /\ result \in S /\ \A s \in S : s <= result
    BY DEF IInv, TypeOK, AnswerInv, Signals, CONTINUE
  <2> HIDE DEF S
  <2>2. Max(S) = result  BY <2>1, MaxIsTheLargest
  <2> QED  BY <2>2 DEF S
<1> QED  BY <1>1, Invariance, PTL

\* What is missing from the log of the failures that quarantined a callback: those
\* the sink dropped, and one for each event up to on_train_start at most
\* (callback_isolation.py:54, base.py:615), on a fresh run and on a resumed one.
THEOREM QuarantinesAreLogged == Spec => []QuarantineIsLogged
<1>1. IInv => QuarantineIsLogged
  <2> SUFFICES ASSUME IInv, NEW c \in quarantined
               PROVE  log[c] + dropped[c] >= MaxFailures - TrainStart
    BY DEF IInv, QuarantineIsLogged
  <2>1. c \in Callbacks /\ c \notin Critical  BY DEF IInv, TypeOK, CriticalInv
  <2>2. /\ failures[c] >= MaxFailures
        /\ log[c] + dropped[c] >= failures[c] - TrainStart
    BY <2>1 DEF IInv, CountInv, LogInv
  <2>3. /\ failures[c] \in Nat /\ log[c] \in Nat /\ dropped[c] \in Nat
        /\ TrainStart \in Nat
    BY <2>1, TrainStartType DEF IInv, TypeOK
  <2> QED  BY <2>2, <2>3, BusAssumption
<1> QED  BY <1>1, Invariance, PTL

------------------------------------------------------------------------------
(* SAM and MeZO: at every point of a step, how far the weights are         *)
(* displaced, which directions are untouched, what has been measured.      *)

Displaced(n) == [left EXCEPT ![step] = @ + n]

\* Where the weights are while a step is under way.
Displacement ==
  /\ phase \in {"begin", "verdict", "backward", "update", "stepped", "learn", "end"} => offset = left
  /\ phase \in {"plus", "second"} => offset = Displaced(1)
  /\ phase = "minus" => offset = Displaced(-1)

\* No earlier step has moved along the direction of this one or of a later one.
Untouched == \A d \in Batches : d >= step => left[d] = 0

\* What pass 1, or the first loss, has left for the moment of the update.
Measured ==
  /\ phase = "second" => grads = {}
  /\ phase = "update" => grads = {FarSide(1)}
  /\ phase = "plus" => losses = {}
  /\ phase = "minus" => losses = {FarSide(1)}
  /\ phase = "learn" => losses = {FarSide(1), FarSide(-1)}

Counted == micro <= step /\ (phase \in {"begin", "verdict"} => micro < step)

TwoPassInv == TwoPassTypeOK /\ Displacement /\ Untouched /\ Measured /\ Counted

\* A step that runs displaces the weights within the type of offset.
LEMMA DisplacedType ==
  ASSUME TwoPassInv, step \in Batches, NEW n \in -1..1
  PROVE  /\ Displaced(n) \in [Batches -> -1..1]
         /\ Displaced(n)[step] = n
         /\ FarSide(n) \in Sample
BY DEF TwoPassInv, TwoPassTypeOK, Untouched, Displaced, FarSide, Sample,
   Batches

\* The initial states satisfy the invariant.
LEMMA TwoPassStarts ==
  TwoPassInit => TwoPassInv
BY TwoPassAssumption DEF TwoPassInit, TwoPassInv, TwoPassTypeOK, Displacement,
   Untouched, Measured, Counted, Still, Batches, Sample

\* Every step of every action preserves the invariant.
LEMMA TwoPassStep ==
  TwoPassInv /\ [TwoPassNext]_twoPassVars => TwoPassInv'
<1> SUFFICES ASSUME TwoPassInv, [TwoPassNext]_twoPassVars PROVE TwoPassInv'
  OBVIOUS
<1> USE DEF Goto
<1>0. /\ step \in 1..MaxStep + 1 /\ MaxStep \in Nat \ {0} /\ Accumulate \in Nat \ {0}
      /\ micro \in 0..MaxStep
  BY TwoPassAssumption DEF TwoPassInv, TwoPassTypeOK
<1>1. CASE SamForward
  BY <1>0, <1>1 DEF SamForward, TwoPassInv, TwoPassTypeOK, Displacement, Untouched,
     Measured, Counted, Batches, Sample, Displaced, FarSide
<1>2. CASE SamSkip
  BY <1>0, <1>2 DEF SamSkip, TwoPassInv, TwoPassTypeOK, Displacement, Untouched,
     Measured, Counted, Batches, Sample, Displaced, FarSide
<1>3. CASE SamBackward
  <2>1. Here \in Sample /\ step \in Batches
    BY <1>0, <1>3
       DEF SamBackward, Here, TwoPassInv, TwoPassTypeOK, Sample
  <2>2. phase' \in {"backward", "end"}
    BY <1>3 DEF SamBackward
  <2>3. micro' = micro + 1 /\ micro + 1 \in 0..MaxStep /\ micro + 1 <= step
    BY <1>0, <1>3, <2>1 DEF SamBackward, TwoPassInv, Counted, Batches
  <2> QED
    BY <1>0, <1>3, <2>1, <2>2, <2>3 DEF SamBackward, TwoPassInv, TwoPassTypeOK,
       Displacement, Untouched, Measured, Counted, Displaced
<1>4. CASE SamPerturb
  <2>1. step \in Batches /\ offset = left
    BY <1>4 DEF SamPerturb, TwoPassInv, TwoPassTypeOK, Displacement
  <2>2. offset' = Displaced(1) /\ Displaced(1)' = Displaced(1)
    BY <1>4, <2>1 DEF SamPerturb, Moved, Displaced
  <2>3. Displaced(1) \in [Batches -> -1..1]
    BY <2>1, DisplacedType
  <2> QED
    BY <1>0, <1>4, <2>1, <2>2, <2>3 DEF SamPerturb, TwoPassInv, TwoPassTypeOK,
       Displacement, Untouched, Measured, Counted, Sample
<1>5. CASE SamSecond
  <2>1. step \in Batches /\ offset = Displaced(1) /\ grads = {}
    BY <1>5 DEF SamSecond, TwoPassInv, TwoPassTypeOK, Displacement, Measured
  <2>2. /\ Here = FarSide(1) /\ FarSide(1) \in Sample
        /\ FarSide(1)' = FarSide(1)
    BY <1>5, <2>1, DisplacedType DEF SamSecond, Here, FarSide, Displaced
  <2>3. offset' = left
    BY <1>0, <1>5, <2>1
       DEF SamSecond, Moved, Displaced, TwoPassInv, TwoPassTypeOK,
           Batches
  <2> QED
    BY <1>0, <1>5, <2>1, <2>2, <2>3
       DEF SamSecond, TwoPassInv, TwoPassTypeOK, Displacement, Untouched, Measured,
           Counted
<1>6. CASE SamUpdate
  <2>1. {g.batch : g \in grads} \subseteq Batches
    BY DEF TwoPassInv, TwoPassTypeOK, Sample
  <2> QED
    BY <1>0, <1>6, <2>1 DEF SamUpdate, TwoPassInv, TwoPassTypeOK, Displacement,
       Untouched, Measured, Counted, Batches, Sample
<1>14. CASE SamClear
  BY <1>0, <1>14 DEF SamClear, TwoPassInv, TwoPassTypeOK, Displacement, Untouched,
     Measured, Counted, Batches, Sample, Displaced, FarSide
<1>7. CASE MezoPlus
  <2>1. step \in Batches /\ offset = left
    BY <1>0, <1>7 DEF MezoPlus, TwoPassInv, Displacement, Batches
  <2>2. offset' = Displaced(1) /\ Displaced(1)' = Displaced(1)
    BY <1>7, <2>1 DEF MezoPlus, Moved, Displaced
  <2>3. Displaced(1) \in [Batches -> -1..1]
    BY <2>1, DisplacedType
  <2> QED
    BY <1>0, <1>7, <2>1, <2>2, <2>3 DEF MezoPlus, TwoPassInv, TwoPassTypeOK,
       Displacement, Untouched, Measured, Counted, Sample
<1>8. CASE MezoMinus
  <2>1. step \in Batches /\ offset = Displaced(1) /\ losses = {}
    BY <1>8 DEF MezoMinus, TwoPassInv, TwoPassTypeOK, Displacement, Measured
  <2>2. /\ Here = FarSide(1) /\ FarSide(1) \in Sample
        /\ FarSide(1)' = FarSide(1)
    BY <1>8, <2>1, DisplacedType DEF MezoMinus, Here, FarSide, Displaced
  <2>3. offset' = Displaced(-1) /\ Displaced(-1)' = Displaced(-1)
    BY <1>0, <1>8, <2>1
       DEF MezoMinus, Moved, Displaced, TwoPassInv, TwoPassTypeOK,
           Batches
  <2>4. Displaced(-1) \in [Batches -> -1..1]
    BY <2>1, DisplacedType
  <2> QED
    BY <1>0, <1>8, <2>1, <2>2, <2>3, <2>4
       DEF MezoMinus, TwoPassInv, TwoPassTypeOK, Displacement, Untouched, Measured,
           Counted
<1>9. CASE MezoRestore
  <2>1. step \in Batches /\ offset = Displaced(-1) /\ losses = {FarSide(1)}
    BY <1>9 DEF MezoRestore, TwoPassInv, TwoPassTypeOK, Displacement, Measured
  <2>2. /\ Here = FarSide(-1) /\ FarSide(-1) \in Sample
        /\ FarSide(-1)' = FarSide(-1)
        /\ FarSide(1) \in Sample /\ FarSide(1)' = FarSide(1)
    BY <1>9, <2>1, DisplacedType
       DEF MezoRestore, Here, FarSide, Displaced
  <2>3. offset' = left
    BY <1>0, <1>9, <2>1
       DEF MezoRestore, Moved, Displaced, TwoPassInv, TwoPassTypeOK,
           Batches
  <2> QED
    BY <1>0, <1>9, <2>1, <2>2, <2>3 DEF MezoRestore, TwoPassInv, TwoPassTypeOK,
       Displacement, Untouched, Measured, Counted
<1>10. CASE MezoLearn
  <2>1. {l.batch : l \in losses} \subseteq Batches
    BY DEF TwoPassInv, TwoPassTypeOK, Sample
  <2> QED
    BY <1>0, <1>10, <2>1 DEF MezoLearn, TwoPassInv, TwoPassTypeOK, Displacement,
       Untouched, Measured, Counted, Batches, Sample
<1>11. CASE StepEnd
  BY <1>0, <1>11 DEF StepEnd, NextStep, TwoPassInv, TwoPassTypeOK,
     Displacement, Untouched, Measured, Counted, Batches, Sample
<1>12. CASE Interrupt
  <2>1. step \in Batches /\ phase' = "begin" /\ step' = step + 1 /\ left' = offset
    BY <1>12 DEF Interrupt, TwoPassInv, TwoPassTypeOK
  <2>2. grads' \subseteq Sample
    BY <1>12, <2>1 DEF Interrupt, Here, TwoPassInv, TwoPassTypeOK, Sample
  <2>3. Untouched'
    <3> SUFFICES ASSUME NEW d \in Batches, d >= step + 1 PROVE offset[d] = 0
      BY <2>1 DEF Untouched
    <3>1. left[d] = 0 /\ d # step
      BY <1>0 DEF TwoPassInv, Untouched, Batches
    <3>2. offset[d] = left[d]
      BY <2>1, <3>1 DEF TwoPassInv, TwoPassTypeOK, Displacement, Displaced
    <3> QED
      BY <3>1, <3>2
  <2> QED
    BY <1>0, <1>12, <2>1, <2>2, <2>3 DEF Interrupt, TwoPassInv, TwoPassTypeOK,
       Displacement, Measured, Counted, Batches
<1>13. CASE UNCHANGED twoPassVars
  BY <1>13 DEF twoPassVars, TwoPassInv, TwoPassTypeOK, Displacement, Untouched, Measured,
     Counted, Displaced, FarSide
<1> QED
  BY <1>1, <1>2, <1>3, <1>4, <1>5, <1>6, <1>7, <1>8, <1>9, <1>10, <1>11, <1>12, <1>13,
     <1>14 DEF TwoPassNext

\* The invariant holds throughout.
LEMMA TwoPassInductive ==
  TwoPassSpec => []TwoPassInv
<1>1. TwoPassInit => TwoPassInv
  BY TwoPassStarts
<1>2. TwoPassInv /\ [TwoPassNext]_twoPassVars => TwoPassInv'
  BY TwoPassStep
<1> QED
  BY <1>1, <1>2, PTL DEF TwoPassSpec

\* The variables keep their types in every behaviour.
THEOREM TwoPassTyped ==
  TwoPassSpec => []TwoPassTypeOK
<1>1. TwoPassInv => TwoPassTypeOK
  BY DEF TwoPassInv
<1> QED
  BY <1>1, TwoPassInductive, PTL

\* For every window, number of steps and pattern of steps that raise: an update and
\* the end of a step find the weights where the step found them.
THEOREM WeightsPutBack ==
  TwoPassSpec => []LeavesAsFound
<1>1. TwoPassInv => LeavesAsFound
  BY DEF TwoPassInv, Displacement, LeavesAsFound
<1> QED
  BY <1>1, TwoPassInductive, PTL

\* What SAM and MeZO learn from was measured at the displaced weights alone, and
\* the batch of this step is part of it (sam.py:10 to 13).
THEOREM FarSideUsed ==
  TwoPassSpec => []UpdateUsesFarSide
<1>1. TwoPassInv => UpdateUsesFarSide
  BY DEF TwoPassInv, Measured, UpdateUsesFarSide
<1> QED
  BY <1>1, TwoPassInductive, PTL
===============================================================================
