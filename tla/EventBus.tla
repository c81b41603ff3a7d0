------------------------------- MODULE EventBus -------------------------------
(***************************************************************************)
(* callbacks/base.py: the bus calls the hook of an event on every callback *)
(* in turn, isolates the failures of non-critical callbacks, quarantines   *)
(* one that keeps failing and returns the strongest signal.  The last      *)
(* callback is the isolation sink, which hooks itself into the bus during  *)
(* on_train_start.  A resumed run loads its checkpoint before fit(), and   *)
(* load_checkpoint() has dispatched two events by then.                    *)
(***************************************************************************)
EXTENDS Integers, Sequences, FiniteSets, FiniteSetsExt

CONSTANTS
  N,            \* number of callbacks; callback N is CallbackIsolationSink
  Critical,     \* callbacks _is_critical() holds for
  MaxFailures,  \* max_consecutive_failures
  MaxEvents     \* bound: calls of dispatch()

Callbacks == 1..N
Signals == 0..3    \* CONTINUE < SKIP_STEP < RETRY_STEP < STOP_TRAINING
CONTINUE == 0

ASSUME BusAssumption ==
  /\ N \in Nat \ {0} /\ MaxFailures \in Nat \ {0} /\ MaxEvents \in Nat
  /\ Critical \subseteq Callbacks \ {N}

VARIABLES
  resumed,      \* whether load_checkpoint() goes before fit()
  pc,           \* "idle", "loop", or "raised" when dispatch() raised
  events,       \* calls of dispatch() so far
  next,         \* callback the loop has reached
  result,       \* strongest signal so far, the answer once idle
  failures,     \* _failure_counts, 0 for an absent key
  quarantined,  \* _quarantined
  installed,    \* whether bus._on_error is the sink
  log,          \* entries of each callback in callback_failures.jsonl
  dropped,      \* history: entries the sink could not write
  outcomes,     \* history: for each callback, TRUE per success, FALSE per failure
  answers       \* history: what callbacks returned in this dispatch

vars == <<resumed, pc, events, next, result, failures, quarantined, installed,
          log, dropped, outcomes, answers>>

\* The number of the event on_train_start: on_load_checkpoint_pre and _post go
\* before it on a resume.
TrainStart == IF resumed THEN 3 ELSE 1

Init ==
  /\ resumed \in BOOLEAN
  /\ pc = "idle" /\ events = 0 /\ next = 1 /\ result = CONTINUE
  /\ failures = [c \in Callbacks |-> 0] /\ quarantined = {}
  /\ installed = FALSE /\ log = [c \in Callbacks |-> 0]
  /\ dropped = [c \in Callbacks |-> 0]
  /\ outcomes = [c \in Callbacks |-> <<>>] /\ answers = {}

\* After a raise the trainer still dispatches on_exception and on_train_end,
\* unless it was on_train_start, the first on_epoch_begin or an event of
\* load_checkpoint() that raised: they are dispatched outside the try.
Dispatch ==
  /\ pc = "idle" \/ (pc = "raised" /\ events > TrainStart + 1)
  /\ events < MaxEvents
  /\ events' = events + 1
  /\ pc' = "loop" /\ next' = 1 /\ result' = CONTINUE /\ answers' = {}
  /\ UNCHANGED <<resumed, failures, quarantined, installed, log, dropped, outcomes>>

\* A quarantined callback is passed over, and so is one without the hook; the
\* sink has the hook of on_train_start.
Pass ==
  /\ pc = "loop" /\ next <= N
  /\ ~(next = N /\ events = TrainStart)
  /\ next' = next + 1
  /\ UNCHANGED <<resumed, pc, events, result, failures, quarantined, installed,
                 log, dropped, outcomes, answers>>

\* The hook of callback next is called; the sink has none for the events of
\* load_checkpoint().
Called ==
  /\ pc = "loop" /\ next <= N /\ next \notin quarantined
  /\ next = N => events >= TrainStart

Record(ok) == outcomes' = [outcomes EXCEPT ![next] = Append(@, ok)]

\* Mutants: the last signal wins; a success leaves the count as it is.
ReturnLast(s) ==
  /\ Called
  /\ result' = s /\ answers' = answers \cup {s}
  /\ failures' = [failures EXCEPT ![next] = 0]
  /\ installed' = (installed \/ (next = N /\ events = TrainStart))
  /\ Record(TRUE)
  /\ next' = next + 1
  /\ UNCHANGED <<resumed, pc, events, quarantined, log, dropped>>

ReturnKeepsCount(s) ==
  /\ Called
  /\ result' = Max({result, s}) /\ answers' = answers \cup {s}
  /\ installed' = (installed \/ (next = N /\ events = TrainStart))
  /\ Record(TRUE)
  /\ next' = next + 1
  /\ UNCHANGED <<resumed, pc, events, failures, quarantined, log, dropped>>

\* The hook returns: its failure count is reset, the strongest signal kept.
Return(s) ==
  /\ Called
  /\ result' = Max({result, s}) /\ answers' = answers \cup {s}
  /\ failures' = [failures EXCEPT ![next] = 0]
  /\ installed' = (installed \/ (next = N /\ events = TrainStart))
  /\ Record(TRUE)
  /\ next' = next + 1
  /\ UNCHANGED <<resumed, pc, events, quarantined, log, dropped>>

Logged(c) == log' = [log EXCEPT ![c] = @ + 1] /\ UNCHANGED dropped
Dropped(c) == dropped' = [dropped EXCEPT ![c] = @ + 1] /\ UNCHANGED log

\* Mutant: only critical failures are written.
ReportCritical ==
  IF installed /\ next \in Critical
  THEN Logged(next) \/ Dropped(next)
  ELSE UNCHANGED <<log, dropped>>

\* _on_error(): once installed, the sink appends the failure to its file.  The
\* entry is dropped when the run has no directory or the write fails.
Report ==
  IF installed
  THEN Logged(next) \/ Dropped(next)
  ELSE UNCHANGED <<log, dropped>>

\* The hook of a non-critical callback raises: counted, swallowed, and the
\* callback quarantined when the count reaches the limit.
Isolate ==
  /\ Called /\ next \notin Critical \cup {N}
  /\ failures' = [failures EXCEPT ![next] = @ + 1]
  /\ quarantined' = IF failures'[next] >= MaxFailures
                    THEN quarantined \cup {next} ELSE quarantined
  /\ Report /\ Record(FALSE)
  /\ next' = next + 1
  /\ UNCHANGED <<resumed, pc, events, result, installed, answers>>

\* The hook of a critical callback raises: so does dispatch().
Raise ==
  /\ Called /\ next \in Critical
  /\ Report /\ Record(FALSE)
  /\ pc' = "raised"
  /\ UNCHANGED <<resumed, events, next, result, failures, quarantined, installed,
                 answers>>

Answer ==
  /\ pc = "loop" /\ next > N
  /\ pc' = "idle"
  /\ UNCHANGED <<resumed, events, next, result, failures, quarantined, installed,
                 log, dropped, outcomes, answers>>

Next ==
  \/ Dispatch \/ Pass
  \/ \E s \in Signals : Return(s)
  \/ Isolate \/ Raise \/ Answer

Spec == Init /\ [][Next]_vars

------------------------------------------------------------------------------
TypeOK ==
  /\ resumed \in BOOLEAN /\ pc \in {"idle", "loop", "raised"} /\ events \in 0..MaxEvents
  /\ next \in 1..N + 1 /\ result \in Signals
  /\ failures \in [Callbacks -> 0..MaxFailures]
  /\ quarantined \subseteq Callbacks
  /\ installed \in BOOLEAN /\ log \in [Callbacks -> Nat]
  /\ dropped \in [Callbacks -> Nat]
  /\ outcomes \in [Callbacks -> Seq(BOOLEAN)] /\ answers \subseteq Signals

\* The last MaxFailures invocations of c all raised.
KeepsFailing(c) ==
  LET n == Len(outcomes[c])
  IN  /\ n >= MaxFailures
      /\ \A i \in n - MaxFailures + 1..n : ~outcomes[c][i]

\* A callback is quarantined exactly when its last MaxFailures invocations all
\* raised, whatever the hooks: failures with a success in between do not add
\* up, a quarantined callback is never called again, and a critical one is
\* never quarantined (base.py:142 to 161).
QuarantineExact ==
  \A c \in Callbacks : c \in quarantined <=> c \notin Critical /\ KeepsFailing(c)

\* dispatch() answers with the strongest signal of all callbacks that returned,
\* also when others failed in between.
StrongestWins == pc = "idle" => result = Max(answers \cup {CONTINUE})

\* What is missing from callback_failures.jsonl of the failures that quarantined
\* a callback: those the sink could not write, and at most one for each event up
\* to on_train_start, when it hooks itself into the bus.  A resumed run has three
\* such events, as many as the default limit: there a callback may be silenced
\* with no entry at all (callback_isolation.py:54 and 102, base.py:615).
QuarantineIsLogged ==
  /\ TypeOK
  /\ \A c \in quarantined : log[c] + dropped[c] >= MaxFailures - TrainStart
==============================================================================
