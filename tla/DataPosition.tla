----------------------------- MODULE DataPosition -----------------------------
(***************************************************************************)
(* How a run keeps its place in the training data: the trainer's counters  *)
(* ctx.epoch and ctx.batch_in_epoch, the DataLoader with its prefetch, the *)
(* sampler under it, and the seek on resume that puts them together again. *)
(*                                                                         *)
(* The order of an epoch is a function of seed + epoch, so an index is     *)
(* named by its epoch and its offset in that order, and a batch by the     *)
(* epoch, its first offset and its length.                                 *)
(***************************************************************************)
EXTENDS Integers, Sequences

CONSTANTS
  Configs,    \* data modules to check, see Config
  MaxTaken,   \* bound: batches a run trains on
  MaxDeaths,  \* bound: deaths of the process
  Nothing

\* size: len(dataset); bs: batch_size; ahead: batches the workers prefetch;
\* counting: StatefulResumableSampler, whose state follows its own yields;
\* seeks: SimpleDataModule, as PrepGraphDataModule has no seek().
Config == [size : Nat, bs : Nat \ {0}, dropLast : BOOLEAN, ahead : Nat,
           counting : BOOLEAN, seeks : BOOLEAN]

Places == [epoch : Nat, at : Nat]
Drawn == [epoch : Nat, first : Nat, len : Nat \ {0}]

\* (Nothing is no place: a walk is one or the other.)
ASSUME PositionAssumption ==
  /\ \A d \in Configs : d \in Config /\ d.size >= d.bs
  /\ MaxTaken \in Nat /\ MaxDeaths \in Nat
  /\ Nothing \notin Places

VARIABLES
  c,         \* the data module of this run
  waiting,   \* whether the loop is inside next(iterator)
  epoch, batch,   \* ctx.epoch, ctx.batch_in_epoch
  sampler,   \* its epoch, and the offset its next walk starts at
  walk,      \* the live iterator: epoch of its order, next offset; or Nothing
  queue,     \* batches drawn from it and not yet handed over
  got,       \* the batch handed to the loop last, or Nothing
  taken,     \* history: batches handed over in the history that led here
  ckpt,      \* the newest checkpoint, or Nothing
  deaths     \* deaths of the process so far

positionVars ==
  <<c, waiting, epoch, batch, sampler, walk, queue, got, taken, ckpt, deaths>>
loader == <<sampler, walk, queue>>
counters == <<epoch, batch, got, taken>>

MinOf(a, b) == IF a < b THEN a ELSE b
PerEpoch == IF c.dropLast THEN c.size \div c.bs
            ELSE (c.size + c.bs - 1) \div c.bs

\* The reference: batch number k of the stream.
Reference(k) ==
  LET first == (k % PerEpoch) * c.bs
  IN  [epoch |-> k \div PerEpoch, first |-> first,
       len |-> MinOf(c.bs, c.size - first)]

\* iter(loader) on a sampler in state s.  The skip of the sequential and the
\* shuffle sampler is used up, the resumable one goes on counting.
Open(s) ==
  /\ walk' = s
  /\ sampler' = IF c.counting THEN s ELSE [s EXCEPT !.at = 0]
  /\ queue' = <<>>

\* seek() of the data module and of its sampler: batches become indices.
SeekTo(e, b) == [epoch |-> e, at |-> b * c.bs]

Origin == [epoch |-> 0, at |-> 0]

PositionInit ==
  /\ c \in Configs
  /\ waiting = FALSE
  /\ epoch = 0 /\ batch = 0 /\ got = Nothing /\ taken = 0
  /\ sampler = Origin /\ walk = Origin /\ queue = <<>>
  /\ ckpt = Nothing /\ deaths = 0

------------------------------------------------------------------------------
AskNext ==
  /\ ~waiting /\ taken < MaxTaken
  /\ waiting' = TRUE
  /\ UNCHANGED <<c, counters, loader, ckpt, deaths>>

\* Without workers a batch is drawn on demand; with them, also ahead of it.
Wanted == walk # Nothing /\ (Len(queue) < c.ahead \/ (waiting /\ queue = <<>>))

\* BatchSampler takes the next bs indices of the walk.
DrawFull ==
  /\ Wanted /\ walk.at + c.bs <= c.size
  /\ queue' = Append(queue, [epoch |-> walk.epoch, first |-> walk.at,
                             len |-> c.bs])
  /\ walk' = [walk EXCEPT !.at = @ + c.bs]
  /\ sampler' = IF c.counting THEN [sampler EXCEPT !.at = @ + c.bs] ELSE sampler
  /\ UNCHANGED <<c, waiting, counters, ckpt, deaths>>

\* Mutant: the end of the walk goes unnoticed when the last batch was a full one.
DrawLastShortOnly ==
  /\ Wanted /\ walk.at + c.bs > c.size /\ walk.at < c.size
  /\ queue' = IF ~c.dropLast
              THEN Append(queue, [epoch |-> walk.epoch, first |-> walk.at,
                                  len |-> c.size - walk.at])
              ELSE queue
  /\ walk' = Nothing
  /\ sampler' = [epoch |-> sampler.epoch + 1, at |-> 0]
  /\ UNCHANGED <<c, waiting, counters, ckpt, deaths>>

\* Running short ends the walk, which moves the sampler to the next epoch; what
\* is left makes a short batch unless drop_last.
DrawLast ==
  /\ Wanted /\ walk.at + c.bs > c.size
  /\ queue' = IF walk.at < c.size /\ ~c.dropLast
              THEN Append(queue, [epoch |-> walk.epoch, first |-> walk.at,
                                  len |-> c.size - walk.at])
              ELSE queue
  /\ walk' = Nothing
  /\ sampler' = [epoch |-> sampler.epoch + 1, at |-> 0]
  /\ UNCHANGED <<c, waiting, counters, ckpt, deaths>>

\* next(iterator) returns.
Take ==
  /\ waiting /\ queue # <<>>
  /\ got' = Head(queue) /\ queue' = Tail(queue)
  /\ batch' = batch + 1 /\ taken' = taken + 1
  /\ waiting' = FALSE
  /\ UNCHANGED <<c, epoch, sampler, walk, ckpt, deaths>>

\* StopIteration: the loop begins an epoch and a new iterator, and waits again.
NewEpoch ==
  /\ waiting /\ queue = <<>> /\ walk = Nothing
  /\ epoch' = epoch + 1 /\ batch' = 0
  /\ Open(sampler)
  /\ UNCHANGED <<c, waiting, got, taken, ckpt, deaths>>

\* A checkpoint between two steps: Trainer.state_dict() and the sampler's.
Save ==
  /\ ~waiting
  /\ ckpt' = [epoch |-> epoch, batch |-> batch, sampler |-> sampler,
              taken |-> taken]
  /\ UNCHANGED <<c, waiting, counters, loader, deaths>>

\* Mutant: the seek is left out, so the sampler's own state counts.
ResumeFromSampler ==
  /\ ckpt # Nothing /\ deaths < MaxDeaths
  /\ deaths' = deaths + 1
  /\ epoch' = ckpt.epoch /\ batch' = ckpt.batch /\ taken' = ckpt.taken
  /\ Open(ckpt.sampler)
  /\ got' = Nothing /\ waiting' = FALSE
  /\ UNCHANGED <<c, ckpt>>

\* The process dies and load_checkpoint() runs in a new one: the sampler's own
\* state first, then the seek of a data module that has one.
CrashResume ==
  /\ ckpt # Nothing /\ deaths < MaxDeaths
  /\ deaths' = deaths + 1
  /\ epoch' = ckpt.epoch /\ batch' = ckpt.batch /\ taken' = ckpt.taken
  /\ Open(IF c.seeks THEN SeekTo(ckpt.epoch, ckpt.batch) ELSE ckpt.sampler)
  /\ got' = Nothing /\ waiting' = FALSE
  /\ UNCHANGED <<c, ckpt>>

PositionNext ==
  \/ AskNext \/ DrawFull \/ DrawLast \/ Take \/ NewEpoch
  \/ Save \/ CrashResume

\* The loop and the loader's workers keep going.
Fairness == WF_positionVars(AskNext \/ DrawFull \/ DrawLast \/ Take \/ NewEpoch)
PositionSpec == PositionInit /\ [][PositionNext]_positionVars /\ Fairness

------------------------------------------------------------------------------
PositionTypeOK ==
  /\ c \in Configs /\ waiting \in BOOLEAN
  /\ epoch \in Nat /\ batch \in 0..MaxTaken
  /\ sampler \in Places /\ (walk = Nothing \/ walk \in Places)
  /\ queue \in Seq(Drawn) /\ Len(queue) <= MinOf(c.ahead, PerEpoch) + 1
  /\ got = Nothing \/ got \in Drawn
  /\ taken \in 0..MaxTaken /\ deaths \in 0..MaxDeaths
  /\ ckpt = Nothing \/ ckpt \in [epoch : Nat, batch : Nat, sampler : Places,
                              taken : 0..MaxTaken]

\* The batch the loop trains on is the one an uninterrupted run would have
\* reached, wherever the run was killed, however far the workers were ahead and
\* whether or not the last batch of the epoch was a short one; and the trainer's
\* own counters, which a resume seeks by, agree with the batches it has had:
\* batch_in_epoch restarts with the epoch, not before.  (Without a seek nothing
\* reads them.)
StreamExact ==
  /\ PositionTypeOK
  /\ got # Nothing => got = Reference(taken - 1)
  /\ c.seeks => epoch * PerEpoch + batch = taken

\* next(iterator) always comes back with a batch, also when the checkpoint was
\* taken on the last batch of an epoch.
NextReturns == waiting ~> ~waiting
==============================================================================
