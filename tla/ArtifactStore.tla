----------------------------- MODULE ArtifactStore -----------------------------
(***************************************************************************)
(* data/artifacts: production runs fill a store on disk, one sample after  *)
(* the other, and seal it; a run may die at any point and a later one      *)
(* carries on in the same directory.  Three backends lay the samples out   *)
(* in shard files, in one file per tensor, or in one parquet file.  A      *)
(* dataset joined to the store opens it and reads it back.                 *)
(*                                                                         *)
(* A value is the revision of the model that computed it; the header of a  *)
(* store names a revision when the run was told one, and default           *)
(* production is not.  Shards and rows are counted from 1.                 *)
(***************************************************************************)
EXTENDS Integers, Sequences, SequencesExt, Functions, FiniteSets, FiniteSetsExt

CONSTANTS
  Samples,      \* sample ids of the dataset
  Revisions,    \* model revisions a run can use
  Tensors,      \* number of tensors per sample
  ShardSize,    \* shard_size
  MaxRuns,      \* bound: production runs over the directory
  None, Torn    \* no file and no revision named; a file cut short by a death

\* No contents of a file is one of the two marks.
ASSUME StoreAssumption ==
  /\ Tensors \in Nat \ {0} /\ ShardSize \in Nat \ {0} /\ MaxRuns \in Nat
  /\ IsFiniteSet(Samples)
  /\ {None, Torn} \cap Revisions = {} /\ None # Torn
  /\ None \notin [rev : Revisions \cup {None}, fields : BOOLEAN]
  /\ \A S \in SUBSET Samples :
       /\ None \notin [S -> Nat] /\ Torn \notin [S -> Nat]
       /\ None \notin [S -> [row : Nat, value : Revisions]]
       /\ Torn \notin [S -> [row : Nat, value : Revisions]]
       /\ None \notin [index : [S -> Nat], asked : Revisions \cup {None}]

Backends == {"shards", "memmap", "parquet"}
Empty == [s \in {} |-> {}]

VARIABLES
  backend,                \* class of the store
  shards, bins, rows,     \* shard files, <tensor>.bin files, rows.parquet
  index,                  \* manifest.json
  complete,               \* header in MANIFEST_COMPLETE.json
  runs, used,             \* runs so far and the revisions they used: history
  model,                  \* revision of the model of this or the last run
  pc, left, cur,          \* the run: its place, samples to come, sample in put()
  known, pending, header, finalized,    \* the run's _index, _pending or _rows
  unclean,                \* history: a run died with rows appended and no index
  view                    \* what a joined dataset has open

disk == <<shards, bins, rows, index, complete>>
memory == <<known, pending, header, finalized>>
vars == <<backend, disk, runs, used, model, pc, left, cur, memory, unclean, view>>

Init ==
  /\ backend \in Backends
  /\ shards = <<>> /\ bins = [t \in 1..Tensors |-> <<>>] /\ rows = None
  /\ index = None /\ complete = None /\ runs = 0 /\ used = {} /\ model = None
  /\ pc = "none" /\ left = {} /\ cur = None
  /\ known = Empty /\ pending = Empty /\ header = None /\ finalized = FALSE
  /\ unclean = FALSE /\ view = None

OnDisk(i) == IF i \in {None, Torn} THEN Empty ELSE i

\* Mutant: the next row is the last one of the index.
NextRowLast == IF known = Empty THEN 1 ELSE Max(Range(known))

NextRow == IF known = Empty THEN 1 ELSE Max(Range(known)) + 1

\* The constructors and _resolve_store().  A parquet store reads its index
\* only when it is finalised, and refuses one it cannot read.  Given a path, a
\* store that is not complete is opened as a shard store, and one that is comes
\* with its header.  header_overrides may name the revision; nothing else does.
Open(r, byPath, named) ==
  /\ pc = "none" /\ runs < MaxRuns
  /\ byPath => complete # None \/ backend = "shards"
  /\ ~(backend = "parquet" /\ complete # None /\ index = Torn)
  /\ runs' = runs + 1 /\ used' = used \cup {r} /\ model' = r
  /\ known' = IF backend = "parquet" /\ complete = None THEN Empty ELSE OnDisk(index)
  /\ pending' = IF backend = "parquet" /\ complete # None
              THEN [s \in DOMAIN OnDisk(rows) |-> rows[s].value] ELSE Empty
  /\ finalized' = (complete # None)
  /\ LET kept == byPath /\ complete # None
     IN  header' = [rev |-> IF named THEN r ELSE IF kept THEN complete.rev ELSE None,
                    fields |-> kept /\ complete.fields]
  /\ pc' = "run" /\ left' = Samples
  /\ UNCHANGED <<backend, disk, cur, unclean, view>>

\* produce() passes over a sample the store has.
Skip(s) ==
  /\ pc = "run" /\ s \in left /\ s \in DOMAIN known \cup DOMAIN pending
  /\ left' = left \ {s}
  /\ UNCHANGED <<backend, disk, runs, used, model, pc, cur, memory, unclean, view>>

Missing(s) ==
  /\ pc = "run" /\ s \in left /\ s \notin DOMAIN known \cup DOMAIN pending
  /\ left' = left \ {s}

\* put() on a finalised store raises, and the run ends.
PutRefused(s) ==
  /\ Missing(s) /\ finalized
  /\ pc' = "none"
  /\ UNCHANGED <<backend, disk, runs, used, model, cur, memory, unclean, view>>

Described == header' = [header EXCEPT !.fields = TRUE]

\* SafetensorsShardStore.put(): buffered, and flushed by the shard.
PutShard(s) ==
  /\ backend = "shards" /\ Missing(s) /\ ~finalized
  /\ pending' = [x \in DOMAIN pending \cup {s} |-> IF x = s THEN model ELSE pending[x]]
  /\ pc' = IF Cardinality(DOMAIN pending') >= ShardSize THEN "flush" ELSE "run"
  /\ Described
  /\ UNCHANGED <<backend, disk, runs, used, model, cur, known, finalized, unclean, view>>

\* MemmapFixedStore.put(): one append per tensor, then the row is known.
PutRow(s) ==
  /\ backend = "memmap" /\ Missing(s) /\ ~finalized
  /\ cur' = [sample |-> s, tensor |-> 1] /\ pc' = "append"
  /\ UNCHANGED <<backend, disk, runs, used, model, memory, unclean, view>>

AppendRow ==
  /\ pc = "append"
  /\ LET t == cur.tensor IN
     /\ bins' = [bins EXCEPT ![t] = Append(@, [sample |-> cur.sample, value |-> model])]
     /\ IF t < Tensors
        THEN cur' = [cur EXCEPT !.tensor = t + 1] /\ UNCHANGED <<pc, known, header>>
        ELSE /\ known' = [x \in DOMAIN known \cup {cur.sample} |->
                            IF x = cur.sample THEN NextRow ELSE known[x]]
             /\ cur' = None /\ pc' = "run" /\ Described
  /\ UNCHANGED <<backend, shards, rows, index, complete, runs, used, model, left,
                 pending, finalized, unclean, view>>

\* ParquetRowStore.put(): kept in memory until finalize().
PutParquet(s) ==
  /\ backend = "parquet" /\ Missing(s) /\ ~finalized
  /\ pending' = [x \in DOMAIN pending \cup {s} |-> IF x = s THEN model ELSE pending[x]]
  /\ known' = [x \in DOMAIN known \cup {s} |->
                 IF x = s THEN Cardinality(DOMAIN pending) + 1 ELSE known[x]]
  /\ Described
  /\ UNCHANGED <<backend, disk, runs, used, model, pc, cur, finalized, unclean, view>>

\* _flush_shard() up to the rename of the shard file: the next free number.
FlushShard ==
  /\ pc = "flush"
  /\ shards' = Append(shards, pending)
  /\ pc' = "reindex"
  /\ UNCHANGED <<backend, bins, rows, index, complete, runs, used, model, left, cur,
                 memory, unclean, view>>

\* Mutant: the index written holds the new shard only.
ReindexNewOnly ==
  /\ pc = "reindex"
  /\ known' = [s \in DOMAIN pending |-> Len(shards)]
  /\ index' = known' /\ pending' = Empty
  /\ pc' = "run"
  /\ UNCHANGED <<backend, shards, bins, rows, complete, runs, used, model, left, cur,
                 header, finalized, unclean, view>>

\* _flush_shard() from there, with _persist_index().
Reindex ==
  /\ pc = "reindex"
  /\ known' = [s \in DOMAIN known \cup DOMAIN pending |->
                 IF s \in DOMAIN pending THEN Len(shards) ELSE known[s]]
  /\ index' = known' /\ pending' = Empty
  /\ pc' = "run"
  /\ UNCHANGED <<backend, shards, bins, rows, complete, runs, used, model, left, cur,
                 header, finalized, unclean, view>>

\* finalize(): shards are flushed first; the last step is the manifest.
Finalize ==
  /\ pc = "run" /\ left = {}
  /\ pc' = CASE backend = "shards" -> IF pending # Empty THEN "flush" ELSE "index"
             [] backend = "memmap" -> "truncate"
             [] backend = "parquet" -> "rows"
  /\ UNCHANGED <<backend, disk, runs, used, model, left, cur, memory, unclean, view>>

WriteRows ==
  /\ pc = "rows"
  /\ rows' = IF pending = Empty THEN rows
             ELSE [s \in DOMAIN pending |-> [row |-> known[s], value |-> pending[s]]]
  /\ pc' = "truncate"
  /\ UNCHANGED <<backend, shards, bins, index, complete, runs, used, model, left, cur,
                 memory, unclean, view>>

\* The index of a memmap or parquet store is written in place.
Truncate ==
  /\ pc = "truncate"
  /\ index' = Torn /\ pc' = "index"
  /\ UNCHANGED <<backend, shards, bins, rows, complete, runs, used, model, left, cur,
                 memory, unclean, view>>

WriteIndex ==
  /\ pc = "index"
  /\ index' = known /\ pc' = "manifest"
  /\ UNCHANGED <<backend, shards, bins, rows, complete, runs, used, model, left, cur,
                 memory, unclean, view>>

\* _write_manifest() with the run's header, whatever header it replaces.
WriteManifest ==
  /\ pc = "manifest"
  /\ complete' = header /\ pc' = "none"
  /\ UNCHANGED <<backend, shards, bins, rows, index, runs, used, model, left, cur,
                 memory, unclean, view>>

\* The process dies, or a tensor of another shape makes put() raise.
Die ==
  /\ pc # "none"
  /\ pc' = "none" /\ cur' = None
  /\ unclean' = (unclean \/ (backend = "memmap" /\ index \in {None, Torn}
                               /\ bins[1] # <<>>))
  /\ UNCHANGED <<backend, disk, runs, used, model, left, memory, view>>
------------------------------------------------------------------------------
\* get() through an index: what a sample reads as, its tensors in order.
Read(i, s) ==
  CASE backend = "shards" -> {<<s, shards[i[s]][s]>>}
    [] backend = "memmap" -> {<<bins[t][i[s]].sample, bins[t][i[s]].value>> : t \in 1..Tensors}
    [] backend = "parquet" -> {<<x, rows[x].value>> : x \in {y \in DOMAIN rows : rows[y].row = i[s]}}

\* Mutant: the header is not compared.
AcceptsAny(asked) == complete # None /\ ~(backend = "parquet" /\ index = Torn)

\* open_artifact_store(): complete, and of the revision that is asked for; not
\* compared when nothing is asked for, or allow_stale, or the header names none.
Accepts(asked) ==
  /\ complete # None /\ ~(backend = "parquet" /\ index = Torn)
  /\ None \in {asked, complete.rev} \/ asked = complete.rev

\* A joined dataset opens its store, at first or again.  A reload that fails
\* has already forgotten what was open, and samples pass without the field.
OpenView(asked) ==
  /\ view' = IF Accepts(asked)
              THEN [index |-> OnDisk(index), rev |-> complete.rev, asked |-> asked]
              ELSE None
  /\ view' # view
  /\ UNCHANGED <<backend, disk, runs, used, model, pc, left, cur, memory, unclean>>

Next ==
  \/ \E r \in Revisions, byPath, named \in BOOLEAN : Open(r, byPath, named)
  \/ \E s \in Samples : \/ Skip(s) \/ PutRefused(s)
                        \/ PutShard(s) \/ PutRow(s) \/ PutParquet(s)
  \/ AppendRow \/ FlushShard \/ Reindex
  \/ Finalize \/ WriteRows \/ Truncate \/ WriteIndex \/ WriteManifest
  \/ Die
  \/ \E a \in Revisions \cup {None} : OpenView(a)

Spec == Init /\ [][Next]_vars
------------------------------------------------------------------------------
TypeOK ==
  /\ backend \in Backends /\ pc \in {"none", "run", "append", "flush", "reindex",
                                     "rows", "truncate", "index", "manifest"}
  /\ DOMAIN known \subseteq Samples /\ DOMAIN pending \subseteq Samples
  /\ left \subseteq Samples /\ used \subseteq Revisions /\ runs \in 0..MaxRuns
  /\ index \in {None, Torn} \/ DOMAIN index \subseteq Samples
  /\ complete = None \/ complete.rev \in Revisions \cup {None}
  /\ \A s \in DOMAIN OnDisk(index) : index[s] \in 1..(IF backend = "shards" THEN Len(shards)
                                                    ELSE Cardinality(Samples))

\* Whatever the index on disk names is where the index says, and is a value
\* one model computed for that very sample.  A memmap store keeps this as long
\* as no run died between its first row and its index: the next run counts
\* its rows from the first again, and appends them behind the old ones.  A
\* parquet store's index is read only once it is complete.
IndexPointsHome ==
  /\ TypeOK
  /\ ~unclean /\ (backend = "parquet" => complete # None) =>
       \A s \in DOMAIN OnDisk(index) : \E r \in Revisions : Read(index, s) = {<<s, r>>}

\* A dataset that asked for a revision, and was not refused, serves what that
\* revision computed, if the header it was let in by names a revision at all and
\* the runs over the directory used one model: default production names none and
\* is never refused (base.py:77, producer.py:177), and a resumed run keeps the old
\* samples under its own header.
AskedIsServed ==
  view # None /\ None \notin {view.asked, view.rev} /\ Cardinality(used) = 1 =>
    \A s \in DOMAIN view.index : \A v \in Read(view.index, s) : v[2] = view.asked

\* The directory, in whatever backend, keeps what a store promises, deaths and
\* later runs included: nothing it held is lost or replaced, and the mark of a
\* complete store is set when it has every sample.  Only a later run over a
\* memmap or parquet store, caught while it writes the index in place, leaves
\* the mark on a store that cannot be read.
Held == IF backend # "shards" /\ complete = None THEN Empty
        ELSE [s \in DOMAIN OnDisk(index) |-> Read(index, s)]
Promise == INSTANCE ArtifactPromise WITH
             Values <- SUBSET (Samples \X Revisions),
             durable <- backend = "shards", held <- Held, complete <- complete # None
ImplementsPromise == Promise!Spec
===============================================================================
