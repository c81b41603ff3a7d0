--------------------------- MODULE Artifacts_proofs ---------------------------
(***************************************************************************)
(* Artifacts on disk, for every dataset, shard size, number of tensors and *)
(* of runs: what the index of a store names is there, a dataset reads what *)
(* it asked for, and the directory keeps ArtifactPromise whatever dies and *)
(* whatever run comes later.  Then the dynamic producer, for every size of *)
(* its queue: no step it was given goes unaccounted.                       *)
(*                                                                         *)
(* The two components share no state and are not composed here.            *)
(***************************************************************************)
EXTENDS ArtifactStore, DynamicArtifact, FiniteSetTheorems, TLAPS

------------------------------------------------------------------------------
(* The stores: the inductive invariant                                     *)

\* A function from some of the samples.
Map(f, T) == DOMAIN f \subseteq Samples /\ f \in [DOMAIN f -> T]
Running == pc # "none"
Indexed == index \notin {None, Torn}

Types ==
  /\ backend \in Backends
  /\ pc \in {"none", "run", "append", "flush", "reindex", "rows", "truncate", "index", "manifest"}
  /\ used \subseteq Revisions /\ IsFiniteSet(used) /\ runs \in 0..MaxRuns /\ left \subseteq Samples

Loads == UNION {[S -> Revisions] : S \in SUBSET Samples}
Records == [sample : Samples, value : Revisions]

\* Every value on disk was computed by a model some run used.
Files ==
  /\ shards \in Seq(Loads) /\ bins \in [1..Tensors -> Seq(Records)]
  /\ \A n \in 1..Len(shards) : Map(shards[n], used)
  /\ \A t \in 1..Tensors : \A n \in 1..Len(bins[t]) :
       bins[t][n] \in [sample : Samples, value : used]
  /\ rows = None \/ Map(rows, [row : Nat, value : used])
  /\ index \in {None, Torn} \/ Map(index, Nat)
  /\ complete = None \/ complete \in [rev : used \cup {None}, fields : BOOLEAN]

Memory ==
  /\ Map(known, Nat) /\ Map(pending, used)
  /\ Running => model \in used
  /\ Running => header \in [rev : used \cup {None}, fields : BOOLEAN] /\ (finalized <=> complete # None)
  /\ pc = "append" => cur \in [sample : Samples, tensor : 1..Tensors]

\* What each place of the run has behind it.
Places ==
  /\ pc = "append" => backend = "memmap" /\ ~finalized /\ cur.sample \notin DOMAIN known
  /\ pc = "flush" => ~finalized /\ pending # Empty
  /\ pc = "reindex" => Len(shards) > 0 /\ shards[Len(shards)] = pending /\ ~finalized
  /\ pc \in {"flush", "reindex"} => backend = "shards"
  /\ pc = "rows" => backend = "parquet"
  /\ pc = "truncate" => backend # "shards"
  /\ pc = "manifest" => index = known
  /\ pc \in {"rows", "truncate", "index", "manifest"} => left = {} /\ DOMAIN known = Samples

\* A sample a run has passed is in its index or on the way there.
Progress ==
  Running => Samples \ left \subseteq DOMAIN known \cup DOMAIN pending
                        \cup (IF pc = "append" THEN {cur.sample} ELSE {})

\* The rows of an index are numbered from 1, each given once.
Numbered(i) ==
  /\ Range(i) = 1..Cardinality(DOMAIN i)
  /\ \A s, u \in DOMAIN i : i[s] = i[u] => s = u

\* The index of a shard store is never torn, and it is the one of the run.
Sharded == backend = "shards" =>
  /\ index # Torn
  /\ Running => /\ OnDisk(index) = known /\ DOMAIN known \cap DOMAIN pending = {}
                /\ finalized => pending = Empty
Numbers == backend # "shards" =>
  /\ Numbered(OnDisk(index)) /\ (Running => Numbered(known))
  /\ Indexed => DOMAIN index = Samples

\* The rows of rows.parquet are where the index says.
RowsMatch(i) == DOMAIN OnDisk(rows) = DOMAIN i /\ \A s \in DOMAIN i : rows[s].row = i[s]

\* A complete parquet store is only ever rewritten with what it holds.
Parquet == backend = "parquet" =>
  /\ Running => DOMAIN pending = DOMAIN known
  /\ complete # None /\ Indexed => RowsMatch(index)
  /\ Running /\ (complete # None \/ pc \in {"truncate", "index", "manifest"}) =>
        RowsMatch(known) /\ \A s \in DOMAIN known : pending[s] = rows[s].value
  /\ Running /\ complete # None => DOMAIN known = Samples
  /\ Running /\ complete # None /\ Indexed => known = index

\* The row a put() under way has already appended to the file of a tensor.
Extra(t) == IF pc = "append" /\ t < cur.tensor THEN 1 ELSE 0

\* The row an index gives a sample is its own, and of one model, in every file.
Home(i) == \A s \in DOMAIN i : \E r \in Revisions : \A t \in 1..Tensors :
             bins[t][i[s]] = [sample |-> s, value |-> r]

\* The files of a memmap store are never shorter than an index needs ...
Memmap == backend = "memmap" =>
  /\ Running => pending = Empty
  /\ Running => \A t \in 1..Tensors : Len(bins[t]) >= Cardinality(DOMAIN known) + Extra(t)
  /\ Running /\ Indexed => known = index
  /\ \A t \in 1..Tensors :
       /\ Len(bins[t]) >= Cardinality(DOMAIN OnDisk(index))
       /\ complete # None => Len(bins[t]) >= Cardinality(Samples)

\* ... and, as long as no run has died over them, not longer.
MemmapClean == backend = "memmap" /\ ~unclean =>
  /\ ~Running => \A t \in 1..Tensors : Len(bins[t]) = Cardinality(DOMAIN OnDisk(index))
  /\ Running => \A t \in 1..Tensors : Len(bins[t]) = Cardinality(DOMAIN known) + Extra(t)
  /\ Running /\ pc = "append" => \A t \in 1..Tensors : t < cur.tensor =>
        bins[t][Len(bins[t])] = [sample |-> cur.sample, value |-> model]
  /\ Home(OnDisk(index)) /\ (Running => Home(known))

\* A store with a manifest has an index, of every sample unless it is torn.
Sealed == complete # None => index # None /\ (Indexed => DOMAIN index = Samples)

\* get() through an index finds a file and a place in it.
Readable(i) ==
  \A s \in DOMAIN i :
    /\ backend = "shards" => i[s] \in 1..Len(shards) /\ s \in DOMAIN shards[i[s]]
    /\ backend = "memmap" => \A t \in 1..Tensors : i[s] \in 1..Len(bins[t])
    /\ backend = "parquet" => rows # None

\* What a dataset opened stays readable, also while later runs add to the files.
Views ==
  /\ view # None => /\ Map(view.index, Nat) /\ Readable(view.index)
                    /\ None \in {view.asked, view.rev} \/ view.asked \in used
  /\ (backend = "parquet" => complete # None) => Readable(OnDisk(index))

IInv ==
  /\ Types /\ Files /\ Memory /\ Places /\ Progress /\ Sealed /\ Views
  /\ Sharded /\ Numbers /\ Parquet /\ Memmap /\ MemmapClean

------------------------------------------------------------------------------
(* The stores: what the contents of a file are                             *)

\* The empty index is an index.
LEMMA EmptyContents ==
  /\ DOMAIN Empty = {} /\ \A T : Map(Empty, T)
  /\ \A f, T : Map(f, T) /\ DOMAIN f = {} => f = Empty
BY DEF Empty, Map

\* An index is neither of the marks.
LEMMA NoMark ==
  ASSUME NEW i, Map(i, Nat)
  PROVE  i \notin {None, Torn} /\ OnDisk(i) = i
<1>1. i \in [DOMAIN i -> Nat] /\ DOMAIN i \in SUBSET Samples
  BY DEF Map
<1> QED BY <1>1, StoreAssumption DEF StoreAssumption, OnDisk

\* Nor is a header.
LEMMA NoMarkHeader ==
  ASSUME Types, NEW h \in [rev : used \cup {None}, fields : BOOLEAN]
  PROVE  h # None /\ h.rev \in used \cup {None}
<1>1. h \in [rev : Revisions \cup {None}, fields : BOOLEAN]
  BY DEF Types
<1> QED BY <1>1, StoreAssumption DEF StoreAssumption

\* Reading a file, or finding none, gives an index or rows.
LEMMA Opened ==
  ASSUME Files
  PROVE  Map(OnDisk(index), Nat) /\ Map(OnDisk(rows), [row : Nat, value : used])
BY EmptyContents DEF Files, OnDisk

\* Where finalize() begins in each backend.
LEMMA FinalizeGoes ==
  ASSUME Types, Finalize
  PROVE  \/ backend = "shards" /\ pending # Empty /\ pc' = "flush"
         \/ backend = "shards" /\ pending = Empty /\ pc' = "index"
         \/ backend = "memmap" /\ pc' = "truncate"
         \/ backend = "parquet" /\ pc' = "rows"
<1>1. CASE backend = "shards"
  BY <1>1 DEF Finalize
<1>2. CASE backend = "memmap"
  BY <1>2 DEF Finalize
<1>3. CASE backend = "parquet"
  BY <1>3 DEF Finalize
<1> QED BY <1>1, <1>2, <1>3 DEF Types, Backends

\* Sets of samples are finite, and a sample more is one more.
LEMMA Counting ==
  \A S \in SUBSET Samples :
    /\ IsFiniteSet(S) /\ Cardinality(S) \in Nat /\ Cardinality(S) <= Cardinality(Samples)
    /\ \A s \in Samples \ S : Cardinality(S \cup {s}) = Cardinality(S) + 1
    /\ Cardinality(S) = 0 <=> S = {}
<1>1. IsFiniteSet(Samples)
  BY StoreAssumption DEF StoreAssumption
<1>2. TAKE S \in SUBSET Samples
<1>3. IsFiniteSet(S) /\ Cardinality(S) <= Cardinality(Samples)
  BY <1>1, FS_Subset
<1>4. Cardinality(S) \in Nat
  BY <1>3, FS_CardinalityType
<1>5. \A s \in Samples \ S : Cardinality(S \cup {s}) = Cardinality(S) + 1
  BY <1>3, FS_AddElement
<1>6. Cardinality(S) = 0 <=> S = {}
  BY <1>3, FS_EmptySet
<1> QED BY <1>3, <1>4, <1>5, <1>6

\* Rows are numbered from one without a gap, so the next is one more than they are.
LEMMA NextRowIsFree ==
  ASSUME Map(known, Nat), Numbered(known)
  PROVE  NextRow = Cardinality(DOMAIN known) + 1
<1> DEFINE n == Cardinality(DOMAIN known)
<1>1. n \in Nat /\ (n = 0 <=> DOMAIN known = {})
  BY Counting DEF Map
<1> HIDE DEF n
<1>2. CASE n = 0
  BY <1>1, <1>2, EmptyContents DEF NextRow, n
<1>3. CASE n # 0
  <2>1. Range(known) = 1..n /\ known # Empty
    BY <1>1, <1>3, EmptyContents DEF Numbered, n
  <2>2. n \in 1..n /\ \A y \in 1..n : n >= y
    BY <1>1, <1>3
  <2>3. Max(1..n) = n
    BY <1>1, <2>2 DEF Max
  <2> QED BY <2>1, <2>3 DEF NextRow, n
<1> QED BY <1>2, <1>3

\* One more row numbered so leaves them numbered.
LEMMA NumberedGrows ==
  ASSUME NEW i, Map(i, Nat), Numbered(i), NEW s \in Samples \ DOMAIN i, NEW j,
         j = [x \in DOMAIN i \cup {s} |->
                IF x = s THEN Cardinality(DOMAIN i) + 1 ELSE i[x]]
  PROVE  Map(j, Nat) /\ Numbered(j)
<1> DEFINE n == Cardinality(DOMAIN i)
<1>1. n \in Nat /\ Cardinality(DOMAIN j) = n + 1 /\ DOMAIN j = DOMAIN i \cup {s}
  BY Counting DEF Map
<1>2. \A x \in DOMAIN i : i[x] \in 1..n /\ i[x] \in Nat
  BY DEF Numbered, Range
<1>3. j[s] = n + 1 /\ \A x \in DOMAIN i : j[x] = i[x]
  OBVIOUS
<1> HIDE DEF n
<1>4. Map(j, Nat)
  BY <1>1, <1>2 DEF Map, n
<1>5. Range(j) = 1..n + 1
  <2>1. Range(i) = 1..n
    BY DEF Numbered, n
  <2>2. Range(j) = Range(i) \cup {n + 1}
    BY <1>1, <1>3 DEF Range
  <2>3. n \in Nat => (1..n) \cup {n + 1} = 1..n + 1
    OBVIOUS
  <2> QED BY <1>1, <2>1, <2>2, <2>3
<1>6. \A x, u \in DOMAIN j : j[x] = j[u] => x = u
  BY <1>1, <1>2, <1>3 DEF Numbered
<1> QED BY <1>1, <1>4, <1>5, <1>6 DEF Numbered

\* The two ways an append ends.
LEMMA AppendGoes ==
  ASSUME IInv, AppendRow
  PROVE  /\ backend = "memmap" /\ ~finalized /\ pc = "append"
         /\ cur.sample \in Samples \ DOMAIN known /\ cur.tensor \in 1..Tensors
         /\ header \in [rev : used \cup {None}, fields : BOOLEAN] /\ model \in used
         /\ bins' = [bins EXCEPT ![cur.tensor] =
                       Append(@, [sample |-> cur.sample, value |-> model])]
         /\ \/ /\ cur.tensor < Tensors
               /\ cur' \in [sample : Samples, tensor : 1..Tensors]
               /\ cur'.sample = cur.sample /\ cur'.tensor = cur.tensor + 1
               /\ UNCHANGED <<pc, known, header>>
            \/ /\ cur.tensor = Tensors
               /\ known' = [x \in DOMAIN known \cup {cur.sample} |->
                              IF x = cur.sample THEN Cardinality(DOMAIN known) + 1
                              ELSE known[x]]
               /\ Map(known', Nat) /\ Numbered(known')
               /\ pc' = "run" /\ header' = [header EXCEPT !.fields = TRUE]
<1>1. /\ pc = "append" /\ Running /\ backend = "memmap" /\ ~finalized
      /\ cur.sample \in Samples \ DOMAIN known /\ cur.tensor \in 1..Tensors
      /\ cur \in [sample : Samples, tensor : 1..Tensors]
      /\ header \in [rev : used \cup {None}, fields : BOOLEAN] /\ model \in used
  BY DEF AppendRow, IInv, Places, Memory, Running
<1>2. Map(known, Nat) /\ Numbered(known) /\ NextRow = Cardinality(DOMAIN known) + 1
  BY <1>1, NextRowIsFree DEF IInv, Memory, Numbers
<1>3. Tensors \in Nat \ {0}
  BY StoreAssumption DEF StoreAssumption
<1>4. CASE cur.tensor < Tensors
  BY <1>1, <1>3, <1>4 DEF AppendRow
<1>5. CASE ~(cur.tensor < Tensors)
  <2>1. /\ cur.tensor = Tensors
        /\ known' = [x \in DOMAIN known \cup {cur.sample} |->
                      IF x = cur.sample THEN Cardinality(DOMAIN known) + 1 ELSE known[x]]
    BY <1>1, <1>2, <1>3, <1>5 DEF AppendRow
  <2>2. Map(known', Nat) /\ Numbered(known')
    BY <1>1, <1>2, <2>1, NumberedGrows
  <2> QED BY <1>1, <1>5, <2>1, <2>2 DEF AppendRow, Described
<1> QED BY <1>4, <1>5

------------------------------------------------------------------------------
(* The stores: their steps                                                 *)

\* Each part of the invariant is preserved by every step that starts in all of it.
LEMMA TypesStep == IInv /\ [Next]_vars => Types'
<1> SUFFICES ASSUME IInv, [Next]_vars PROVE Types'
  OBVIOUS
<1> USE DEF disk, memory
<1>0. Types /\ MaxRuns \in Nat
  BY StoreAssumption DEF IInv, StoreAssumption
<1>1. ASSUME NEW r \in Revisions, NEW b \in BOOLEAN, NEW m \in BOOLEAN, Open(r, b, m) PROVE Types'
  <2>1. IsFiniteSet(used \cup {r})
    BY <1>0, FS_AddElement DEF Types
  <2> QED BY <1>0, <1>1, <2>1 DEF Open, Types
<1>2. ASSUME NEW s \in Samples,
             Skip(s) \/ PutRefused(s) \/ PutShard(s) \/ PutRow(s) \/ PutParquet(s)
      PROVE  Types'
  BY <1>0, <1>2 DEF Skip, PutRefused, PutShard, PutRow, PutParquet, Missing, Types
<1>3. CASE Finalize
  BY <1>0, <1>3, FinalizeGoes DEF Finalize, Types
<1>4. CASE AppendRow
  BY <1>0, <1>4, AppendGoes DEF AppendRow, Types
<1>5. CASE FlushShard \/ Reindex \/ WriteRows \/ Truncate \/ WriteIndex \/ WriteManifest \/ Die
  BY <1>0, <1>5 DEF FlushShard, Reindex, WriteRows, Truncate, WriteIndex, WriteManifest, Die, Types
<1>6. CASE (\E a \in Revisions \cup {None} : OpenView(a)) \/ UNCHANGED vars
  BY <1>0, <1>6 DEF OpenView, vars, Types
<1> QED BY <1>1, <1>2, <1>3, <1>4, <1>5, <1>6 DEF Next

\* What the run is doing fits the backend, and the work it has behind it.
LEMMA PlacesStep == IInv /\ [Next]_vars => Places'
<1> SUFFICES ASSUME IInv, [Next]_vars PROVE Places'
  OBVIOUS
<1> USE DEF disk, memory
<1>0. Types /\ Places /\ Memory /\ Progress
  BY DEF IInv
<1>1. CASE \E r \in Revisions, b, m \in BOOLEAN : Open(r, b, m)
  BY <1>1 DEF Open, Places
<1>2. ASSUME NEW s \in Samples, PutShard(s) PROVE Places'
  <2>1. s \in DOMAIN pending' /\ pending' # Empty
    BY <1>2, EmptyContents DEF PutShard
  <2> QED BY <1>2, <2>1 DEF PutShard, Missing, Places
<1>3. ASSUME NEW s \in Samples, Skip(s) \/ PutRefused(s) \/ PutRow(s) \/ PutParquet(s)
      PROVE  Places'
  BY <1>0, <1>3 DEF Skip, PutRefused, PutRow, PutParquet, Missing, Places
<1>4. CASE Finalize
  <2>1. Samples \subseteq DOMAIN known \cup DOMAIN pending /\ left' = {} /\ Running
    BY <1>0, <1>4 DEF Finalize, Progress, Running
  <2>2. DOMAIN known \subseteq Samples /\ DOMAIN pending \subseteq Samples
    BY <1>0 DEF Memory, Map
  <2>3. UNCHANGED <<backend, known, pending, finalized, left>>
    BY <1>4 DEF Finalize
  <2>4. CASE backend = "shards" /\ pending # Empty /\ pc' = "flush"
    BY <1>0, <2>1, <2>3, <2>4 DEF Places, IInv, Sharded
  <2>5. CASE backend = "shards" /\ pending = Empty /\ pc' = "index"
    BY <1>0, <2>1, <2>2, <2>3, <2>5, EmptyContents DEF Places
  <2>6. CASE backend = "memmap" /\ pc' = "truncate"
    BY <1>0, <2>1, <2>2, <2>3, <2>6, EmptyContents DEF Places, IInv, Memmap
  <2>7. CASE backend = "parquet" /\ pc' = "rows"
    BY <1>0, <2>1, <2>2, <2>3, <2>7 DEF Places, IInv, Parquet
  <2> QED BY <1>0, <1>4, <2>4, <2>5, <2>6, <2>7, FinalizeGoes
<1>5. CASE AppendRow
  <2>1. UNCHANGED <<backend, finalized>>
    BY <1>5 DEF AppendRow
  <2> QED BY <1>0, <1>5, <2>1, AppendGoes DEF Places
<1>6. CASE FlushShard
  <2>1. /\ Len(shards') > 0 /\ shards'[Len(shards')] = pending /\ pc' = "reindex"
        /\ UNCHANGED <<backend, finalized, pending>> /\ pc = "flush"
    BY <1>0, <1>6 DEF FlushShard, Files, IInv
  <2> QED BY <1>0, <2>1 DEF Places
<1>7. CASE Reindex \/ WriteManifest \/ Die
  BY <1>7 DEF Reindex, WriteManifest, Die, Places
<1>8. CASE WriteRows \/ Truncate \/ WriteIndex
  BY <1>0, <1>8 DEF WriteRows, Truncate, WriteIndex, Places
<1>9. CASE (\E a \in Revisions \cup {None} : OpenView(a)) \/ UNCHANGED vars
  BY <1>0, <1>9 DEF OpenView, vars, Places
<1> QED BY <1>1, <1>2, <1>3, <1>4, <1>5, <1>6, <1>7, <1>8, <1>9 DEF Next

\* No step lets a passed sample go.
LEMMA ProgressStep == IInv /\ [Next]_vars => Progress'
<1> SUFFICES ASSUME IInv, [Next]_vars PROVE Progress'
  OBVIOUS
<1> USE DEF disk, memory, Running
<1>0. Types /\ Places /\ Progress
  BY DEF IInv
<1>1. CASE \E r \in Revisions, b, m \in BOOLEAN : Open(r, b, m)
  BY <1>1 DEF Open, Progress
<1>2. ASSUME NEW s \in Samples,
             Skip(s) \/ PutRefused(s) \/ PutShard(s) \/ PutRow(s) \/ PutParquet(s)
      PROVE  Progress'
  BY <1>0, <1>2 DEF Skip, PutRefused, PutShard, PutRow, PutParquet, Missing, Progress
<1>3. CASE AppendRow
  <2>1. UNCHANGED <<left, pending>>
    BY <1>3 DEF AppendRow
  <2> QED BY <1>0, <1>3, <2>1, AppendGoes DEF Progress
<1>4. CASE FlushShard \/ Reindex \/ Finalize
  <2>1. pc' # "append"
    BY <1>0, <1>4, FinalizeGoes DEF FlushShard, Reindex
  <2> QED BY <1>0, <1>4, <2>1 DEF FlushShard, Reindex, Finalize, Progress
<1>5. CASE WriteRows \/ Truncate \/ WriteIndex \/ WriteManifest \/ Die
  BY <1>0, <1>5 DEF WriteRows, Truncate, WriteIndex, WriteManifest, Die, Progress
<1>6. CASE (\E a \in Revisions \cup {None} : OpenView(a)) \/ UNCHANGED vars
  BY <1>0, <1>6 DEF OpenView, vars, Progress
<1> QED BY <1>1, <1>2, <1>3, <1>4, <1>5, <1>6 DEF Next

\* The run's memory keeps its type.
LEMMA MemoryStep == IInv /\ [Next]_vars => Memory'
<1> SUFFICES ASSUME IInv, [Next]_vars PROVE Memory'
  OBVIOUS
<1> USE DEF disk, memory, Running
<1>0. Types /\ Places /\ Files /\ Memory
  BY DEF IInv
<1>1. ASSUME NEW r \in Revisions, NEW b \in BOOLEAN, NEW m \in BOOLEAN, Open(r, b, m) PROVE Memory'
  <2>1. Map(OnDisk(index), Nat) /\ Map(OnDisk(rows), [row : Nat, value : used])
    BY <1>0, Opened
  <2>2. Map(known', Nat)
    BY <1>1, <2>1, EmptyContents DEF Open
  <2>3. used' = used \cup {r} /\ pc' = "run" /\ complete' = complete
    BY <1>1 DEF Open
  <2>4. Map(pending', used')
    <3>1. CASE pending' = Empty
      BY <3>1, EmptyContents
    <3>2. CASE pending' = [s \in DOMAIN OnDisk(rows) |-> rows[s].value]
      <4>1. \A s \in DOMAIN OnDisk(rows) : rows[s].value \in used'
        BY <2>1, <2>3, EmptyContents DEF Map, OnDisk
      <4> QED BY <2>1, <3>2, <4>1 DEF Map
    <3> QED BY <1>1, <3>1, <3>2 DEF Open
  <2>5. header' \in [rev : used' \cup {None}, fields : BOOLEAN]
    <3>1. (b /\ complete # None /\ complete.fields) \in BOOLEAN
      OBVIOUS
    <3>2. complete # None => complete.rev \in used \cup {None}
      BY <1>0 DEF Files
    <3>3. (IF m THEN r ELSE IF b /\ complete # None THEN complete.rev ELSE None)
            \in used' \cup {None}
      BY <2>3, <3>2
    <3> QED BY <1>1, <3>1, <3>3 DEF Open
  <2>6. (finalized' <=> complete' # None) /\ model' \in used'
    BY <1>1, <2>3 DEF Open
  <2> QED BY <2>2, <2>3, <2>4, <2>5, <2>6 DEF Memory
<1>2. ASSUME NEW s \in Samples, PutShard(s) \/ PutParquet(s) PROVE Memory'
  <2>1. pc = "run" /\ UNCHANGED <<used, model, complete, finalized>> /\ pc' # "append" /\ pc' # "none"
    BY <1>2 DEF PutShard, PutParquet, Missing
  <2>2. header \in [rev : used \cup {None}, fields : BOOLEAN] /\ header' = [header EXCEPT !.fields = TRUE]
    BY <1>0, <1>2, <2>1 DEF PutShard, PutParquet, Described, Memory
  <2>3. header' \in [rev : used \cup {None}, fields : BOOLEAN] /\ model \in used
    BY <1>0, <2>1, <2>2 DEF Memory
  <2>4. Map(pending', used)
    BY <1>0, <1>2, <2>3 DEF PutShard, PutParquet, Memory, Map
  <2>5. Map(known', Nat)
    <3>1. Cardinality(DOMAIN pending) \in Nat
      BY <1>0, Counting DEF Memory, Map
    <3> QED BY <1>0, <1>2, <3>1 DEF PutShard, PutParquet, Memory, Map
  <2> QED BY <1>0, <2>1, <2>3, <2>4, <2>5 DEF Memory
<1>3. ASSUME NEW s \in Samples, Skip(s) \/ PutRefused(s) \/ PutRow(s) PROVE Memory'
  <2>1. 1 \in 1..Tensors
    BY StoreAssumption DEF StoreAssumption
  <2> QED BY <1>0, <1>3, <2>1 DEF Skip, PutRefused, PutRow, Missing, Memory
<1>4. CASE AppendRow
  <2>1. UNCHANGED <<used, model, complete, pending, finalized>> /\ pc = "append" /\ pc' # "none"
    BY <1>0, <1>4, AppendGoes DEF AppendRow
  <2>2. header' \in [rev : used \cup {None}, fields : BOOLEAN]
    <3>1. header \in [rev : used \cup {None}, fields : BOOLEAN]
          /\ (header' = header \/ header' = [header EXCEPT !.fields = TRUE])
      BY <1>4, AppendGoes
    <3> QED BY <3>1
  <2>3. Map(known', Nat) /\ (pc' = "append" => cur' \in [sample : Samples, tensor : 1..Tensors])
    BY <1>0, <1>4, AppendGoes DEF Memory
  <2> QED BY <1>0, <2>1, <2>2, <2>3 DEF Memory
<1>5. CASE Reindex
  <2>1. Len(shards) \in Nat /\ pc = "reindex"
    BY <1>5 DEF Reindex, IInv, Files
  <2>2. Map(known', Nat) /\ Map(pending', used)
    BY <1>0, <1>5, <2>1, EmptyContents DEF Reindex, Memory, Map
  <2> QED BY <1>0, <1>5, <2>1, <2>2 DEF Reindex, Memory
<1>6. CASE Finalize
  <2>1. pc' # "append" /\ pc' # "none"
    BY <1>0, <1>6, FinalizeGoes
  <2> QED BY <1>0, <1>6, <2>1 DEF Finalize, Memory
<1>7. CASE FlushShard \/ WriteRows \/ Truncate \/ WriteIndex \/ WriteManifest \/ Die
  BY <1>0, <1>7 DEF FlushShard, WriteRows, Truncate, WriteIndex, WriteManifest, Die, Memory
<1>8. CASE (\E a \in Revisions \cup {None} : OpenView(a)) \/ UNCHANGED vars
  BY <1>0, <1>8 DEF OpenView, vars, Memory
<1> QED BY <1>1, <1>2, <1>3, <1>4, <1>5, <1>6, <1>7, <1>8 DEF Next

\* What is written to a file is a value the run computed.
LEMMA FilesStep == IInv /\ [Next]_vars => Files'
<1> SUFFICES ASSUME IInv, [Next]_vars PROVE Files'
  OBVIOUS
<1> USE DEF disk, memory, Running
<1>0. Types /\ Places /\ Files /\ Memory
  BY DEF IInv
<1>1. ASSUME NEW r \in Revisions, NEW b \in BOOLEAN, NEW m \in BOOLEAN, Open(r, b, m) PROVE Files'
  <2>1. used' = used \cup {r} /\ UNCHANGED disk
    BY <1>1 DEF Open
  <2>2. \A f, T, U : Map(f, T) /\ T \subseteq U => Map(f, U)
    BY DEF Map
  <2>3. /\ [row : Nat, value : used] \subseteq [row : Nat, value : used']
        /\ [sample : Samples, value : used] \subseteq [sample : Samples, value : used']
    BY <2>1
  <2>4. \A n \in 1..Len(shards) : Map(shards[n], used')
    BY <1>0, <2>1, <2>2 DEF Files
  <2>5. rows = None \/ Map(rows, [row : Nat, value : used'])
    <3>1. rows = None \/ Map(rows, [row : Nat, value : used])
      BY <1>0 DEF Files
    <3> QED BY <2>2, <2>3, <3>1
  <2>6. complete = None \/ complete \in [rev : used' \cup {None}, fields : BOOLEAN]
    <3>1. used \cup {None} \subseteq used' \cup {None}
      BY <2>1
    <3>2. ASSUME complete \in [rev : used \cup {None}, fields : BOOLEAN]
          PROVE  complete \in [rev : used' \cup {None}, fields : BOOLEAN]
      BY <3>1, <3>2
    <3> QED BY <1>0, <3>2 DEF Files
  <2>7. \A t \in 1..Tensors : \A n \in 1..Len(bins[t]) :
          bins[t][n] \in [sample : Samples, value : used']
    BY <1>0, <2>3 DEF Files
  <2> QED BY <1>0, <2>1, <2>4, <2>5, <2>6, <2>7 DEF Files
<1>2. CASE FlushShard
  <2>1. UNCHANGED <<bins, rows, index, complete, used>> /\ shards' = Append(shards, pending)
    BY <1>2 DEF FlushShard
  <2>2. pending \in Loads /\ Map(pending, used)
    BY <1>0 DEF Memory, Types, Loads, Map
  <2>3. shards \in Seq(Loads)
    BY <1>0 DEF Files
  <2>4. /\ shards' \in Seq(Loads) /\ Len(shards') = Len(shards) + 1 /\ Len(shards) \in Nat
        /\ shards'[Len(shards) + 1] = pending
        /\ \A n \in 1..Len(shards) : shards'[n] = shards[n]
    BY <2>1, <2>2, <2>3
  <2>5. \A n \in 1..Len(shards') : Map(shards'[n], used)
    BY <1>0, <2>2, <2>4 DEF Files
  <2> QED BY <1>0, <2>1, <2>4, <2>5 DEF Files
<1>3. CASE AppendRow
  <2> DEFINE e == [sample |-> cur.sample, value |-> model]
             t == cur.tensor
  <2>1. UNCHANGED <<shards, rows, index, complete, used>>
    BY <1>3 DEF AppendRow
  <2>2. /\ t \in 1..Tensors /\ bins' = [bins EXCEPT ![t] = Append(@, e)]
        /\ e \in [sample : Samples, value : used] /\ e \in Records
    BY <1>0, <1>3, AppendGoes DEF Types, Records
  <2> HIDE DEF e, t
  <2>3. bins \in [1..Tensors -> Seq(Records)]
    BY <1>0 DEF Files
  <2>4. bins' \in [1..Tensors -> Seq(Records)]
    BY <2>2, <2>3
  <2>5. ASSUME NEW u \in 1..Tensors, NEW n \in 1..Len(bins'[u])
        PROVE  bins'[u][n] \in [sample : Samples, value : used]
    <3>1. bins[u] \in Seq(Records) /\ (u # t => bins'[u] = bins[u])
          /\ (u = t => bins'[u] = Append(bins[u], e))
      BY <2>2, <2>3
    <3>2. CASE u # t
      BY <1>0, <3>1, <3>2, <2>5 DEF Files
    <3>3. CASE u = t
      <4>1. (n \in 1..Len(bins[u]) /\ bins'[u][n] = bins[u][n]) \/ bins'[u][n] = e
        BY <3>1, <3>3, <2>5
      <4> QED BY <1>0, <2>2, <4>1 DEF Files
    <3> QED BY <3>2, <3>3
  <2> QED BY <1>0, <2>1, <2>4, <2>5 DEF Files
<1>4. CASE WriteRows
  <2>1. UNCHANGED <<shards, bins, index, complete, used>>
    BY <1>4 DEF WriteRows
  <2>2. rows' = rows \/ Map(rows', [row : Nat, value : used])
    <3>1. DOMAIN pending \subseteq Samples /\ DOMAIN known = Samples
      BY <1>0, <1>4 DEF WriteRows, Places, Memory, Map
    <3>2. \A s \in DOMAIN pending : known[s] \in Nat /\ pending[s] \in used
      BY <1>0, <3>1 DEF Memory, Map
    <3> QED BY <1>4, <3>1, <3>2 DEF WriteRows, Map
  <2> QED BY <1>0, <2>1, <2>2 DEF Files
<1>5. CASE Reindex
  <2>1. UNCHANGED <<shards, bins, rows, complete, used>>
    BY <1>5 DEF Reindex
  <2>2. Map(index', Nat)
    <3>1. Len(shards) \in Nat
      BY <1>0 DEF Files
    <3> QED BY <1>0, <1>5, <3>1 DEF Reindex, Memory, Map
  <2> QED BY <1>0, <2>1, <2>2 DEF Files
<1>6. CASE Truncate \/ WriteIndex \/ WriteManifest
  BY <1>0, <1>6 DEF Truncate, WriteIndex, WriteManifest, Files, Memory
<1>7. ASSUME NEW s \in Samples,
             Skip(s) \/ PutRefused(s) \/ PutShard(s) \/ PutRow(s) \/ PutParquet(s)
      PROVE  UNCHANGED <<disk, used>>
  BY <1>7 DEF Skip, PutRefused, PutShard, PutRow, PutParquet
<1>8. CASE Finalize \/ Die \/ (\E a \in Revisions \cup {None} : OpenView(a)) \/ UNCHANGED vars
  BY <1>0, <1>8 DEF Finalize, Die, OpenView, vars, Files
<1> QED
  <2>1. CASE UNCHANGED <<disk, used>>
    BY <1>0, <2>1 DEF Files
  <2> QED BY <1>1, <1>2, <1>3, <1>4, <1>5, <1>6, <1>7, <1>8, <2>1 DEF Next

\* The index a shard store writes is the run's own.
LEMMA ShardedStep == IInv /\ [Next]_vars => Sharded'
<1> SUFFICES ASSUME IInv, [Next]_vars, backend' = "shards" PROVE Sharded'
  BY DEF Sharded
<1> USE DEF disk, memory, Running
<1>0. Types /\ Places /\ Memory /\ Sharded
  BY DEF IInv
<1>b. backend' = backend
  BY DEF Next, vars, Open, Skip, PutRefused, PutShard, PutRow, PutParquet, AppendRow, FlushShard,
         Reindex, Finalize, WriteRows, Truncate, WriteIndex, WriteManifest, Die, OpenView
<1>1. CASE \E r \in Revisions, b, m \in BOOLEAN : Open(r, b, m)
  BY <1>0, <1>1, <1>b, EmptyContents DEF Open, Sharded
<1>2. ASSUME NEW s \in Samples,
             Skip(s) \/ PutRefused(s) \/ PutShard(s) \/ PutRow(s) \/ PutParquet(s)
      PROVE  Sharded'
  BY <1>0, <1>2, <1>b DEF Skip, PutRefused, PutShard, PutRow, PutParquet, Missing, Sharded
<1>3. CASE Reindex
  <2>1. index' = known' /\ pending' = Empty
    BY <1>3 DEF Reindex
  <2>2. OnDisk(index') = known' /\ index' # Torn
    BY <2>1, MemoryStep, NoMark DEF Memory
  <2> QED BY <2>1, <2>2, EmptyContents DEF Sharded
<1>4. CASE WriteIndex
  <2>1. index' = known' /\ OnDisk(known) = known /\ known \notin {None, Torn}
    BY <1>0, <1>4, NoMark DEF WriteIndex, Memory
  <2> QED BY <1>0, <1>4, <1>b, <2>1 DEF WriteIndex, Sharded
<1>5. CASE AppendRow \/ WriteRows \/ Truncate
  BY <1>0, <1>5, <1>b DEF AppendRow, WriteRows, Truncate, Places
<1>6. CASE FlushShard \/ Finalize \/ WriteManifest \/ Die
  BY <1>0, <1>6, <1>b DEF FlushShard, Finalize, WriteManifest, Die, Sharded
<1>7. CASE (\E a \in Revisions \cup {None} : OpenView(a)) \/ UNCHANGED vars
  BY <1>0, <1>7, <1>b DEF OpenView, vars, Sharded
<1> QED BY <1>1, <1>2, <1>3, <1>4, <1>5, <1>6, <1>7 DEF Next

\* The manifest comes after the index.
LEMMA SealedStep == IInv /\ [Next]_vars => Sealed'
<1> SUFFICES ASSUME IInv, [Next]_vars PROVE Sealed'
  OBVIOUS
<1> USE DEF disk, memory, Running, Indexed
<1>0. Types /\ Places /\ Memory /\ Sealed
  BY DEF IInv
<1>1. known \notin {None, Torn}
  BY <1>0, NoMark DEF Memory
<1>2. CASE Reindex
  <2>1. complete' = None
    BY <1>0, <1>2 DEF Reindex, Places, Memory
  <2> QED BY <2>1 DEF Sealed
<1>3. CASE Truncate \/ WriteIndex \/ WriteManifest
  BY <1>0, <1>1, <1>3, StoreAssumption
     DEF Truncate, WriteIndex, WriteManifest, Places, Sealed, StoreAssumption
<1>4. ASSUME NEW s \in Samples,
             Skip(s) \/ PutRefused(s) \/ PutShard(s) \/ PutRow(s) \/ PutParquet(s)
      PROVE  UNCHANGED disk
  BY <1>4 DEF Skip, PutRefused, PutShard, PutRow, PutParquet
<1>5. CASE UNCHANGED <<index, complete>>
  BY <1>0, <1>5 DEF Sealed
<1> QED
  BY <1>2, <1>3, <1>4, <1>5
     DEF Next, vars, Open, AppendRow, FlushShard, Finalize, WriteRows, Die, OpenView

\* The backend is the directory's for good.
LEMMA SameBackend == [Next]_vars => backend' = backend
BY DEF Next, vars, Open, Skip, PutRefused, PutShard, PutRow, PutParquet, AppendRow, FlushShard,
       Reindex, Finalize, WriteRows, Truncate, WriteIndex, WriteManifest, Die, OpenView

\* The empty index is numbered.
LEMMA EmptyNumbered == Numbered(Empty)
<1>1. Range(Empty) = {} /\ Cardinality(DOMAIN Empty) = 0
  BY EmptyContents, FS_EmptySet DEF Range
<1> QED BY <1>1, EmptyContents DEF Numbered

\* Put by put, rows are numbered without a gap.
LEMMA NumbersStep == IInv /\ [Next]_vars => Numbers'
<1> SUFFICES ASSUME IInv, [Next]_vars, backend # "shards" PROVE Numbers'
  BY SameBackend DEF Numbers
<1> USE DEF disk, memory, Running, Indexed
<1>0. Types /\ Places /\ Memory /\ Numbers /\ Numbered(OnDisk(index))
  BY DEF IInv, Numbers
<1>1. CASE \E r \in Revisions, b, m \in BOOLEAN : Open(r, b, m)
  BY <1>0, <1>1, EmptyNumbered DEF Open, Numbers
<1>2. ASSUME NEW s \in Samples, PutParquet(s) PROVE Numbers'
  <2>1. /\ s \in Samples \ DOMAIN known /\ pc' # "none" /\ UNCHANGED index
        /\ known' = [x \in DOMAIN known \cup {s} |->
                      IF x = s THEN Cardinality(DOMAIN pending) + 1 ELSE known[x]]
        /\ DOMAIN pending = DOMAIN known /\ Map(known, Nat) /\ Numbered(known)
    BY <1>0, <1>2 DEF PutParquet, Missing, IInv, Parquet, Memory, Numbers
  <2>2. Numbered(known')
    BY <2>1, NumberedGrows
  <2> QED BY <1>0, <2>1, <2>2 DEF Numbers
<1>3. ASSUME NEW s \in Samples, Skip(s) \/ PutRefused(s) \/ PutShard(s) \/ PutRow(s)
      PROVE  Numbers'
  BY <1>0, <1>3 DEF Skip, PutRefused, PutShard, PutRow, Missing, Numbers
<1>4. CASE AppendRow
  <2>1. Numbered(known') /\ index' = index
    BY <1>0, <1>4, AppendGoes DEF AppendRow, Numbers
  <2> QED BY <1>0, <2>1 DEF Numbers
<1>5. CASE Truncate
  <2>1. OnDisk(index') = Empty /\ known' = known /\ Numbered(known) /\ index' = Torn
    BY <1>0, <1>5 DEF Truncate, OnDisk, Numbers
  <2> QED BY <2>1, EmptyNumbered DEF Numbers
<1>6. CASE WriteIndex
  <2>1. /\ index' = known /\ known' = known /\ OnDisk(known) = known
        /\ Numbered(known) /\ DOMAIN known = Samples
    BY <1>0, <1>6, NoMark DEF WriteIndex, Memory, Places, Numbers
  <2> QED BY <2>1 DEF Numbers
<1>7. CASE FlushShard \/ Reindex \/ Finalize \/ WriteRows \/ WriteManifest \/ Die
  BY <1>0, <1>7
     DEF FlushShard, Reindex, Finalize, WriteRows, WriteManifest, Die, Places, Numbers
<1>8. CASE (\E a \in Revisions \cup {None} : OpenView(a)) \/ UNCHANGED vars
  BY <1>0, <1>8 DEF OpenView, vars, Numbers
<1> QED BY <1>1, <1>2, <1>3, <1>4, <1>5, <1>6, <1>7, <1>8 DEF Next

\* What finalize() writes to rows.parquet is what the index says.
LEMMA ParquetStep == IInv /\ [Next]_vars => Parquet'
<1> SUFFICES ASSUME IInv, [Next]_vars, backend = "parquet" PROVE Parquet'
  BY SameBackend DEF Parquet
<1> USE DEF disk, memory, Running, Indexed
<1>0. Types /\ Places /\ Memory /\ Sealed /\ Parquet
  BY DEF IInv
<1>1. ASSUME NEW r \in Revisions, NEW b \in BOOLEAN, NEW m \in BOOLEAN, Open(r, b, m) PROVE Parquet'
  <2>1. CASE complete = None
    <3>1. complete' = None /\ pc' = "run" /\ known' = Empty /\ pending' = Empty
      BY <1>1, <2>1 DEF Open
    <3> QED BY <3>1, EmptyContents DEF Parquet
  <2>2. CASE complete # None
    <3>1. /\ index \notin {None, Torn} /\ known' = index /\ DOMAIN index = Samples
          /\ pending' = [s \in DOMAIN OnDisk(rows) |-> rows[s].value]
          /\ RowsMatch(index) /\ UNCHANGED <<rows, index, complete>>
      BY <1>0, <1>1, <2>2 DEF Open, OnDisk, Parquet, Sealed
    <3> QED BY <3>1 DEF Parquet, RowsMatch
  <2> QED BY <2>1, <2>2
<1>2. ASSUME NEW s \in Samples, PutParquet(s) PROVE Parquet'
  <2>1. /\ complete = None /\ UNCHANGED <<rows, index, complete, pc>> /\ pc = "run"
        /\ DOMAIN pending' = DOMAIN known'
    BY <1>0, <1>2 DEF PutParquet, Missing, Memory, Parquet
  <2> QED BY <2>1 DEF Parquet
<1>3. ASSUME NEW s \in Samples, Skip(s) \/ PutRefused(s) \/ PutShard(s) \/ PutRow(s)
      PROVE  Parquet'
  BY <1>0, <1>3 DEF Skip, PutRefused, PutShard, PutRow, Missing, Parquet, RowsMatch
<1>4. CASE WriteRows
  <2>1. /\ pc = "rows" /\ pc' = "truncate" /\ DOMAIN known = Samples
        /\ DOMAIN pending = DOMAIN known
        /\ UNCHANGED <<index, complete, known, pending>>
    BY <1>0, <1>4 DEF WriteRows, Places, Parquet
  <2>2. Map(rows', [row : Nat, value : used])
        => rows' \notin {None, Torn}
    <3>1. \A S \in SUBSET Samples :
             [S -> [row : Nat, value : used]] \subseteq [S -> [row : Nat, value : Revisions]]
      <4>1. [row : Nat, value : used] \subseteq [row : Nat, value : Revisions]
        BY <1>0 DEF Types
      <4> QED BY <4>1
    <3> QED BY <3>1, StoreAssumption DEF Map, StoreAssumption
  <2>3. RowsMatch(known)' /\ \A s \in DOMAIN known : pending[s] = rows'[s].value
    <3>1. CASE pending = Empty
      <4>1. DOMAIN known = {} /\ rows' = rows
        BY <1>4, <2>1, <3>1, EmptyContents DEF WriteRows
      <4>2. Map(OnDisk(rows), [row : Nat, value : used])
        BY Opened DEF IInv
      <4>3. DOMAIN OnDisk(rows) = {}
        BY <2>1, <4>1, <4>2 DEF Map
      <4> QED BY <2>1, <4>1, <4>3 DEF RowsMatch
    <3>2. CASE pending # Empty
      <4>1. rows' = [s \in DOMAIN pending |-> [row |-> known[s], value |-> pending[s]]]
        BY <1>4, <3>2 DEF WriteRows
      <4>2. Map(rows', [row : Nat, value : used])
        BY <1>0, <2>1, <4>1 DEF Memory, Map
      <4>3. OnDisk(rows') = rows'
        BY <2>2, <4>2 DEF OnDisk
      <4> QED BY <2>1, <4>1, <4>3 DEF RowsMatch
    <3> QED BY <3>1, <3>2
  <2>4. complete # None /\ index \notin {None, Torn} => RowsMatch(index)'
    BY <1>0, <2>1, <2>3 DEF Parquet, RowsMatch
  <2> QED BY <1>0, <2>1, <2>3, <2>4 DEF Parquet
<1>5. CASE AppendRow \/ FlushShard \/ Reindex
  BY <1>0, <1>5 DEF AppendRow, FlushShard, Reindex, Places
<1>6. CASE Finalize
  <2>1. pc' = "rows" /\ pc = "run" /\ UNCHANGED <<rows, index, complete, known, pending>>
    BY <1>0, <1>6, FinalizeGoes DEF Finalize
  <2> QED BY <1>0, <2>1 DEF Parquet, RowsMatch
<1>7. CASE Truncate \/ WriteIndex
  <2>1. /\ pc \in {"truncate", "index"} /\ pc' \in {"index", "manifest"}
        /\ UNCHANGED <<rows, complete, known, pending>> /\ index' \in {Torn, known}
    BY <1>7 DEF Truncate, WriteIndex
  <2> QED BY <1>0, <2>1 DEF Parquet, RowsMatch, Places
<1>8. CASE WriteManifest \/ Die
  BY <1>0, <1>8 DEF WriteManifest, Die, Parquet, RowsMatch, Places
<1>9. CASE (\E a \in Revisions \cup {None} : OpenView(a)) \/ UNCHANGED vars
  BY <1>0, <1>9 DEF OpenView, vars, Parquet, RowsMatch
<1> QED BY <1>1, <1>2, <1>3, <1>4, <1>5, <1>6, <1>7, <1>8, <1>9 DEF Next

\* An append adds one record to one file, and does not happen over an index.
LEMMA Appended ==
  ASSUME IInv, AppendRow
  PROVE  /\ \A t \in 1..Tensors :
              /\ Len(bins[t]) \in Nat
              /\ Len(bins'[t]) = IF t = cur.tensor THEN Len(bins[t]) + 1 ELSE Len(bins[t])
              /\ \A n \in 1..Len(bins[t]) : bins'[t][n] = bins[t][n]
         /\ bins'[cur.tensor][Len(bins[cur.tensor]) + 1] =
              [sample |-> cur.sample, value |-> model]
         /\ ~Indexed /\ UNCHANGED <<backend, index, unclean, pending, complete, rows, shards>>
         /\ Cardinality(DOMAIN known) \in Nat
         /\ Cardinality(DOMAIN known \cup {cur.sample}) = Cardinality(DOMAIN known) + 1
<1> DEFINE e == [sample |-> cur.sample, value |-> model]
<1>1. /\ bins \in [1..Tensors -> Seq(Records)] /\ e \in Records /\ cur.tensor \in 1..Tensors
      /\ bins' = [bins EXCEPT ![cur.tensor] = Append(@, e)]
  BY AppendGoes DEF IInv, Files, Types, Records
<1> HIDE DEF e
<1>2. ASSUME NEW t \in 1..Tensors
      PROVE  /\ Len(bins[t]) \in Nat
             /\ Len(bins'[t]) = IF t = cur.tensor THEN Len(bins[t]) + 1 ELSE Len(bins[t])
             /\ \A n \in 1..Len(bins[t]) : bins'[t][n] = bins[t][n]
  <2>1. bins[t] \in Seq(Records) /\ (t # cur.tensor => bins'[t] = bins[t])
        /\ (t = cur.tensor => bins'[t] = Append(bins[t], e))
    BY <1>1
  <2> QED BY <1>1, <2>1
<1>3. bins'[cur.tensor][Len(bins[cur.tensor]) + 1] = e
  <2>1. bins[cur.tensor] \in Seq(Records) /\ bins'[cur.tensor] = Append(bins[cur.tensor], e)
    BY <1>1
  <2> QED BY <1>1, <2>1
<1>4. cur.sample \in Samples \ DOMAIN known /\ DOMAIN known \in SUBSET Samples
  BY AppendGoes DEF IInv, Memory, Map
<1>5. ~Indexed
  BY <1>4, AppendGoes DEF IInv, Memmap, Numbers, Running
<1>6. /\ Cardinality(DOMAIN known) \in Nat
      /\ Cardinality(DOMAIN known \cup {cur.sample}) = Cardinality(DOMAIN known) + 1
  BY <1>4, Counting
<1> QED BY <1>2, <1>3, <1>5, <1>6 DEF AppendRow, e

\* An append goes to the end of a file, so no row is lost.
LEMMA MemmapStep == IInv /\ [Next]_vars => Memmap'
<1> SUFFICES ASSUME IInv, [Next]_vars, backend = "memmap" PROVE Memmap'
  BY SameBackend DEF Memmap
<1> USE DEF disk, memory, Running, Indexed
<1>0. Types /\ Places /\ Memory /\ Memmap
  BY DEF IInv
<1>1. \A t \in 1..Tensors : Len(bins[t]) \in Nat /\ Len(bins[t]) + 0 = Len(bins[t])
  <2>1. bins \in [1..Tensors -> Seq(Records)]
    BY DEF IInv, Files
  <2> QED BY <2>1
<1>2. \A S \in SUBSET Samples : Cardinality(S) \in Nat /\ Cardinality(S) + 0 = Cardinality(S)
  BY Counting
<1>3. DOMAIN known \in SUBSET Samples /\ DOMAIN OnDisk(index) \in SUBSET Samples
  BY <1>0, Opened DEF IInv, Memory, Map
<1>4. CASE \E r \in Revisions, b, m \in BOOLEAN : Open(r, b, m)
  <2>1. /\ known' = OnDisk(index) /\ pending' = Empty /\ pc' = "run" /\ pc = "none"
        /\ UNCHANGED <<bins, index, complete>>
    BY <1>4 DEF Open
  <2> QED BY <1>0, <1>2, <1>3, <2>1 DEF Memmap, Extra, OnDisk
<1>5. ASSUME NEW s \in Samples,
             Skip(s) \/ PutRefused(s) \/ PutShard(s) \/ PutRow(s) \/ PutParquet(s)
      PROVE  Memmap'
  <2>1. /\ pc = "run" /\ UNCHANGED <<bins, index, complete, known, pending>>
        /\ \A t \in 1..Tensors : Extra(t) = 0 /\ Extra(t)' = 0
    BY <1>5 DEF Skip, PutRefused, PutShard, PutRow, PutParquet, Missing, Extra
  <2> QED BY <1>0, <2>1 DEF Memmap
<1>6. CASE AppendRow
  <2>1. \A t \in 1..Tensors : Len(bins'[t]) >= Cardinality(DOMAIN known') + Extra(t)'
    <3>1. pc = "append" /\ cur.tensor \in 1..Tensors /\ Tensors \in Nat
      BY <1>6, AppendGoes, StoreAssumption DEF StoreAssumption
    <3>2. TAKE t \in 1..Tensors
    <3>3. Len(bins[t]) >= Cardinality(DOMAIN known) + (IF t < cur.tensor THEN 1 ELSE 0)
      BY <1>0, <3>1 DEF Memmap, Extra
    <3>4. /\ Len(bins[t]) \in Nat /\ Cardinality(DOMAIN known) \in Nat
          /\ Len(bins'[t]) = IF t = cur.tensor THEN Len(bins[t]) + 1 ELSE Len(bins[t])
      BY <1>6, Appended
    <3>5. CASE cur.tensor < Tensors /\ pc' = pc /\ known' = known /\ cur'.tensor = cur.tensor + 1
      <4>1. Extra(t)' = IF t < cur.tensor + 1 THEN 1 ELSE 0
        BY <3>1, <3>5 DEF Extra
      <4> QED BY <3>1, <3>3, <3>4, <3>5, <4>1
    <3>6. CASE cur.tensor = Tensors /\ pc' = "run"
               /\ DOMAIN known' = DOMAIN known \cup {cur.sample}
      <4>1. Extra(t)' = 0 /\ Cardinality(DOMAIN known') = Cardinality(DOMAIN known) + 1
        BY <1>6, <3>6, Appended DEF Extra
      <4> QED BY <3>1, <3>3, <3>4, <3>6, <4>1
    <3> QED BY <1>6, <3>5, <3>6, AppendGoes
  <2>2. /\ \A t \in 1..Tensors : Len(bins'[t]) >= Len(bins[t])
        /\ ~Indexed /\ index' = index /\ pending' = pending /\ pc = "append"
    BY <1>1, <1>6, Appended, AppendGoes
  <2>3. complete' = None /\ \A t \in 1..Tensors : Len(bins'[t]) >= Cardinality(DOMAIN OnDisk(index))
    <3>1. \A t \in 1..Tensors : Len(bins'[t]) \in Nat
      BY <1>1, <1>6, Appended
    <3>2. complete' = None
      BY <1>0, <1>6, Appended, AppendGoes DEF Memory
    <3> QED BY <1>0, <1>1, <1>2, <1>3, <2>2, <3>1, <3>2 DEF Memmap
  <2> QED BY <1>0, <2>1, <2>2, <2>3 DEF Memmap
<1>7. CASE FlushShard \/ Reindex \/ WriteRows
  BY <1>0, <1>7 DEF FlushShard, Reindex, WriteRows, Places
<1>8. CASE Finalize \/ WriteManifest \/ Die
  <2>1. /\ UNCHANGED <<bins, index, known, pending>> /\ pc # "none"
        /\ \A t \in 1..Tensors : Extra(t)' = 0
    BY <1>0, <1>8, FinalizeGoes DEF Finalize, WriteManifest, Die, Extra
  <2>2. pc' # "none" => \A t \in 1..Tensors : Extra(t) = 0
    BY <1>8 DEF Finalize, WriteManifest, Die, Extra
  <2>3. complete' = complete \/ \A t \in 1..Tensors : Len(bins[t]) >= Cardinality(Samples)
    <3>1. CASE WriteManifest
      <4>1. DOMAIN known = Samples /\ \A t \in 1..Tensors : Extra(t) = 0
        BY <1>0, <3>1 DEF WriteManifest, Places, Extra
      <4> QED BY <1>0, <1>2, <2>1, <4>1 DEF Memmap
    <3> QED BY <1>8, <3>1 DEF Finalize, Die
  <2> QED BY <1>0, <2>1, <2>2, <2>3 DEF Memmap
<1>9. CASE Truncate \/ WriteIndex
  <2>1. /\ UNCHANGED <<bins, known, pending>> /\ pc \in {"truncate", "index"}
        /\ pc' \in {"index", "manifest"} /\ index' \in {Torn, known}
        /\ \A t \in 1..Tensors : Extra(t) = 0 /\ Extra(t)' = 0
    BY <1>9 DEF Truncate, WriteIndex, Extra
  <2>2. OnDisk(known) = known /\ OnDisk(Torn) = Empty /\ Cardinality(DOMAIN Empty) = 0
    BY <1>0, NoMark, EmptyContents, FS_EmptySet DEF Memory, OnDisk
  <2>3. complete' = complete
    BY <1>9 DEF Truncate, WriteIndex
  <2>4. CASE index' = Torn
    BY <1>0, <1>1, <2>1, <2>2, <2>3, <2>4 DEF Memmap
  <2>5. CASE index' = known
    <3>1. \A t \in 1..Tensors : Len(bins[t]) >= Cardinality(DOMAIN known)
      BY <1>0, <1>2, <1>3, <2>1 DEF Memmap
    <3> QED BY <1>0, <2>1, <2>2, <2>3, <2>5, <3>1 DEF Memmap
  <2> QED BY <2>1, <2>4, <2>5
<1>10. CASE (\E a \in Revisions \cup {None} : OpenView(a)) \/ UNCHANGED vars
  BY <1>0, <1>10 DEF OpenView, vars, Memmap, Extra
<1> QED BY <1>4, <1>5, <1>6, <1>7, <1>8, <1>9, <1>10 DEF Next

\* The row an append writes is the next one of the index, in every file.
LEMMA MemmapCleanStep == IInv /\ [Next]_vars => MemmapClean'
<1> SUFFICES ASSUME IInv, [Next]_vars, backend = "memmap", ~unclean' PROVE MemmapClean'
  BY SameBackend DEF MemmapClean
<1> USE DEF disk, memory, Running, Indexed
<1>u. ~unclean /\ (Die => ~(index \in {None, Torn} /\ bins[1] # <<>>))
  <2>1. CASE Die
    <3>1. backend = "memmap" /\ ~unclean'
      BY SameBackend
    <3> QED BY Zenon, <2>1, <3>1 DEF Die
  <2>2. CASE ~Die
    <3>1. unclean' = unclean
      BY <2>2 DEF Next, vars, Open, Skip, PutRefused, PutShard, PutRow, PutParquet, AppendRow,
                  FlushShard, Reindex, Finalize, WriteRows, Truncate, WriteIndex, WriteManifest,
                  OpenView
    <3> QED BY <2>2, <3>1
  <2> QED BY <2>1, <2>2
<1>0. Types /\ Places /\ Memory /\ Memmap /\ MemmapClean
  BY DEF IInv
<1>1. \A t \in 1..Tensors : Len(bins[t]) \in Nat /\ Len(bins[t]) + 0 = Len(bins[t])
  <2>1. bins \in [1..Tensors -> Seq(Records)]
    BY DEF IInv, Files
  <2> QED BY <2>1
<1>2. \A S \in SUBSET Samples : Cardinality(S) \in Nat /\ Cardinality(S) + 0 = Cardinality(S)
  BY Counting
<1>3. DOMAIN known \in SUBSET Samples /\ DOMAIN OnDisk(index) \in SUBSET Samples
  BY <1>0, Opened DEF IInv, Memory, Map
<1>4. CASE \E r \in Revisions, b, m \in BOOLEAN : Open(r, b, m)
  <2>1. /\ known' = OnDisk(index) /\ pc' = "run" /\ pc = "none" /\ UNCHANGED <<bins, index>>
    BY <1>4 DEF Open
  <2>2. \A t \in 1..Tensors : Len(bins[t]) = Cardinality(DOMAIN known') + Extra(t)'
    BY <1>0, <1>1, <1>u, <2>1 DEF MemmapClean, Extra
  <2>3. Home(OnDisk(index))' /\ Home(known)'
    <3>1. Home(OnDisk(index))
      BY <1>0, <1>u DEF MemmapClean
    <3> QED BY <2>1, <3>1 DEF Home
  <2> QED BY <2>1, <2>2, <2>3 DEF MemmapClean
<1>5. ASSUME NEW s \in Samples,
             Skip(s) \/ PutRefused(s) \/ PutShard(s) \/ PutRow(s) \/ PutParquet(s)
      PROVE  MemmapClean'
  <2>1. /\ pc = "run" /\ UNCHANGED <<bins, index, known>>
        /\ \A t \in 1..Tensors :
             Extra(t) = 0 /\ Extra(t)' = 0 /\ (pc' = "append" => ~(t < cur'.tensor))
    BY <1>5 DEF Skip, PutRefused, PutShard, PutRow, PutParquet, Missing, Extra
  <2>2. pc' # "none"
    <3>1. CASE PutRefused(s)
      <4>1. s \in Samples \ DOMAIN known /\ complete # None
        BY <1>0, <3>1 DEF PutRefused, Missing, Memory
      <4>2. 1 \in 1..Tensors
        BY StoreAssumption DEF StoreAssumption
      <4>3. Len(bins[1]) >= Cardinality(Samples) /\ Len(bins[1]) = Cardinality(DOMAIN known)
        BY <1>0, <1>2, <1>3, <1>u, <2>1, <4>1, <4>2 DEF Memmap, MemmapClean
      <4>4. /\ DOMAIN known \cup {s} \in SUBSET Samples
            /\ Cardinality(DOMAIN known \cup {s}) = Cardinality(DOMAIN known) + 1
        BY <1>3, <4>1, Counting
      <4>5. Cardinality(DOMAIN known) + 1 <= Cardinality(Samples) /\ Cardinality(Samples) \in Nat
        BY <4>4, Counting
      <4> QED BY <1>2, <1>3, <4>3, <4>5
    <3> QED BY <1>5, <3>1 DEF Skip, PutShard, PutRow, PutParquet, Missing
  <2>3. Home(OnDisk(index))' /\ Home(known)'
    <3>1. Home(OnDisk(index)) /\ Home(known)
      BY <1>0, <1>u, <2>1 DEF MemmapClean
    <3> QED BY <2>1, <3>1 DEF Home
  <2>4. \A t \in 1..Tensors : Len(bins[t]) = Cardinality(DOMAIN known) + 0
    BY <1>0, <1>u, <2>1 DEF MemmapClean
  <2> QED BY <2>1, <2>2, <2>3, <2>4 DEF MemmapClean
<1>6. CASE AppendRow
  <2>1. pc = "append" /\ cur.tensor \in 1..Tensors /\ Tensors \in Nat \ {0}
    BY <1>6, AppendGoes, StoreAssumption DEF StoreAssumption
  <2>2. ~Indexed /\ index' = index /\ OnDisk(index) = Empty
    BY <1>6, Appended DEF OnDisk
  <2>3. ASSUME NEW t \in 1..Tensors
        PROVE  /\ Len(bins[t]) \in Nat /\ Cardinality(DOMAIN known) \in Nat
               /\ Len(bins'[t]) = IF t = cur.tensor THEN Len(bins[t]) + 1 ELSE Len(bins[t])
               /\ Len(bins[t]) = Cardinality(DOMAIN known) + (IF t < cur.tensor THEN 1 ELSE 0)
               /\ \A n \in 1..Len(bins[t]) : bins'[t][n] = bins[t][n]
    BY <1>0, <1>6, <1>u, <2>1, Appended DEF MemmapClean, Extra
  <2> DEFINE e == [sample |-> cur.sample, value |-> model]
  <2>4. \A t \in 1..Tensors : t <= cur.tensor => bins'[t][Cardinality(DOMAIN known) + 1] = e
    <3>1. TAKE t \in 1..Tensors
    <3>2. CASE t < cur.tensor
      <4>1. bins[t][Len(bins[t])] = e
        BY <1>0, <1>u, <2>1, <3>2 DEF MemmapClean
      <4>2. Len(bins[t]) = Cardinality(DOMAIN known) + 1 /\ Len(bins[t]) \in 1..Len(bins[t])
        BY <2>3, <3>2
      <4> QED BY <2>3, <4>1, <4>2
    <3>3. CASE t = cur.tensor
      <4>1. Len(bins[t]) = Cardinality(DOMAIN known)
        BY <2>1, <2>3, <3>3
      <4> QED BY <1>6, <3>3, <4>1, Appended
    <3> QED BY <2>1, <3>2, <3>3
  <2>5. ASSUME NEW s \in DOMAIN known
        PROVE  \E r \in Revisions : \A t \in 1..Tensors :
                  bins'[t][known[s]] = [sample |-> s, value |-> r]
    <3>1. known[s] \in 1..Cardinality(DOMAIN known)
      BY <1>0, <2>1 DEF IInv, Numbers, Numbered, Range
    <3>2. PICK r \in Revisions : \A t \in 1..Tensors :
                  bins[t][known[s]] = [sample |-> s, value |-> r]
      BY <1>0, <1>u, <2>1 DEF MemmapClean, Home
    <3>3. \A t \in 1..Tensors : known[s] \in 1..Len(bins[t])
      BY <2>1, <2>3, <3>1
    <3> QED BY <2>3, <3>2, <3>3
  <2>m. model' = model
    BY <1>6 DEF AppendRow
  <2>6. CASE /\ cur.tensor < Tensors /\ UNCHANGED <<pc, known, header>>
             /\ cur'.tensor = cur.tensor + 1 /\ cur'.sample = cur.sample
    <3>1. Home(known)' /\ Home(OnDisk(index))'
      BY <2>2, <2>5, <2>6, EmptyContents DEF Home
    <3>2. ASSUME NEW t \in 1..Tensors
          PROVE  /\ Len(bins'[t]) = Cardinality(DOMAIN known') + Extra(t)'
                 /\ t < cur'.tensor => bins'[t][Len(bins'[t])] =
                                          [sample |-> cur'.sample, value |-> model']
      <4>1. t < cur'.tensor <=> t <= cur.tensor
        BY <2>1, <2>6
      <4>2. Extra(t)' = IF t <= cur.tensor THEN 1 ELSE 0
        BY <2>1, <2>6, <4>1 DEF Extra
      <4>3. Len(bins'[t]) = Cardinality(DOMAIN known) + (IF t <= cur.tensor THEN 1 ELSE 0)
        BY <2>1, <2>3
      <4> QED BY <2>3, <2>4, <2>6, <2>m, <4>1, <4>2, <4>3
    <3> QED BY <2>1, <2>6, <3>1, <3>2 DEF MemmapClean
  <2>7. CASE /\ cur.tensor = Tensors /\ pc' = "run"
             /\ known' = [x \in DOMAIN known \cup {cur.sample} |->
                            IF x = cur.sample THEN Cardinality(DOMAIN known) + 1 ELSE known[x]]
    <3>1. cur.sample \notin DOMAIN known /\ model \in Revisions
      BY <1>0, <1>6, AppendGoes DEF Types
    <3>2. Home(known)'
      <4>1. ASSUME NEW s \in DOMAIN known'
            PROVE  \E r \in Revisions : \A t \in 1..Tensors :
                      bins'[t][known'[s]] = [sample |-> s, value |-> r]
        <5>1. CASE s \in DOMAIN known
          BY <2>5, <2>7, <3>1, <5>1
        <5>2. CASE s = cur.sample
          BY <2>1, <2>4, <2>7, <3>1, <5>2
        <5> QED BY <2>7, <5>1, <5>2
      <4> QED BY <4>1 DEF Home
    <3>3. \A t \in 1..Tensors : Len(bins'[t]) = Cardinality(DOMAIN known') + Extra(t)'
      <4>1. Cardinality(DOMAIN known') = Cardinality(DOMAIN known) + 1
        BY <1>6, <2>7, Appended
      <4>2. TAKE t \in 1..Tensors
      <4>3. Extra(t)' = 0
        BY <2>7 DEF Extra
      <4>4. Len(bins'[t]) = Cardinality(DOMAIN known) + 1
        BY <2>1, <2>3, <2>7
      <4> QED BY <2>3, <4>1, <4>3, <4>4
    <3>4. Home(OnDisk(index))'
      BY <2>2, EmptyContents DEF Home
    <3> QED BY <2>7, <3>2, <3>3, <3>4 DEF MemmapClean
  <2> QED BY <1>6, <2>6, <2>7, AppendGoes
<1>7. CASE FlushShard \/ Reindex \/ WriteRows
  BY <1>0, <1>7 DEF FlushShard, Reindex, WriteRows, Places
<1>8. CASE Finalize \/ WriteManifest
  <2>1. /\ UNCHANGED <<bins, index, known>> /\ pc # "none" /\ pc' # "append"
        /\ \A t \in 1..Tensors : Extra(t)' = 0 /\ Extra(t) = 0
    BY <1>0, <1>8, FinalizeGoes DEF Finalize, WriteManifest, Extra
  <2>2. pc' = "none" => OnDisk(index) = known
    BY <1>0, <1>8, NoMark, FinalizeGoes DEF WriteManifest, Places, Memory
  <2> QED BY <1>0, <1>2, <1>3, <1>u, <2>1, <2>2 DEF MemmapClean, Home
<1>9. CASE Truncate \/ WriteIndex
  <2>1. /\ UNCHANGED <<bins, known>> /\ pc \in {"truncate", "index"}
        /\ pc' \in {"index", "manifest"} /\ OnDisk(index') \in {Empty, known}
        /\ \A t \in 1..Tensors : Extra(t) = 0 /\ Extra(t)' = 0
    BY <1>0, <1>9, NoMark DEF Truncate, WriteIndex, Extra, OnDisk, Memory
  <2> QED BY <1>0, <1>u, <2>1, EmptyContents DEF MemmapClean, Home
<1>10. CASE Die
  <2>1. pc # "none" /\ pc' = "none" /\ UNCHANGED <<bins, index, known>>
    BY <1>10 DEF Die
  <2>2. \A t \in 1..Tensors : Len(bins[t]) = Cardinality(DOMAIN known) + Extra(t)
    BY <1>0, <1>u, <2>1 DEF MemmapClean
  <2>3. \A t \in 1..Tensors : Len(bins[t]) = Cardinality(DOMAIN OnDisk(index))
    <3>1. CASE Indexed
      <4>1. known = index /\ OnDisk(index) = index /\ pc # "append"
        BY <1>0, <2>1, <3>1 DEF Memmap, OnDisk, Places, Memory, IInv, Numbers
      <4> QED BY <1>2, <1>3, <2>2, <4>1 DEF Extra
    <3>2. CASE ~Indexed
      <4>1. 1 \in 1..Tensors /\ bins[1] = <<>> /\ Tensors \in Nat
        BY <1>10, <1>u, <3>2, StoreAssumption DEF StoreAssumption
      <4>2. Cardinality(DOMAIN known) \in Nat /\ Extra(1) \in {0, 1}
        BY <1>2, <1>3 DEF Extra
      <4>3. Cardinality(DOMAIN known) = 0 /\ Extra(1) = 0
        BY <2>2, <4>1, <4>2
      <4>4. \A t \in 1..Tensors : Extra(t) = 0
        BY <1>0, <4>1, <4>3 DEF Extra, Memory
      <4>5. OnDisk(index) = Empty /\ Cardinality(DOMAIN Empty) = 0
        BY <3>2, EmptyContents, FS_EmptySet DEF OnDisk
      <4> QED BY <2>2, <4>3, <4>4, <4>5
    <3> QED BY <3>1, <3>2
  <2>4. Home(OnDisk(index))'
    BY <1>0, <1>u, <2>1 DEF MemmapClean, Home
  <2> QED BY <2>1, <2>3, <2>4 DEF MemmapClean
<1>11. CASE (\E a \in Revisions \cup {None} : OpenView(a)) \/ UNCHANGED vars
  <2>1. UNCHANGED <<bins, index, known, pc, cur, model>>
    BY <1>11 DEF OpenView, vars
  <2>2. \A t \in 1..Tensors : Extra(t)' = Extra(t)
    BY <2>1 DEF Extra
  <2>3. OnDisk(index)' = OnDisk(index)
    BY <2>1 DEF OnDisk
  <2>4. Home(OnDisk(index))' /\ (Running' => Home(known)')
    <3>1. Home(OnDisk(index)) /\ (Running => Home(known))
      BY <1>0, <1>u DEF MemmapClean
    <3> QED BY <2>1, <2>3, <3>1 DEF Home
  <2> QED BY <1>0, <1>u, <2>1, <2>2, <2>3, <2>4 DEF MemmapClean
<1> QED BY <1>4, <1>5, <1>6, <1>7, <1>8, <1>9, <1>10, <1>11 DEF Next

\* What is in a file stays where it is.
LEMMA FilesGrow ==
  ASSUME IInv, [Next]_vars
  PROVE  /\ Len(shards) \in Nat /\ Len(shards') \in Nat /\ Len(shards') >= Len(shards)
         /\ \A n \in 1..Len(shards) : shards'[n] = shards[n]
         /\ \A t \in 1..Tensors :
              /\ Len(bins[t]) \in Nat /\ Len(bins'[t]) \in Nat /\ Len(bins'[t]) >= Len(bins[t])
              /\ \A n \in 1..Len(bins[t]) : bins'[t][n] = bins[t][n]
         /\ rows # None => rows' # None
<1> USE DEF disk, memory
<1>0. /\ shards \in Seq(Loads) /\ bins \in [1..Tensors -> Seq(Records)]
      /\ shards' \in Seq(Loads) /\ bins' \in [1..Tensors -> Seq(Records)]
  BY FilesStep DEF IInv, Files
<1>1. /\ Len(shards) \in Nat /\ Len(shards') \in Nat
      /\ \A t \in 1..Tensors : Len(bins[t]) \in Nat /\ Len(bins'[t]) \in Nat
  BY <1>0
<1>2. CASE UNCHANGED <<shards, bins, rows>>
  BY <1>1, <1>2
<1>3. CASE FlushShard
  <2>1. pending \in Loads
    BY DEF IInv, Memory, Types, Loads, Map
  <2>2. shards' = Append(shards, pending) /\ UNCHANGED <<bins, rows>>
    BY <1>3 DEF FlushShard
  <2> QED BY <1>0, <1>1, <2>1, <2>2
<1>4. CASE AppendRow
  BY <1>1, <1>4, Appended
<1>5. CASE WriteRows
  <2>1. UNCHANGED <<shards, bins>> /\ (rows # None => rows' # None)
    <3>1. CASE pending = Empty
      BY <1>5, <3>1 DEF WriteRows
    <3>2. CASE pending # Empty
      <4>1. /\ rows' = [s \in DOMAIN pending |-> [row |-> known[s], value |-> pending[s]]]
            /\ DOMAIN pending \in SUBSET Samples
            /\ \A s \in DOMAIN pending : known[s] \in Nat /\ pending[s] \in Revisions
        BY <1>5, <3>2 DEF WriteRows, IInv, Memory, Map, Types, Places
      <4>2. rows' \in [DOMAIN pending -> [row : Nat, value : Revisions]]
        BY <4>1
      <4> QED BY <1>5, <4>1, <4>2, StoreAssumption DEF StoreAssumption, WriteRows
    <3> QED BY <3>1, <3>2
  <2> QED BY <1>1, <2>1
<1> QED
  BY <1>2, <1>3, <1>4, <1>5
     DEF Next, vars, Open, Skip, PutRefused, PutShard, PutRow, PutParquet, Reindex, Finalize,
         Truncate, WriteIndex, WriteManifest, Die, OpenView

\* An index the run knows can be read, once the rows are there.
LEMMA KnownIsReadable ==
  ASSUME IInv, pc \in {"index", "manifest"} PROVE Readable(known)
<1>0. Running /\ Types /\ Memory
  BY DEF IInv, Running
<1>1. CASE backend = "shards"
  <2>1. known = OnDisk(index) /\ Readable(OnDisk(index))
    BY <1>0, <1>1 DEF IInv, Sharded, Views
  <2> QED BY <2>1
<1>2. CASE backend = "memmap"
  <2>1. ASSUME NEW s \in DOMAIN known, NEW t \in 1..Tensors PROVE known[s] \in 1..Len(bins[t])
    <3>1. known[s] \in 1..Cardinality(DOMAIN known)
      BY <1>0, <1>2 DEF IInv, Numbers, Numbered, Range
    <3>2. Len(bins[t]) >= Cardinality(DOMAIN known) + Extra(t) /\ Extra(t) = 0
      BY <1>0, <1>2 DEF IInv, Memmap, Extra
    <3>3. Cardinality(DOMAIN known) \in Nat /\ Len(bins[t]) \in Nat
      <4>1. bins[t] \in Seq(Records)
        BY DEF IInv, Files
      <4> QED BY <1>0, <4>1, Counting DEF Memory, Map
    <3> QED BY <3>1, <3>2, <3>3
  <2> QED BY <1>2, <2>1 DEF Readable
<1>3. CASE backend = "parquet"
  <2>1. DOMAIN OnDisk(rows) = DOMAIN known
    BY <1>0, <1>3 DEF IInv, Parquet, RowsMatch
  <2>2. DOMAIN known # {} => rows # None
    BY <2>1, EmptyContents DEF OnDisk
  <2> QED BY <1>3, <2>2 DEF Readable
<1> QED BY <1>0, <1>1, <1>2, <1>3 DEF Types, Backends

\* Files only grow, so what could be read still can.
LEMMA ViewsStep == IInv /\ [Next]_vars => Views'
<1> SUFFICES ASSUME IInv, [Next]_vars PROVE Views'
  OBVIOUS
<1> USE DEF disk, memory
<1>0. Types /\ Places /\ Memory /\ Files /\ Views
  BY DEF IInv
<1>1. ASSUME NEW i, Map(i, Nat), Readable(i), NEW s \in DOMAIN i
      PROVE  /\ backend' = "shards" => i[s] \in 1..Len(shards') /\ s \in DOMAIN shards'[i[s]]
             /\ backend' = "memmap" => \A t \in 1..Tensors : i[s] \in 1..Len(bins'[t])
             /\ backend' = "parquet" => rows' # None
  <2>1. i[s] \in Nat
    BY <1>1 DEF Map
  <2> QED BY <1>1, <2>1, FilesGrow, SameBackend DEF Readable
<1>2. Map(OnDisk(index), Nat)
  BY <1>0, Opened
<1>3. used \subseteq used'
  BY DEF Next, vars, Open, Skip, PutRefused, PutShard, PutRow, PutParquet, AppendRow, FlushShard,
         Reindex, Finalize, WriteRows, Truncate, WriteIndex, WriteManifest, Die, OpenView
<1>4. view' = view =>
        (view' # None => /\ Map(view'.index, Nat) /\ Readable(view.index)'
                         /\ None \in {view'.asked, view'.rev} \/ view'.asked \in used')
  BY <1>0, <1>1, <1>3 DEF Views, Readable
<1>5. OnDisk(index') \in {OnDisk(index), Empty} /\ complete' = complete
        => ((backend' = "parquet" => complete' # None) => Readable(OnDisk(index))')
  BY <1>0, <1>1, <1>2, EmptyContents, SameBackend DEF Views, Readable
<1>6. ASSUME NEW a \in Revisions \cup {None}, OpenView(a) PROVE Views'
  <2>1. UNCHANGED <<backend, shards, bins, rows, index, complete, used>>
    BY <1>6 DEF OpenView
  <2>2. CASE Accepts(a)
    <3>1. view' = [index |-> OnDisk(index), rev |-> complete.rev, asked |-> a]
      BY <1>6, <2>2 DEF OpenView
    <3>2. complete # None /\ (None \in {a, complete.rev} \/ a \in used)
      BY <1>0, <2>2 DEF Accepts, Files
    <3>3. Readable(OnDisk(index))
      BY <1>0, <3>2 DEF Views
    <3> QED BY <1>2, <2>1, <3>1, <3>2, <3>3 DEF Views, Readable
  <2>3. CASE ~Accepts(a)
    BY <1>0, <1>6, <2>1, <2>3 DEF OpenView, Views, Readable
  <2> QED BY <2>2, <2>3
<1>7. CASE Reindex
  <2>1. /\ index' = known' /\ view' = view /\ complete' = complete
        /\ UNCHANGED <<shards, bins, rows>>
        /\ backend = "shards" /\ pc = "reindex"
        /\ known' = [s \in DOMAIN known \cup DOMAIN pending |->
                 IF s \in DOMAIN pending THEN Len(shards) ELSE known[s]]
    BY <1>0, <1>7 DEF Reindex, Places
  <2>2. OnDisk(index') = known'
    BY <2>1, MemoryStep, NoMark DEF Memory
  <2>3. /\ Len(shards) > 0 /\ Len(shards) \in Nat /\ shards[Len(shards)] = pending
        /\ Readable(known)
    BY <1>0, <2>1 DEF IInv, Places, Files, Sharded, Views, Running
  <2>4. ASSUME NEW s \in DOMAIN known'
        PROVE  known'[s] \in 1..Len(shards) /\ s \in DOMAIN shards[known'[s]]
    <3>1. CASE s \in DOMAIN pending
      BY <2>1, <2>3, <3>1
    <3>2. CASE s \notin DOMAIN pending
      BY <2>1, <2>3, <3>2 DEF Readable
    <3> QED BY <3>1, <3>2
  <2>5. Readable(OnDisk(index))'
    BY <2>1, <2>2, <2>4, SameBackend DEF Readable
  <2> QED BY <1>4, <2>1, <2>5 DEF Views
<1>8. CASE WriteIndex \/ WriteManifest
  <2>1. /\ pc \in {"index", "manifest"} /\ index' = known
        /\ UNCHANGED <<backend, shards, bins, rows, view>>
    BY <1>0, <1>8 DEF WriteIndex, WriteManifest, Places
  <2>2. Readable(known) /\ OnDisk(index') = known
    BY <1>0, <2>1, KnownIsReadable, NoMark DEF Memory
  <2> QED BY <1>4, <2>1, <2>2 DEF Views, Readable
<1>9. CASE Truncate
  BY <1>4, <1>5, <1>9 DEF Truncate, Views, OnDisk
<1>10. CASE UNCHANGED <<index, complete, view>>
  BY <1>4, <1>5, <1>10 DEF Views
<1> QED
  BY <1>6, <1>7, <1>8, <1>9, <1>10
     DEF Next, vars, Open, Skip, PutRefused, PutShard, PutRow, PutParquet, AppendRow, FlushShard,
         Finalize, WriteRows, Die

\* An empty directory satisfies the invariant.
LEMMA InitStore == Init => IInv
<1> SUFFICES ASSUME Init PROVE IInv
  OBVIOUS
<1>1. /\ OnDisk(index) = Empty /\ ~Running /\ index = None /\ complete = None /\ view = None
      /\ rows = None /\ backend \in Backends /\ None # Torn /\ ~Indexed
  BY StoreAssumption DEF Init, OnDisk, Running, Indexed, StoreAssumption
<1>2. Types
  BY StoreAssumption, FS_EmptySet DEF Init, Types, StoreAssumption
<1>3. Files
  BY <1>1 DEF Init, Files
<1>4. Memory /\ Places /\ Progress
  BY <1>1, EmptyContents DEF Init, Memory, Places, Progress, Running
<1>5. Sharded /\ Numbers /\ Parquet /\ Sealed
  BY <1>1, EmptyNumbered DEF Sharded, Numbers, Parquet, Sealed
<1>6. Memmap /\ MemmapClean /\ Views
  <2>1. \A t \in 1..Tensors : bins[t] = <<>> /\ Len(bins[t]) = 0
    BY DEF Init
  <2>2. Cardinality(DOMAIN Empty) = 0
    BY EmptyContents, FS_EmptySet
  <2> QED BY <1>1, <2>1, <2>2, EmptyContents DEF Memmap, MemmapClean, Views, Home, Readable
<1> QED BY <1>2, <1>3, <1>4, <1>5, <1>6 DEF IInv

\* The invariant holds in every state.
LEMMA StoreInvariant == Spec => []IInv
BY InitStore, TypesStep, PlacesStep, ProgressStep, MemoryStep, FilesStep, ShardedStep, SealedStep,
   NumbersStep, ParquetStep, MemmapStep, MemmapCleanStep, ViewsStep, PTL DEF Spec, IInv

------------------------------------------------------------------------------
(* The stores: what follows from the invariant                             *)

\* What a sample reads as, backend by backend.
LEMMA Reads ==
  ASSUME IInv, NEW s \in DOMAIN OnDisk(index), backend = "parquet" => complete # None
  PROVE  /\ backend = "shards" =>
              /\ index[s] \in 1..Len(shards) /\ s \in DOMAIN shards[index[s]]
              /\ shards[index[s]][s] \in used /\ Read(index, s) = {<<s, shards[index[s]][s]>>}
         /\ backend = "memmap" =>
              /\ \A t \in 1..Tensors : /\ index[s] \in 1..Len(bins[t])
                                       /\ bins[t][index[s]] \in [sample : Samples, value : used]
              /\ Read(index, s) =
                   {<<bins[t][index[s]].sample, bins[t][index[s]].value>> : t \in 1..Tensors}
         /\ backend = "parquet" =>
              s \in DOMAIN rows /\ rows[s].value \in used /\ Read(index, s) = {<<s, rows[s].value>>}
<1>0. /\ index \notin {None, Torn} /\ OnDisk(index) = index /\ Readable(index)
      /\ s \in DOMAIN index /\ s \in Samples
  BY EmptyContents, Opened DEF OnDisk, IInv, Views, Map
<1>1. CASE backend = "shards"
  <2>1. index[s] \in 1..Len(shards) /\ s \in DOMAIN shards[index[s]]
    BY <1>0, <1>1 DEF Readable
  <2>2. shards[index[s]][s] \in used
    BY <2>1 DEF IInv, Files, Map
  <2> QED BY <1>1, <2>1, <2>2 DEF Read
<1>2. CASE backend = "memmap"
  <2>1. \A t \in 1..Tensors : index[s] \in 1..Len(bins[t])
    BY <1>0, <1>2 DEF Readable
  <2> QED BY <1>2, <2>1 DEF Read, IInv, Files
<1>3. CASE backend = "parquet"
  <2>1. /\ RowsMatch(index) /\ Numbered(index)
    BY <1>0, <1>3 DEF IInv, Parquet, Indexed, Numbers
  <2>2. DOMAIN rows = DOMAIN index /\ rows # None /\ OnDisk(rows) = rows
    <3>1. rows \notin {None, Torn}
      BY <1>0, <2>1, EmptyContents DEF RowsMatch, OnDisk
    <3> QED BY <2>1, <3>1 DEF RowsMatch, OnDisk
  <2>3. rows[s].value \in used
    BY <1>0, <2>2 DEF IInv, Files, Map
  <2>4. {y \in DOMAIN rows : rows[y].row = index[s]} = {s}
    BY <1>0, <2>1, <2>2 DEF RowsMatch, Numbered
  <2>5. Read(index, s) = {<<s, rows[s].value>>}
    BY <1>3, <2>4 DEF Read
  <2> QED BY <1>0, <1>3, <2>2, <2>3, <2>5
<1> QED BY <1>1, <1>2, <1>3 DEF IInv, Types, Backends

\* The type invariant follows.
LEMMA StoreTyped == IInv => TypeOK
<1> SUFFICES ASSUME IInv PROVE TypeOK
  OBVIOUS
<1>1. /\ Map(OnDisk(index), Nat) /\ (complete # None => complete.rev \in Revisions \cup {None})
      /\ Types /\ Files /\ Memory /\ Map(known, Nat) /\ Map(pending, used)
  BY Opened DEF IInv, Files, Types, Memory
<1>2. index \in {None, Torn} \/ DOMAIN index \subseteq Samples
  BY <1>1 DEF OnDisk, Map
<1>3. ASSUME NEW s \in DOMAIN OnDisk(index)
      PROVE  index[s] \in 1..(IF backend = "shards" THEN Len(shards) ELSE Cardinality(Samples))
  <2>1. index \notin {None, Torn} /\ OnDisk(index) = index
    BY EmptyContents DEF OnDisk
  <2>2. CASE backend = "shards"
    BY <2>1, <2>2 DEF IInv, Views, Readable
  <2>3. CASE backend # "shards"
    <3>1. index[s] \in 1..Cardinality(DOMAIN index)
      BY <2>1, <2>3 DEF IInv, Numbers, Numbered, Range
    <3>2. /\ Cardinality(DOMAIN index) <= Cardinality(Samples) /\ Cardinality(DOMAIN index) \in Nat
          /\ Cardinality(Samples) \in Nat
      BY <1>1, <2>1, Counting DEF Map
    <3> QED BY <2>3, <3>1, <3>2
  <2> QED BY <2>2, <2>3
<1> QED BY <1>1, <1>2, <1>3 DEF TypeOK, Types, Map

\* What the index names is where it says, and one model made it for that sample.
LEMMA Homes == IInv => IndexPointsHome
<1> SUFFICES ASSUME IInv, ~unclean, backend = "parquet" => complete # None,
                    NEW s \in DOMAIN OnDisk(index)
             PROVE  \E r \in Revisions : Read(index, s) = {<<s, r>>}
  BY StoreTyped DEF IndexPointsHome
<1>0. Types /\ used \subseteq Revisions
  BY DEF IInv, Types
<1>1. CASE backend \in {"shards", "parquet"}
  BY <1>0, <1>1, Reads
<1>2. CASE backend = "memmap"
  <2>1. Home(OnDisk(index)) /\ OnDisk(index) = index
    BY <1>2, EmptyContents DEF IInv, MemmapClean, OnDisk
  <2>2. PICK r \in Revisions : \A t \in 1..Tensors : bins[t][index[s]] = [sample |-> s, value |-> r]
    BY <2>1 DEF Home
  <2>3. 1 \in 1..Tensors
    BY StoreAssumption DEF StoreAssumption
  <2>4. Read(index, s) = {<<s, r>>}
    BY <1>2, <2>2, <2>3, Reads
  <2> QED BY <2>4
<1> QED BY <1>0, <1>1, <1>2 DEF Types, Backends

\* With one model in use, what a dataset reads is of the revision it asked for.
LEMMA Served == IInv => AskedIsServed
<1> SUFFICES ASSUME IInv, view # None, None \notin {view.asked, view.rev}, Cardinality(used) = 1,
                    NEW s \in DOMAIN view.index, NEW v \in Read(view.index, s)
             PROVE  v[2] = view.asked
  BY DEF AskedIsServed
<1>1. view.asked \in used /\ Readable(view.index)
  BY DEF IInv, Views
<1>2. \A x, y \in used : x = y
  <2>1. \E x : used = {x}
    BY FS_Singleton DEF IInv, Types
  <2> QED BY <2>1
<1>3. v[2] \in used
  <2>1. CASE backend = "shards"
    <3>1. view.index[s] \in 1..Len(shards) /\ s \in DOMAIN shards[view.index[s]]
      BY <1>1, <2>1 DEF Readable
    <3>2. shards[view.index[s]][s] \in used
      BY <3>1 DEF IInv, Files, Map
    <3> QED BY <2>1, <3>2 DEF Read
  <2>2. CASE backend = "memmap"
    <3>1. PICK t \in 1..Tensors :
            v = <<bins[t][view.index[s]].sample, bins[t][view.index[s]].value>>
      BY <2>2 DEF Read
    <3>2. bins[t][view.index[s]] \in [sample : Samples, value : used]
      BY <1>1, <2>2 DEF Readable, IInv, Files
    <3> QED BY <3>1, <3>2
  <2>3. CASE backend = "parquet"
    <3>1. rows # None
      BY <1>1, <2>3 DEF Readable
    <3>2. PICK x \in DOMAIN rows : v = <<x, rows[x].value>>
      BY <2>3 DEF Read
    <3>3. rows[x].value \in used
      BY <3>1, <3>2 DEF IInv, Files, Map
    <3> QED BY <3>2, <3>3
  <2> QED BY <2>1, <2>2, <2>3 DEF IInv, Types, Backends
<1> QED BY <1>1, <1>2, <1>3

\* In every store whatever the index on disk names is where the index says, a
\* value of one model and of that sample, while no run died over a memmap.
THEOREM StoreIndexPointsHome == Spec => []IndexPointsHome
BY StoreInvariant, Homes, PTL

\* A dataset that asked for a revision and was let in by a header that names one
\* reads what that revision computed, as long as the runs over the directory used
\* one model (base.py:77, store.py:491).
THEOREM StoreServesWhatIsAsked == Spec => []AskedIsServed
BY StoreInvariant, Served, PTL

------------------------------------------------------------------------------
(* The stores: the promise                                                 *)

\* What is held are samples and values, in this state and in the next.
LEMMA HeldContents == IInv => Promise!IsContents(Held)
<1> SUFFICES ASSUME IInv PROVE Promise!IsContents(Held)
  OBVIOUS
<1>0. Types /\ Map(OnDisk(index), Nat) /\ used \subseteq Revisions /\ Tensors \in Nat
  BY Opened, StoreAssumption DEF IInv, Types, StoreAssumption
<1>1. DOMAIN Held \subseteq Samples
  BY <1>0, EmptyContents DEF Held, Map
<1>2. ASSUME NEW s \in DOMAIN Held PROVE Held[s] \in SUBSET (Samples \X Revisions)
  <2>1. /\ s \in DOMAIN OnDisk(index) /\ Held[s] = Read(index, s) /\ s \in Samples
        /\ backend = "parquet" => complete # None
    BY <1>1, <1>2, EmptyContents DEF Held
  <2>2. CASE backend \in {"shards", "parquet"}
    BY <1>0, <2>1, <2>2, Reads
  <2>3. CASE backend = "memmap"
    <3>1. /\ \A t \in 1..Tensors : bins[t][index[s]] \in [sample : Samples, value : used]
          /\ Read(index, s) = {<<bins[t][index[s]].sample, bins[t][index[s]].value>> :
                                 t \in 1..Tensors}
      BY <2>1, <2>3, Reads
    <3> QED BY <1>0, <2>1, <3>1
  <2> QED BY <1>0, <2>2, <2>3 DEF Types, Backends
<1> QED BY <1>1, <1>2 DEF Promise!IsContents, Promise!Range

\* A sample whose place is the same reads the same in the next state.
LEMMA SameReads ==
  ASSUME IInv, [Next]_vars, NEW s \in DOMAIN OnDisk(index),
         backend # "shards" => complete # None, index'[s] = index[s]
  PROVE  Read(index, s)' = Read(index, s)
<1> USE DEF disk, memory
<1>0. index \notin {None, Torn} /\ OnDisk(index) = index /\ Types
  BY EmptyContents DEF OnDisk, IInv
<1>1. CASE backend = "shards"
  <2>1. index[s] \in 1..Len(shards)
    BY <1>1, Reads
  <2>2. shards'[index'[s]] = shards[index[s]]
    BY <2>1, FilesGrow
  <2> QED BY <1>1, <2>2, SameBackend DEF Read
<1>2. CASE backend = "memmap"
  <2>1. \A t \in 1..Tensors : bins'[t][index'[s]] = bins[t][index[s]]
    BY <1>2, Reads, FilesGrow
  <2> QED BY <1>2, <2>1, SameBackend DEF Read
<1>3. CASE backend = "parquet"
  <2>1. DOMAIN rows' = DOMAIN rows
        /\ \A x \in DOMAIN rows : rows'[x].row = rows[x].row /\ rows'[x].value = rows[x].value
    <3>1. CASE WriteRows /\ pending # Empty
      <4>1. /\ rows' = [x \in DOMAIN pending |-> [row |-> known[x], value |-> pending[x]]]
            /\ Running /\ complete # None
        BY <1>3, <3>1 DEF WriteRows, Running
      <4>2. /\ DOMAIN pending = DOMAIN known /\ RowsMatch(known)
            /\ \A x \in DOMAIN known : pending[x] = rows[x].value
        BY <1>3, <4>1 DEF IInv, Parquet
      <4>3. OnDisk(rows) = rows
        <5>1. DOMAIN known # {}
          BY <3>1, <4>2, EmptyContents DEF IInv, Memory
        <5> QED BY <4>2, <5>1, EmptyContents DEF RowsMatch, OnDisk
      <4> QED BY <4>1, <4>2, <4>3 DEF RowsMatch
    <3>2. CASE ~(WriteRows /\ pending # Empty)
      <4>1. rows' = rows
        BY <3>2 DEF Next, vars, Open, Skip, PutRefused, PutShard, PutRow, PutParquet, AppendRow,
             FlushShard, Reindex, Finalize, WriteRows, Truncate, WriteIndex, WriteManifest, Die,
             OpenView
      <4> QED BY <4>1
    <3> QED BY <3>1, <3>2
  <2> QED BY <1>3, <2>1, SameBackend DEF Read
<1> QED BY <1>0, <1>1, <1>2, <1>3 DEF Types, Backends

\* An empty directory holds nothing.
LEMMA PromiseInit == Init => Promise!Init
<1> SUFFICES ASSUME Init PROVE Promise!Init
  OBVIOUS
<1>1. index = None /\ complete = None
  BY DEF Init
<1>2. Held = Promise!Nothing
  BY <1>1 DEF Held, OnDisk, Empty, Promise!Nothing
<1> QED BY <1>1, <1>2 DEF Promise!Init

\* What is held stays, when the samples that can be found stay where they are.
LEMMA HeldStays ==
  ASSUME IInv, [Next]_vars,
         \A s \in DOMAIN OnDisk(index) : s \in DOMAIN OnDisk(index') /\ index'[s] = index[s],
         backend # "shards" /\ complete # None => complete' # None
  PROVE  /\ Promise!Keeps(Held, Held')
         /\ DOMAIN OnDisk(index') = DOMAIN OnDisk(index) /\ (complete' # None <=> complete # None)
              => UNCHANGED Promise!vars
<1>0. backend' = backend
  BY SameBackend
<1>1. CASE backend # "shards" /\ complete = None
  <2>1. Held = Empty /\ DOMAIN Held = {}
    BY <1>1, EmptyContents DEF Held
  <2>2. complete' = None => Held' = Empty
    BY <1>0, <1>1 DEF Held, Empty
  <2> QED BY <1>0, <1>1, <2>1, <2>2 DEF Promise!Keeps, Promise!vars
<1>2. CASE ~(backend # "shards" /\ complete = None)
  <2>1. Held = [s \in DOMAIN OnDisk(index) |-> Read(index, s)]
    BY <1>2 DEF Held
  <2>2. Held' = [s \in DOMAIN OnDisk(index') |-> Read(index, s)']
    BY <1>0, <1>2 DEF Held, Read, OnDisk, Empty
  <2>3. \A s \in DOMAIN OnDisk(index) : Read(index, s)' = Read(index, s)
    BY <1>2, SameReads
  <2>4. Promise!Keeps(Held, Held')
    BY <2>1, <2>2, <2>3 DEF Promise!Keeps
  <2>5. DOMAIN OnDisk(index') = DOMAIN OnDisk(index) => Held' = Held
    BY <2>1, <2>2, <2>3
  <2> QED BY <1>0, <2>4, <2>5 DEF Promise!vars
<1> QED BY <1>1, <1>2

\* A step of the store is a step of the promise, or changes nothing it speaks of.
LEMMA PromiseStep == IInv /\ IInv' /\ [Next]_vars => [Promise!Next]_(Promise!vars)
<1> SUFFICES ASSUME IInv, IInv', [Next]_vars PROVE [Promise!Next]_(Promise!vars)
  OBVIOUS
<1> USE DEF disk, memory
<1>0. Types /\ Places /\ Memory /\ Map(OnDisk(index), Nat) /\ backend' = backend
  BY Opened, SameBackend DEF IInv
<1>1. Promise!IsContents(Held)'
  BY HeldContents, PTL
<1>2. Map(known, Nat) /\ OnDisk(known) = known
  BY <1>0, NoMark DEF Memory
<1>4. CASE UNCHANGED <<index, complete>>
  BY <1>4, HeldStays DEF OnDisk
<1>5. CASE Reindex
  <2>1. backend = "shards" /\ ~finalized /\ complete = None /\ pc = "reindex"
    BY <1>0, <1>5 DEF Reindex, Places, Memory, Running
  <2>2. OnDisk(index) = known /\ DOMAIN known \cap DOMAIN pending = {} /\ index # Torn
    BY <2>1 DEF IInv, Sharded, Running
  <2>3. /\ index' = [s \in DOMAIN known \cup DOMAIN pending |->
                      IF s \in DOMAIN pending THEN Len(shards) ELSE known[s]]
        /\ complete' = complete /\ index' = known'
    BY <1>5 DEF Reindex
  <2>4. OnDisk(index') = index'
    <3>1. Map(known', Nat)
      BY MemoryStep DEF Memory
    <3> QED BY <2>3, <3>1, NoMark
  <2>5. \A s \in DOMAIN known : index[s] = known[s]
    BY <2>2, EmptyContents DEF OnDisk
  <2>6. Promise!Keeps(Held, Held')
    <3>1. \A s \in DOMAIN OnDisk(index) : s \in DOMAIN OnDisk(index') /\ index'[s] = index[s]
      BY <2>2, <2>3, <2>4, <2>5
    <3> QED BY <2>1, <3>1, HeldStays
  <2>7. Promise!Add
    BY <1>0, <1>1, <2>1, <2>3, <2>6 DEF Promise!Add, Promise!IsContents
  <2> QED BY <2>7 DEF Promise!Next
<1>6. CASE Truncate
  <2>1. backend # "shards" /\ index' = Torn /\ complete' = complete
    BY <1>0, <1>6 DEF Truncate, Places
  <2>2. Held' = Promise!Nothing
    <3>1. OnDisk(index') = Empty
      BY <2>1 DEF OnDisk
    <3> QED BY <1>0, <2>1, <3>1, EmptyContents DEF Held, Promise!Nothing, Empty, OnDisk
  <2>3. Promise!Tear
    BY <1>0, <2>1, <2>2 DEF Promise!Tear
  <2> QED BY <2>3 DEF Promise!Next
<1>7. CASE WriteIndex
  <2>1. index' = known /\ complete' = complete /\ Running
    BY <1>7 DEF WriteIndex, Running
  <2>2. CASE index = known \/ OnDisk(index) = known
    <3>1. OnDisk(index') = OnDisk(index)
      BY <1>2, <2>1, <2>2
    <3>2. \A s \in DOMAIN OnDisk(index) : index'[s] = index[s]
      BY <2>1, <2>2, EmptyContents DEF OnDisk
    <3> QED BY <2>1, <3>1, <3>2, HeldStays
  <2>3. CASE backend # "shards" /\ complete = None
    <3>1. Held = Empty /\ Held' = Empty
      BY <1>0, <2>1, <2>3 DEF Held, Empty
    <3> QED BY <1>0, <2>1, <3>1 DEF Promise!vars
  <2>4. CASE backend # "shards" /\ ~Indexed
    <3>1. OnDisk(index) = Empty
      BY <2>4 DEF OnDisk, Indexed
    <3>2. Held = Promise!Nothing
      BY <3>1, EmptyContents DEF Held, Promise!Nothing, Empty
    <3>3. Promise!Mend
      BY <1>0, <1>1, <2>1, <2>4, <3>2 DEF Promise!Mend, Promise!IsContents
    <3> QED BY <3>3 DEF Promise!Next
  <2>5. backend = "shards" => OnDisk(index) = known
    BY <2>1 DEF IInv, Sharded
  <2>6. backend # "shards" /\ complete # None /\ Indexed => index = known
    BY <1>0, <2>1 DEF IInv, Types, Backends, Parquet, Memmap
  <2> QED BY <2>2, <2>3, <2>4, <2>5, <2>6
<1>8. CASE WriteManifest
  <2>1. /\ index' = index /\ complete' = header /\ index = known /\ DOMAIN known = Samples
        /\ complete' # None
    <3>1. pc = "manifest" /\ index' = index /\ complete' = header
      BY <1>8 DEF WriteManifest
    <3>2. header \in [rev : used \cup {None}, fields : BOOLEAN] /\ index = known /\ DOMAIN known = Samples
      BY <1>0, <3>1 DEF Memory, Places, Running
    <3> QED BY <1>0, <3>1, <3>2, NoMarkHeader DEF Types
  <2>2. OnDisk(index) = known /\ OnDisk(index') = known
    BY <1>2, <2>1
  <2>3. Promise!Keeps(Held, Held')
    BY <2>1, <2>2, HeldStays
  <2>4. DOMAIN Held' = Samples
    BY <2>1, <2>2 DEF Held, OnDisk
  <2>5. Promise!Complete
    BY <1>0, <1>1, <2>1, <2>3, <2>4 DEF Promise!Complete, Promise!IsContents
  <2> QED BY <2>5 DEF Promise!Next
<1> QED
  BY <1>4, <1>5, <1>6, <1>7, <1>8
     DEF Next, vars, Open, Skip, PutRefused, PutShard, PutRow, PutParquet, AppendRow, FlushShard,
         Finalize, WriteRows, Die, OpenView

\* The store implements ArtifactPromise: nothing it holds is lost or replaced,
\* and it is complete only once it has every sample.
THEOREM StoreKeepsPromise == Spec => ImplementsPromise
<1>1. Spec => [][Promise!Next]_(Promise!vars)
  BY StoreInvariant, PromiseStep, PTL DEF Spec
<1> QED BY <1>1, PromiseInit, PTL DEF Spec, ImplementsPromise, Promise!Spec
------------------------------------------------------------------------------
(* The dynamic producer: the inductive invariant                           *)

Items == {Poison} \cup Steps

\* The steps in a queue, and that none is in it twice.
On(q) == {n \in Steps : Contains(q, n)}
NoTwin(q) == \A i, j \in 1..Len(q) : q[i] = q[j] /\ q[i] # Poison => i = j

Shapes ==
  /\ training \in {"no", "yes", "stopping", "joining"}
  /\ fits \in 0..MaxFits /\ step \in 0..MaxSteps /\ lastStep \in {NoStep} \cup Steps
  /\ queue \in Seq(Items) /\ Len(queue) <= QueueSize
  /\ worker \in [Fits -> {"none", "test", "get", "produce", "done"}]
  /\ item \in [Fits -> {NoStep} \cup Steps]
  /\ stored \in [{0} \cup Steps -> {NoStep} \cup Steps]
  /\ taken \in SUBSET Steps /\ made \in SUBSET Steps
  /\ failed \in SUBSET Steps /\ lost \in SUBSET Steps

\* What has been submitted was submitted at the last step or before it.
Submitted == lastStep <= step /\ \A n \in taken : n <= lastStep

\* A worker that produces holds a step, and no other worker the same one.
Carried ==
  /\ \A f \in Fits : worker[f] = "produce" <=> item[f] \in Steps
  /\ \A f, h \in Fits : item[f] \in Steps /\ item[f] = item[h] => f = h

\* The worker of a fit that has not begun is not there.
Begun == \A f \in Fits : f > fits => worker[f] = "none"

\* A step submitted is in one place, and in no two.
Apart ==
  /\ On(queue) \cap (InWork \cup made \cup failed \cup lost) = {}
  /\ InWork \cap (made \cup failed \cup lost) = {}
  /\ made \cap (failed \cup lost) = {} /\ failed \cap lost = {}
Together == taken = On(queue) \cup InWork \cup made \cup failed \cup lost

Counted == produced = Cardinality(made) /\ dropped = Cardinality(lost)

\* A directory holds a step that was made and belongs there, and one that was
\* made has something where it belongs.
Filed ==
  /\ \A d \in {0} \cup Steps :
       stored[d] # NoStep => stored[d] \in made /\ Directory(stored[d]) = d
  /\ \A n \in made : stored[Directory(n)] # NoStep

Mode == fixed \in BOOLEAN

DynamicInv ==
  /\ Mode /\ Shapes /\ Begun /\ Submitted /\ NoTwin(queue) /\ Carried
  /\ Apart /\ Together /\ Counted /\ Filed

------------------------------------------------------------------------------
(* The dynamic producer: its steps                                         *)

\* put() adds one step to what is in a queue, and makes no twin.
LEMMA PutItem ==
  ASSUME NEW q \in Seq(Items), NEW x \in Items, x \notin On(q), NoTwin(q)
  PROVE  /\ Append(q, x) \in Seq(Items) /\ Len(Append(q, x)) = Len(q) + 1
         /\ On(Append(q, x)) = On(q) \cup ({x} \ {Poison})
         /\ NoTwin(Append(q, x))
<1>1. /\ Append(q, x) \in Seq(Items) /\ Len(Append(q, x)) = Len(q) + 1
      /\ \A i \in 1..Len(q) : Append(q, x)[i] = q[i] /\ q[i] \in Items
      /\ Append(q, x)[Len(q) + 1] = x /\ Len(q) \in Nat
  OBVIOUS
<1>2. Poison \notin Steps
  BY DEF Poison, Steps
<1>3. On(Append(q, x)) = On(q) \cup ({x} \ {Poison})
  BY <1>1, <1>2 DEF On, Contains, Items
<1>4. NoTwin(Append(q, x))
  <2>1. \A i \in 1..Len(q) : q[i] # Poison => q[i] \in On(q)
    BY <1>1, <1>2 DEF On, Contains, Items
  <2> QED BY <1>1, <2>1 DEF NoTwin
<1> QED BY <1>1, <1>3, <1>4

\* get() takes one step out of it.
LEMMA TakeItem ==
  ASSUME NEW q \in Seq(Items), q # <<>>, NoTwin(q)
  PROVE  /\ Tail(q) \in Seq(Items) /\ Len(Tail(q)) = Len(q) - 1 /\ Head(q) \in Items
         /\ On(q) = On(Tail(q)) \cup ({Head(q)} \ {Poison})
         /\ Head(q) \notin On(Tail(q))
         /\ NoTwin(Tail(q))
<1>1. /\ Tail(q) \in Seq(Items) /\ Len(Tail(q)) = Len(q) - 1 /\ Head(q) = q[1]
      /\ \A i \in 1..Len(q) : q[i] \in Items
      /\ \A i \in 1..Len(q) - 1 : Tail(q)[i] = q[i + 1]
      /\ Len(q) \in Nat \ {0}
  OBVIOUS
<1>2. Poison \notin Steps
  BY DEF Poison, Steps
<1>3. \A i \in 1..Len(q) : i = 1 \/ i - 1 \in 1..Len(q) - 1
  BY <1>1
<1>4. On(q) = On(Tail(q)) \cup ({Head(q)} \ {Poison})
  <2>1. ASSUME NEW n \in On(q) PROVE n \in On(Tail(q)) \cup ({Head(q)} \ {Poison})
    <3>1. PICK i \in 1..Len(q) : q[i] = n
      BY DEF On, Contains
    <3>2. CASE i = 1
      BY <1>1, <1>2, <3>1, <3>2 DEF On
    <3>3. CASE i - 1 \in 1..Len(q) - 1
      <4>1. Tail(q)[i - 1] = n
        BY <1>1, <3>1, <3>3
      <4> QED BY <1>1, <3>3, <4>1 DEF On, Contains
    <3> QED BY <1>3, <3>2, <3>3
  <2>2. On(Tail(q)) \subseteq On(q)
    BY <1>1 DEF On, Contains
  <2>3. Head(q) # Poison => Head(q) \in On(q)
    BY <1>1 DEF On, Contains, Items
  <2> QED BY <2>1, <2>2, <2>3
<1>5. Head(q) \notin On(Tail(q))
  <2>1. SUFFICES ASSUME Head(q) \in On(Tail(q)) PROVE FALSE
    OBVIOUS
  <2>2. PICK i \in 1..Len(q) - 1 : Tail(q)[i] = q[1]
    BY <1>1, <2>1 DEF On, Contains
  <2>3. q[i + 1] = q[1] /\ q[1] # Poison /\ i + 1 \in 1..Len(q) /\ i + 1 # 1
    BY <1>1, <1>2, <2>1, <2>2 DEF On
  <2> QED BY <1>1, <2>3 DEF NoTwin
<1>6. NoTwin(Tail(q))
  <2>1. SUFFICES ASSUME NEW i \in 1..Len(q) - 1, NEW j \in 1..Len(q) - 1,
                        q[i + 1] = q[j + 1], q[i + 1] # Poison
                 PROVE  i = j
    BY <1>1 DEF NoTwin
  <2>2. i + 1 = j + 1
    BY <1>1, <2>1 DEF NoTwin
  <2> QED BY <2>2
<1> QED BY <1>1, <1>4, <1>5, <1>6

\* The producer starts in its invariant.
LEMMA DynamicStarts ==
  DynamicInit => DynamicInv
<1> SUFFICES ASSUME DynamicInit PROVE DynamicInv
  OBVIOUS
<1>1. Shapes
  BY DynamicAssumption DEF DynamicInit, Shapes, Items, NoStep, Poison, Steps, Fits
<1>2. On(queue) = {} /\ InWork = {}
  BY DEF DynamicInit, On, Contains, InWork, Fits
<1>3. NoStep \notin Steps /\ NoStep < 0 /\ Cardinality({}) = 0
  BY FS_EmptySet DEF NoStep, Steps
<1>4. Mode
  BY DEF DynamicInit, Mode
<1>5. Begun /\ Submitted /\ NoTwin(queue) /\ Carried
  <2>1. Begun /\ Carried
    BY <1>3 DEF DynamicInit, Begun, Carried
  <2>2. Submitted
    BY DEF DynamicInit, Submitted, NoStep
  <2>3. NoTwin(queue)
    BY DEF DynamicInit, NoTwin
  <2> QED BY <2>1, <2>2, <2>3
<1>6. Apart /\ Together /\ Counted /\ Filed
  BY <1>2, <1>3 DEF DynamicInit, Apart, Together, Counted, Filed
<1> QED
  BY <1>1, <1>4, <1>5, <1>6 DEF DynamicInv

\* Sets of steps are finite.
LEMMA FiniteSteps ==
  \A S \in SUBSET Steps : IsFiniteSet(S) /\ Cardinality(S) \in 0..MaxSteps
<1>1. MaxSteps \in Nat /\ 1 \in Int /\ MaxSteps \in Int
  BY DynamicAssumption
<1>2. IsFiniteSet(Steps) /\ Cardinality(Steps) = MaxSteps
  BY <1>1, FS_Interval DEF Steps
<1>3. TAKE S \in SUBSET Steps
<1>4. IsFiniteSet(S) /\ Cardinality(S) <= MaxSteps
  BY <1>2, FS_Subset
<1> QED BY <1>1, <1>4, FS_CardinalityType

\* The last step submitted, or none, can be compared with a step.
LEMMA LastStepIsNumber == DynamicInv => lastStep \in Int
BY DEF DynamicInv, Shapes, Steps, NoStep

\* The version stays fixed, or stays not.
LEMMA SameMode == DynamicInv /\ [DynamicNext]_dynamicVars => fixed' = fixed /\ Mode'
BY Zenon DEF DynamicInv, Mode, DynamicNext, Work, dynamicVars, OnTrainStart, OnTrainEnd, 
   PutPoison, Join, OnStepEnd,
   TestStop, GetTimeout, Get, Produce, ProduceFails

\* What a step that leaves the items of the workers alone keeps.
LEMMA SameWork ==
  ASSUME DynamicInv, item' = item,
         \A f \in Fits : worker'[f] = "produce" <=> worker[f] = "produce"
  PROVE  Carried' /\ InWork' = InWork
BY DEF DynamicInv, Carried, InWork

\* The same of the directories.
LEMMA SameFiles ==
  ASSUME DynamicInv, fixed' = fixed, UNCHANGED <<stored, made>>
  PROVE  Filed'
BY DEF DynamicInv, Filed, Directory

\* A step that moves nothing from place to place keeps everything about places.
LEMMA SamePlaces ==
  ASSUME DynamicInv, [DynamicNext]_dynamicVars, On(queue') = On(queue), NoTwin(queue'),
         item' = item, \A f \in Fits : worker'[f] = "produce" <=> worker[f] = "produce",
         UNCHANGED <<taken, made, failed, lost, lastStep, step, stored, produced, dropped>>
  PROVE  NoTwin(queue)' /\ Submitted' /\ Carried' /\ Apart' /\ Together' /\ Counted' /\ Filed'
<1>1. Carried' /\ InWork' = InWork
  BY SameWork
<1>2. Filed'
  BY SameFiles, SameMode
<1>3. Apart' /\ Together'
  BY <1>1 DEF DynamicInv, Apart, Together
<1>4. Submitted' /\ Counted'
  BY DEF DynamicInv, Submitted, Counted
<1> QED BY <1>1, <1>2, <1>3, <1>4

\* Every step of the training thread or of a worker preserves the invariant.
LEMMA DynamicStep ==
  DynamicInv /\ [DynamicNext]_dynamicVars => DynamicInv'
<1> SUFFICES ASSUME DynamicInv, [DynamicNext]_dynamicVars PROVE DynamicInv'
  OBVIOUS
<1>0. /\ QueueSize \in Nat \ {0} /\ MaxSteps \in Nat /\ MaxFits \in Nat
      /\ Poison \notin Steps /\ NoStep \notin Steps /\ Steps \subseteq Nat
      /\ Poison \in Items
      /\ step \in Nat
  BY DynamicAssumption DEF Steps, Poison, NoStep, DynamicInv, Shapes, Items
<1>m. Mode' /\ fixed' = fixed
  BY SameMode
<1>1. CASE OnTrainStart
  <2>1. /\ fits + 1 \in Fits /\ fits' = fits + 1 /\ training' = "yes"
        /\ worker' = [worker EXCEPT ![fits + 1] = "test"]
    BY <1>0, <1>1 DEF OnTrainStart, DynamicInv, Shapes, Fits
  <2>2. UNCHANGED <<step, lastStep, queue, dropped, produced, item, stored, taken, lost, made,
                  failed>>
    BY <1>1 DEF OnTrainStart
  <2>3. Shapes'
    BY <1>0, <2>1, <2>2 DEF DynamicInv, Shapes, Fits
  <2>4. \A f \in Fits : worker'[f] = "produce" <=> worker[f] = "produce"
    BY <1>0, <1>1, <2>1 DEF OnTrainStart, DynamicInv, Shapes, Begun, Fits
  <2>5. Begun'
    BY <1>0, <2>1 DEF DynamicInv, Shapes, Begun, Fits
  <2> QED BY <2>5, <1>m, <2>2, <2>3, <2>4, SamePlaces DEF DynamicInv
<1>2. ASSUME NEW n \in Steps, NEW c \in BOOLEAN, OnStepEnd(n, c) PROVE DynamicInv'
  <2>1. /\ n \in Nat /\ step <= n /\ step' = n /\ n \in 0..MaxSteps
        /\ UNCHANGED <<training, fits, produced, worker, item, stored, made, failed>>
    BY <1>0, <1>2 DEF OnStepEnd, Steps
  <2>2. Carried' /\ InWork' = InWork /\ Begun'
    BY <2>1, SameWork DEF DynamicInv, Begun
  <2>3. Filed'
    BY <1>m, <2>1, SameFiles
  <2>4. CASE UNCHANGED <<queue, dropped, lost, taken>> /\ lastStep' \in {lastStep, n}
    <3>1. Shapes' /\ Submitted'
      BY <1>0, <2>1, <2>4, LastStepIsNumber DEF DynamicInv, Shapes, Submitted
    <3>2. NoTwin(queue)' /\ Apart' /\ Together' /\ Counted'
      BY <2>1, <2>2, <2>4 DEF DynamicInv, Apart, Together, Counted
    <3> QED BY <1>m, <2>2, <2>3, <3>1, <3>2 DEF DynamicInv
  <2>5. CASE Submit(n) /\ taken' = taken \cup {n} /\ lastStep' = n /\ n # lastStep
    <3>1. n \notin taken /\ Submitted'
      BY <1>0, <2>1, <2>5 DEF DynamicInv, Shapes, Submitted, NoStep, Steps
    <3>2. n \notin On(queue) \cup InWork \cup made \cup failed \cup lost
          /\ n # Poison /\ n \in Items
      BY <1>0, <3>1 DEF DynamicInv, Together, Items
    <3>3. queue \in Seq(Items) /\ Len(queue) \in Nat /\ Len(queue) <= QueueSize /\ NoTwin(queue)
      BY DEF DynamicInv, Shapes
    <3>4. CASE Len(queue) < QueueSize
      <4>1. queue' = Append(queue, n) /\ UNCHANGED <<dropped, lost>>
        BY <2>5, <3>4 DEF Submit
      <4>2. /\ queue' \in Seq(Items) /\ Len(queue') = Len(queue) + 1
            /\ On(queue') = On(queue) \cup {n} /\ NoTwin(queue')
        BY <3>2, <3>3, <4>1, PutItem
      <4>3. Shapes'
        BY <1>0, <2>1, <2>5, <3>3, <3>4, <4>1, <4>2 DEF DynamicInv, Shapes
      <4>4. Apart' /\ Together' /\ Counted'
        BY <2>1, <2>2, <2>5, <3>2, <4>1, <4>2 DEF DynamicInv, Apart, Together, Counted
      <4> QED BY <1>m, <2>2, <2>3, <3>1, <4>2, <4>3, <4>4 DEF DynamicInv
    <3>5. CASE ~(Len(queue) < QueueSize)
      <4>1. queue' = queue /\ dropped' = dropped + 1 /\ lost' = lost \cup {n}
        BY <2>5, <3>5 DEF Submit
      <4>2. Shapes'
        BY <1>0, <2>1, <2>5, <4>1 DEF DynamicInv, Shapes
      <4>3. Apart' /\ Together' /\ NoTwin(queue)'
        BY <2>1, <2>2, <2>5, <3>2, <4>1 DEF DynamicInv, Apart, Together
      <4>4. Counted'
        <5>1. IsFiniteSet(lost) /\ Cardinality(lost) \in Nat
          BY FiniteSteps DEF DynamicInv, Shapes
        <5>2. Cardinality(lost \cup {n}) = Cardinality(lost) + 1
          BY <3>2, <5>1, FS_AddElement
        <5> QED BY <2>1, <4>1, <5>2 DEF DynamicInv, Counted
      <4> QED BY <1>m, <2>2, <2>3, <3>1, <4>2, <4>3, <4>4 DEF DynamicInv
    <3> QED BY <3>4, <3>5
  <2> QED BY <1>2, <2>4, <2>5 DEF OnStepEnd
<1>3. CASE OnTrainEnd \/ Join \/ UNCHANGED dynamicVars
  <2>1. UNCHANGED <<fits, step, lastStep, queue, dropped, produced, worker, item, stored, taken,
                  lost, made, failed>>
    BY <1>3 DEF OnTrainEnd, Join, dynamicVars
  <2>2. training' \in {"no", "yes", "stopping", "joining"}
    BY <1>3 DEF OnTrainEnd, Join, dynamicVars, DynamicInv, Shapes
  <2> QED BY <1>m, <2>1, <2>2, SamePlaces DEF DynamicInv, Shapes, Begun
<1>4. CASE PutPoison
  <2>1. /\ UNCHANGED <<fits, step, lastStep, dropped, produced, worker, item, stored, taken,
                       lost, made, failed>>
        /\ training' = "joining"
    BY <1>4 DEF PutPoison
  <2>2. /\ queue' \in Seq(Items) /\ Len(queue') <= QueueSize
        /\ On(queue') = On(queue) /\ NoTwin(queue')
    <3>1. /\ Poison \notin On(queue) /\ queue \in Seq(Items) /\ NoTwin(queue)
          /\ Len(queue) <= QueueSize /\ Len(queue) \in Nat
      BY <1>0 DEF On, DynamicInv, Shapes
    <3>2. /\ Append(queue, Poison) \in Seq(Items)
          /\ Len(Append(queue, Poison)) = Len(queue) + 1
          /\ On(Append(queue, Poison)) = On(queue) /\ NoTwin(Append(queue, Poison))
      BY <1>0, <3>1, PutItem
    <3> QED BY <1>0, <1>4, <3>1, <3>2 DEF PutPoison
  <2>3. Shapes'
    BY <2>1, <2>2 DEF DynamicInv, Shapes
  <2> QED BY <1>m, <2>1, <2>2, <2>3, SamePlaces DEF DynamicInv, Begun
<1>5. ASSUME NEW f \in Fits, TestStop(f) \/ GetTimeout(f) PROVE DynamicInv'
  <2>1. UNCHANGED <<training, fits, step, lastStep, queue, dropped, produced, item, stored,
                  taken, lost, made, failed>>
    BY <1>5 DEF TestStop, GetTimeout
  <2>2. /\ worker[f] \in {"test", "get"}
        /\ worker' \in {[worker EXCEPT ![f] = s] : s \in {"done", "get", "test"}}
    BY <1>5 DEF TestStop, GetTimeout, Moves
  <2>3. worker' \in [Fits -> {"none", "test", "get", "produce", "done"}]
       /\ \A h \in Fits : worker'[h] = "produce" <=> worker[h] = "produce"
    BY <2>2 DEF DynamicInv, Shapes
  <2>4. Shapes'
    BY <2>1, <2>3 DEF DynamicInv, Shapes
  <2>5. Begun'
    BY <1>0, <2>1, <2>2, <1>5 DEF DynamicInv, Shapes, Begun, Fits
  <2> QED BY <1>m, <2>1, <2>3, <2>4, <2>5, SamePlaces DEF DynamicInv
<1>6. ASSUME NEW f \in Fits, Get(f) PROVE DynamicInv'
  <2> DEFINE n == Head(queue)
  <2>1. /\ Tail(queue) \in Seq(Items) /\ Len(Tail(queue)) <= QueueSize /\ n \in Items
        /\ On(queue) = On(Tail(queue)) \cup ({n} \ {Poison})
        /\ n \notin On(Tail(queue)) /\ NoTwin(Tail(queue))
    <3>1. queue \in Seq(Items) /\ queue # <<>> /\ NoTwin(queue) /\ Len(queue) <= QueueSize
      BY <1>6 DEF Get, DynamicInv, Shapes
    <3>2. /\ Tail(queue) \in Seq(Items) /\ Len(Tail(queue)) = Len(queue) - 1 /\ n \in Items
          /\ On(queue) = On(Tail(queue)) \cup ({n} \ {Poison})
          /\ n \notin On(Tail(queue)) /\ NoTwin(Tail(queue))
      BY <3>1, TakeItem
    <3> QED BY <1>0, <3>1, <3>2
  <2>2. /\ queue' = Tail(queue) /\ worker[f] = "get"
        /\ UNCHANGED <<training, fits, step, lastStep, dropped, produced, stored, taken,
                       lost, made, failed>>
    BY <1>6 DEF Get, Moves
  <2> HIDE DEF n
  <2>3. CASE n = Poison
    <3>1. worker' = [worker EXCEPT ![f] = "done"] /\ item' = item
      BY <1>6, <2>3 DEF Get, Moves, n
    <3>2. On(queue') = On(queue) /\ NoTwin(queue')
      BY <2>1, <2>2, <2>3
    <3>3. Shapes' /\ Begun' /\ \A h \in Fits : worker'[h] = "produce" <=> worker[h] = "produce"
      BY <2>1, <2>2, <3>1 DEF DynamicInv, Shapes, Begun
    <3> QED BY <1>m, <2>2, <3>1, <3>2, <3>3, SamePlaces DEF DynamicInv
  <2>4. CASE n # Poison
    <3>1. /\ worker' = [worker EXCEPT ![f] = "produce"]
          /\ item' = [item EXCEPT ![f] = n] /\ n \in Steps
      BY <1>6, <2>1, <2>4 DEF Get, Moves, Items, n
    <3>2. Shapes' /\ Begun'
      BY <2>1, <2>2, <3>1 DEF DynamicInv, Shapes, Begun
    <3>3. n \in On(queue) /\ \A h \in Fits : item[h] # n
      <4>1. n \in On(queue)
        BY <2>1, <2>4
      <4>2. n \notin InWork
        BY <4>1 DEF DynamicInv, Apart
      <4> QED BY <3>1, <4>1, <4>2 DEF InWork, DynamicInv, Carried
    <3>4. Carried'
      BY <2>2, <3>1, <3>3 DEF DynamicInv, Shapes, Carried
    <3>5. InWork' = InWork \cup {n}
      BY <2>2, <3>1 DEF InWork, DynamicInv, Shapes
    <3>6. On(queue') = On(queue) \ {n}
      BY <2>1, <2>2, <2>4
    <3>7. Apart' /\ Together'
      BY <2>2, <3>3, <3>5, <3>6 DEF DynamicInv, Apart, Together
    <3>8. Submitted' /\ Counted' /\ NoTwin(queue)'
      BY <2>1, <2>2 DEF DynamicInv, Submitted, Counted
    <3>9. Filed'
      BY <1>m, <2>2, SameFiles
    <3> QED BY <1>m, <3>2, <3>4, <3>7, <3>8, <3>9 DEF DynamicInv
  <2> QED BY <2>3, <2>4
<1>7. ASSUME NEW f \in Fits, Produce(f) \/ ProduceFails(f) PROVE DynamicInv'
  <2>1. /\ worker[f] = "produce" /\ worker' = [worker EXCEPT ![f] = "test"]
        /\ item' = [item EXCEPT ![f] = NoStep]
        /\ UNCHANGED <<training, fits, step, lastStep, queue, dropped, taken, lost>>
    BY <1>7 DEF Produce, ProduceFails, Moves
  <2>2. PICK n \in Steps : n = item[f] /\ n \in InWork
    BY <2>1 DEF DynamicInv, Carried, InWork
  <2>3. n \notin made /\ n \notin failed /\ n \notin lost /\ n \notin On(queue) /\ n \in taken
    BY <2>2 DEF DynamicInv, Apart, Together
  <2>4. /\ stored' \in [{0} \cup Steps -> {NoStep} \cup Steps]
        /\ made' \in SUBSET Steps /\ failed' \in SUBSET Steps
    <3>1. CASE Produce(f)
      BY <2>2, <3>1 DEF Produce, DynamicInv, Shapes
    <3>2. CASE ProduceFails(f)
      BY <2>2, <3>2 DEF ProduceFails, DynamicInv, Shapes
    <3> QED BY <1>7, <3>1, <3>2
  <2>5. Shapes' /\ Begun'
    BY <2>1, <2>4 DEF DynamicInv, Shapes, Begun
  <2>6. Carried'
    BY <1>0, <2>1, <2>2 DEF DynamicInv, Shapes, Carried
  <2>7. InWork' = InWork \ {n}
    BY <1>0, <2>1, <2>2 DEF InWork, DynamicInv, Shapes, Carried
  <2>8. made' \cup failed' = (made \cup failed) \cup {n} /\ made' \cap failed' = {}
    BY <1>7, <2>2, <2>3 DEF Produce, ProduceFails, DynamicInv, Apart
  <2>9. Apart' /\ Together'
    <3>1. Apart /\ Together
      BY DEF DynamicInv
    <3> QED BY <2>1, <2>2, <2>3, <2>7, <2>8, <3>1 DEF Apart, Together
  <2>10. Submitted' /\ NoTwin(queue)'
    BY <2>1 DEF DynamicInv, Submitted
  <2>11. Counted'
    <3>1. IsFiniteSet(made) /\ Cardinality(made) \in Nat
      BY FiniteSteps DEF DynamicInv, Shapes
    <3>2. Cardinality(made \cup {n}) = Cardinality(made) + 1
      BY <2>3, <3>1, FS_AddElement
    <3> QED BY <1>7, <2>1, <2>2, <3>2 DEF Produce, ProduceFails, DynamicInv, Counted
  <2>12. Filed'
    <3>1. CASE Produce(f)
      <4> DEFINE d == Directory(n)
      <4>1. d \in {0} \cup Steps /\ d = Directory(n)
        BY DEF Directory
      <4>2. /\ made' = made \cup {n}
            /\ stored' = [stored EXCEPT ![d] = IF @ = NoStep THEN n ELSE @]
        BY <2>2, <3>1 DEF Produce
      <4>3. \A m \in Steps : Directory(m)' = Directory(m)
                                      /\ Directory(m) \in {0} \cup Steps
        BY <1>m DEF Directory
      <4> HIDE DEF d
      <4>4. ASSUME NEW e \in {0} \cup Steps, stored'[e] # NoStep
            PROVE  stored'[e] \in made' /\ Directory(stored[e])' = e
        BY <1>0, <4>1, <4>2, <4>3, <4>4 DEF DynamicInv, Shapes, Filed
      <4>5. ASSUME NEW m \in made' PROVE stored'[Directory(m)'] # NoStep
        BY <1>0, <4>1, <4>2, <4>3 DEF DynamicInv, Shapes, Filed
      <4> QED BY <4>4, <4>5 DEF Filed
    <3>2. CASE ProduceFails(f)
      BY <1>m, <3>2, SameFiles DEF ProduceFails
    <3> QED BY <1>7, <3>1, <3>2
  <2> QED BY <1>m, <2>5, <2>6, <2>9, <2>10, <2>11, <2>12 DEF DynamicInv
<1> QED
  BY <1>1, <1>2, <1>3, <1>4, <1>5, <1>6, <1>7 DEF DynamicNext, Work

\* An instance has its own copy of the library's operators: they are the same.
LEMMA SameLibrary ==
  /\ \A S : Cardinality(S) = Cardinality(S)
  /\ \A S, n : BoundedSeq(S, n) = BoundedSeq(S, n) /\ Contains(S, n) = Contains(S, n)
<1>1. \A S : Cardinality(S) = Cardinality(S)
  BY DEF Cardinality, Cardinality
<1>2. \A S, n : BoundedSeq(S, n) = BoundedSeq(S, n) /\ Contains(S, n) = Contains(S, n)
  BY DEF BoundedSeq, BoundedSeq, SeqOf, SeqOf, Contains, Contains
<1> QED BY <1>1, <1>2

\* The invariant says that everything is accounted for.
LEMMA Accounts ==
  DynamicInv => Accounted
<1> SUFFICES ASSUME DynamicInv PROVE Accounted
  OBVIOUS
<1>1. InWork \in SUBSET Steps /\ On(queue) \in SUBSET Steps /\ Waiting = On(queue)
  BY SameLibrary DEF InWork, DynamicInv, Carried, On, Waiting
<1>2. DynamicTypeOK
  <2>1. queue \in BoundedSeq({Poison} \cup Steps, QueueSize)
    <3>1. /\ queue \in [1..Len(queue) -> {Poison} \cup Steps]
          /\ Len(queue) \in 0..QueueSize
      BY DynamicAssumption DEF DynamicInv, Shapes, Items
    <3> QED BY <3>1 DEF BoundedSeq, SeqOf
  <2>2. dropped \in 0..MaxSteps /\ produced \in 0..MaxSteps
    BY FiniteSteps DEF DynamicInv, Shapes, Counted
  <2> QED BY <2>1, <2>2, SameLibrary DEF DynamicTypeOK, DynamicInv, Shapes, Carried
<1>3. \A n \in made : stored[Directory(n)] \in IF fixed THEN made ELSE {n}
  <2>1. ASSUME NEW n \in made
        PROVE  /\ stored[Directory(n)] \in made
               /\ Directory(stored[Directory(n)]) = Directory(n)
    <3>1. Directory(n) \in {0} \cup Steps
      BY DEF Directory, DynamicInv, Shapes
    <3> QED BY <3>1 DEF DynamicInv, Filed
  <2> QED BY <2>1 DEF Directory
<1>4. ASSUME NEW A \in SUBSET Steps, NEW B \in SUBSET Steps, A \cap B = {}
      PROVE  Cardinality(A \cup B) = Cardinality(A) + Cardinality(B)
  <2>1. IsFiniteSet(A) /\ IsFiniteSet(B) /\ Cardinality(A) \in Nat /\ Cardinality(B) \in Nat
    BY FiniteSteps
  <2>2. Cardinality(A \cup B) = Cardinality(A) + Cardinality(B) - Cardinality(A \cap B)
    BY <2>1, FS_Union
  <2>3. Cardinality(A \cap B) = 0
    BY <1>4, FS_EmptySet
  <2> QED BY <2>1, <2>2, <2>3
<1>5. Cardinality(taken) = Cardinality(Waiting) + Cardinality(InWork)
                             + produced + Cardinality(failed) + dropped
  <2> DEFINE A == failed \cup lost
             B == made \cup A
             C == InWork \cup B
  <2>1. /\ made \in SUBSET Steps /\ failed \in SUBSET Steps /\ lost \in SUBSET Steps
        /\ Apart /\ taken = Waiting \cup C
        /\ produced = Cardinality(made) /\ dropped = Cardinality(lost)
    BY <1>1 DEF DynamicInv, Shapes, Together, Counted
  <2>2. Cardinality(A) = Cardinality(failed) + Cardinality(lost)
    BY <1>4, <2>1 DEF Apart
  <2>3. Cardinality(B) = Cardinality(made) + Cardinality(A)
    BY <1>4, <2>1 DEF Apart
  <2>4. Cardinality(C) = Cardinality(InWork) + Cardinality(B)
    BY <1>1, <1>4, <2>1 DEF Apart
  <2>5. Cardinality(Waiting \cup C) = Cardinality(Waiting) + Cardinality(C)
    BY <1>1, <1>4, <2>1 DEF Apart
  <2>6. /\ Cardinality(made) \in Nat /\ Cardinality(failed) \in Nat /\ Cardinality(lost) \in Nat
        /\ Cardinality(InWork) \in Nat /\ Cardinality(Waiting) \in Nat
    BY <1>1, <2>1, FiniteSteps
  <2> QED BY <2>1, <2>2, <2>3, <2>4, <2>5, <2>6
<1> QED
  BY <1>1, <1>2, <1>3, <1>5, SameLibrary DEF Accounted, DynamicInv, Together, Counted

\* A step submitted is waiting, with a worker, made, failed or dropped, in one
\* place only, the counters say how many, and the directories hold those made.
THEOREM NothingUnaccounted ==
  DynamicSpec => []Accounted
<1>1. DynamicInit => DynamicInv
  BY DynamicStarts
<1>2. DynamicInv /\ [DynamicNext]_dynamicVars => DynamicInv'
  BY DynamicStep
<1>3. DynamicInv => Accounted
  BY Accounts
<1> QED BY <1>1, <1>2, <1>3, PTL DEF DynamicSpec
===============================================================================
