-------------------------------- MODULE Lineage --------------------------------
(***************************************************************************)
(* observability/lineage: the rows of one kind and name in lineage.sqlite, *)
(* written by the recorder callback of a training run, tagged and pinned   *)
(* from the command line, and collected in two passes with the files they  *)
(* name.  Every statement commits on its own, so the processes interleave  *)
(* between statements.  A row's number is its id: AUTOINCREMENT gives none *)
(* out twice, and a later row has a later ts.                              *)
(***************************************************************************)
EXTENDS Integers, FiniteSets, FiniteSetsExt

CONSTANTS
  Versions,    \* versions of the artifact or checkpoint
  Directories, \* those whose payload_path is a directory: an artifact's is, a
               \* checkpoint's is its manifest
  Policies,    \* retention policies: [last, best, ttl], 0 for none
  Scores,      \* metric values of an evaluation
  MaxRows,     \* bound: rows ever inserted
  MaxDay,      \* bound: the clock, in days
  MaxCommands, \* bound: collections, evaluations and commands of the user
  None

ASSUME LineageAssumption ==
  /\ Directories \subseteq Versions
  /\ MaxRows \in Nat /\ MaxDay \in Nat /\ MaxCommands \in Nat /\ Scores \subseteq Nat /\ None \notin Nat
  /\ \A p \in Policies : p.last \in Nat /\ p.best \in BOOLEAN /\ p.ttl \in Nat

Ids == 1..MaxRows
Run == 0              \* the node of the run, and that of its evaluation
Eval == MaxRows + 1

VARIABLES
  policy,     \* the policy every collection uses
  day,        \* the clock; a deprecated row has one day of grace
  nodes,      \* the rows: id to record
  nextId,     \* the next id
  edges,      \* [src, dst, kind, score]
  files,      \* versions whose payload_path exists
  recorder,   \* the recorder: idle, before its upsert, before its edge, or
              \* "failed" when the database refused
  gc,         \* gc_artifacts(): None or its state
  prune,      \* prune_orphans(): the ids still to look at
  commands,   \* commands so far
  strays      \* history: versions on disk that may have no row: never recorded, recorded
              \* under a row a collection had on its list, or not removed with theirs

vars == <<policy, day, nodes, nextId, edges, files, recorder, gc, prune, commands,
          strays>>
database == <<nodes, nextId, edges>>

Idle == [at |-> "idle", arg |-> None]

Init ==
  /\ policy \in Policies /\ day = 0
  /\ nodes = [i \in {} |-> None] /\ nextId = 1 /\ edges = {} /\ files = {}
  /\ recorder = Idle /\ gc = None /\ prune = {} /\ commands = 0 /\ strays = {}

Find(v) == {i \in DOMAIN nodes : nodes[i].version = v}
Exists(i) == i \in DOMAIN nodes \cup {Run, Eval}
Set(i, r) == nodes' = [nodes EXCEPT ![i] = r]
Command == commands < MaxCommands /\ commands' = commands + 1
Without(f, i) == [j \in DOMAIN f \ {i} |-> f[j]]

Tick ==
  /\ day < MaxDay /\ day' = day + 1
  /\ UNCHANGED <<policy, commands, database, files, recorder, gc, prune, strays>>
------------------------------------------------------------------------------
(* The recorder, and the producer, which writes the same rows.             *)

\* The checkpoint manager or the artifact store puts the files in place.
Save(v) ==
  /\ recorder = Idle
  /\ files' = files \cup {v} /\ recorder' = [at |-> "upsert", arg |-> v]
  /\ UNCHANGED <<policy, commands, day, database, gc, prune, strays>>

\* upsert_node(): a row that is there keeps its ts, tags and deprecation.
UpsertUnder(id) ==
  /\ recorder.at = "upsert"
  /\ LET v == recorder.arg IN
     /\ IF Find(v) # {}
        THEN /\ recorder' = [at |-> "edge", arg |-> CHOOSE i \in Find(v) : TRUE]
             /\ UNCHANGED <<nodes, nextId>>
        ELSE /\ id \in Ids
             /\ nodes' = [i \in DOMAIN nodes \cup {id} |->
                  IF i = id
                  THEN [version |-> v, ts |-> day, tagged |-> FALSE, pinned |-> FALSE,
                        deprecated |-> None]
                  ELSE nodes[i]]
             /\ nextId' = IF id = nextId THEN id + 1 ELSE nextId
             /\ recorder' = [at |-> "edge", arg |-> id]
     /\ strays' = IF gc # None /\ recorder'.arg \in gc.todo
                  THEN strays \cup {v} ELSE strays \ {v}
  /\ UNCHANGED <<policy, commands, day, edges, files, gc, prune>>

\* Mutant: the ids are not AUTOINCREMENT, and one that is free is used again.
UpsertReusesId == UpsertUnder(Max(DOMAIN nodes \cup {0}) + 1)

Upsert == UpsertUnder(nextId)

AddEdge(e) == edges' = edges \cup {e}

\* add_edge() of produced_by: refused when the row has gone in between, and
\* the critical recorder takes the run down.
ProducedBy ==
  /\ recorder.at = "edge"
  /\ IF Exists(recorder.arg)
     THEN /\ AddEdge([src |-> Run, dst |-> recorder.arg, kind |-> "produced_by", score |-> 0])
          /\ recorder' = Idle
     ELSE recorder' = [at |-> "failed", arg |-> None] /\ UNCHANGED edges
  /\ UNCHANGED <<policy, commands, day, nodes, nextId, files, gc, prune, strays>>

\* The run dies and is started again.
RestartRun ==
  /\ recorder # Idle /\ recorder' = Idle
  /\ strays' = IF recorder.at = "upsert" THEN strays \cup {recorder.arg} ELSE strays
  /\ UNCHANGED <<policy, commands, day, database, files, gc, prune>>

\* GenerationEvalTask._write_lineage_edge(): from what is judged to the judge.
Evaluate(i, x) ==
  /\ Command
  /\ i \in DOMAIN nodes
  /\ AddEdge([src |-> i, dst |-> Eval, kind |-> "evaluated_by", score |-> x])
  /\ edges' # edges
  /\ UNCHANGED <<policy, day, nodes, nextId, files, recorder, gc, prune, strays>>

\* The checkpoint manager's own retention, which the database is not told of.
Forget(v) ==
  /\ v \in files /\ recorder # [at |-> "upsert", arg |-> v]
  /\ files' = files \ {v} /\ strays' = strays \ {v}
  /\ UNCHANGED <<policy, commands, day, database, recorder, gc, prune>>
------------------------------------------------------------------------------
(* The command line: tag, untag, pin, unpin, invalidate.                   *)

Tag(i, on) ==
  /\ Command
  /\ i \in DOMAIN nodes /\ nodes[i].tagged # on /\ Set(i, [nodes[i] EXCEPT !.tagged = on])
  /\ UNCHANGED <<policy, day, nextId, edges, files, recorder, gc, prune, strays>>

Pin(i, on) ==
  /\ Command
  /\ i \in DOMAIN nodes /\ nodes[i].pinned # on /\ Set(i, [nodes[i] EXCEPT !.pinned = on])
  /\ UNCHANGED <<policy, day, nextId, edges, files, recorder, gc, prune, strays>>

Deprecated(r) == [r EXCEPT !.deprecated = day]

Invalidate(i) ==
  /\ Command
  /\ i \in DOMAIN nodes /\ nodes[i].deprecated # day /\ Set(i, Deprecated(nodes[i]))
  /\ UNCHANGED <<policy, day, nextId, edges, files, recorder, gc, prune, strays>>

\* Mutant: the connection is opened without foreign_keys=ON.
DeleteRowOnly(i) ==
  nodes' = Without(nodes, i) /\ UNCHANGED edges

\* delete_node(), with the cascade to its edges.
DeleteNode(i) ==
  nodes' = Without(nodes, i) /\ edges' = {e \in edges : i \notin {e.src, e.dst}}
------------------------------------------------------------------------------
(* gc_artifacts(): it reads the rows once, then works them off.            *)

Newest(n) == {i \in DOMAIN nodes : Cardinality({j \in DOMAIN nodes : j > i}) < n}

\* _keep_best_by_metric(): the metric of the edges that lead to the row.
BestScored ==
  LET scored == {e \in edges : e.kind = "evaluated_by" /\ e.dst \in DOMAIN nodes}
  IN {e.dst : e \in {x \in scored : \A y \in scored : y.score <= x.score}}

\* Mutant: pins do not count.
KeptUnpinned ==
  Newest(policy.last)
    \cup {i \in DOMAIN nodes : nodes[i].tagged}
    \cup (IF policy.best THEN BestScored ELSE {})

Kept ==
  Newest(policy.last)
    \cup {i \in DOMAIN nodes : nodes[i].tagged \/ nodes[i].pinned}
    \cup (IF policy.best THEN BestScored ELSE {})

Doomed ==
  {i \in DOMAIN nodes \ Kept :
     \/ policy.ttl # 0 /\ day - nodes[i].ts > policy.ttl
     \/ ~(policy.last = 0 /\ policy.ttl = 0)}

GcStart ==
  /\ Command
  /\ gc = None
  /\ gc' = [snap |-> nodes, todo |-> Doomed, now |-> day, sweeping |-> FALSE]
  /\ UNCHANGED <<policy, day, database, files, recorder, prune, strays>>

Current == Max(gc.todo)
Done == gc' = [gc EXCEPT !.todo = @ \ {Current}, !.sweeping = FALSE]

\* First pass: deprecate.
GcMark ==
  /\ gc # None /\ gc.todo # {} /\ ~gc.sweeping
  /\ gc.snap[Current].deprecated = None
  /\ IF Current \in DOMAIN nodes THEN Set(Current, Deprecated(nodes[Current])) ELSE UNCHANGED nodes
  /\ Done
  /\ UNCHANGED <<policy, commands, day, nextId, edges, files, recorder, prune, strays>>

Due(i) == gc.snap[i].deprecated # None /\ gc.now - gc.snap[i].deprecated >= 1

\* Deprecated, and within the grace period.
GcWait ==
  /\ gc # None /\ gc.todo # {} /\ ~gc.sweeping
  /\ gc.snap[Current].deprecated # None /\ ~Due(Current)
  /\ Done
  /\ UNCHANGED <<policy, commands, day, database, files, recorder, prune, strays>>

\* Mutant: the row goes first, then the files.
GcRemoveRowFirst(removed) ==
  /\ gc # None /\ gc.todo # {} /\ ~gc.sweeping /\ Due(Current)
  /\ DeleteNode(Current)
  /\ gc' = [gc EXCEPT !.sweeping = TRUE]
  /\ UNCHANGED <<policy, commands, day, nextId, files, recorder, prune, strays>>

\* Second pass: the files at the path the row had, then the row.  rmtree()
\* ignores its errors, and a path that is a file is one.
GcRemoveFiles(removed) ==
  /\ gc # None /\ gc.todo # {} /\ ~gc.sweeping /\ Due(Current)
  /\ LET v == gc.snap[Current].version IN
     /\ removed => v \in Directories
     /\ files' = IF removed THEN files \ {v} ELSE files
     /\ strays' = IF v \in files' THEN strays \cup {v} ELSE strays \ {v}
  /\ gc' = [gc EXCEPT !.sweeping = TRUE]
  /\ UNCHANGED <<policy, commands, day, database, recorder, prune>>

GcRemoveRow ==
  /\ gc # None /\ gc.sweeping
  /\ DeleteNode(Current) /\ Done
  /\ UNCHANGED <<policy, commands, day, nextId, files, recorder, prune, strays>>

\* It ends, or dies anywhere.
GcEnd ==
  /\ gc # None /\ gc' = None
  /\ UNCHANGED <<policy, commands, day, database, files, recorder, prune, strays>>
------------------------------------------------------------------------------
(* prune_orphans(): row by row, those whose files are gone.                *)

PruneStart ==
  /\ Command
  /\ prune = {} /\ prune' = DOMAIN nodes /\ prune' # {}
  /\ UNCHANGED <<policy, day, database, files, recorder, gc, strays>>

PruneNext ==
  /\ prune # {} /\ prune' = prune \ {Min(prune)}
  /\ IF Min(prune) \in DOMAIN nodes /\ nodes[Min(prune)].version \notin files
     THEN DeleteNode(Min(prune)) ELSE UNCHANGED <<nodes, edges>>
  /\ UNCHANGED <<policy, commands, day, nextId, files, recorder, gc, strays>>

Next ==
  \/ Tick
  \/ \E v \in Versions : Save(v) \/ Forget(v)
  \/ Upsert \/ ProducedBy \/ RestartRun
  \/ \E i \in Ids, x \in Scores : Evaluate(i, x)
  \/ \E i \in Ids, on \in BOOLEAN : Tag(i, on) \/ Pin(i, on)
  \/ \E i \in Ids : Invalidate(i)
  \/ GcStart \/ GcMark \/ GcWait \/ GcRemoveRow \/ GcEnd
  \/ \E removed \in BOOLEAN : GcRemoveFiles(removed)
  \/ PruneStart \/ PruneNext

Spec == Init /\ [][Next]_vars
------------------------------------------------------------------------------
TypeOK ==
  /\ DOMAIN nodes \subseteq 1..(nextId - 1) /\ nextId \in 1..(MaxRows + 1)
  /\ files \subseteq Versions /\ strays \subseteq Versions
  /\ \A i \in DOMAIN nodes : nodes[i].deprecated \in {None} \cup 0..day
  /\ \A i, j \in DOMAIN nodes : nodes[i].version = nodes[j].version => i = j

\* Every edge joins two rows, whoever deletes rows between the recorder's
\* upsert and its edge.
NoDanglingEdges == \A e \in edges : Exists(e.src) /\ Exists(e.dst)

\* Files on disk are known to the database, so that a collection can find
\* them, wherever a recorder or a collection dies: unless it was the recorder
\* between saving and recording, or the files were saved again under a row on
\* a collection's list, or rmtree() could not remove what it was given.
NothingLeaks ==
  /\ TypeOK
  /\ \A v \in files : \/ Find(v) # {}
                      \/ recorder = [at |-> "upsert", arg |-> v]
                      \/ v \in strays

Collecting == gc # None /\ gc' # None /\ gc' # gc
Deleted(i) == i \in DOMAIN nodes /\ i \notin DOMAIN nodes'

\* A collection deletes a row that it read as marked on an earlier day, and
\* which is that row still and still marked: not one it has marked itself, nor
\* one inserted in the place of a row that others have deleted meanwhile.  Only
\* a mark renewed since the collection read the row may be of today.
GraceGiven ==
  [][Collecting => \A i \in Ids : Deleted(i) =>
       LET read == gc.snap[i] IN
         /\ nodes[i].version = read.version
         /\ nodes[i].deprecated # None /\ read.deprecated # None
         /\ nodes[i].deprecated < day \/ nodes[i].deprecated > read.deprecated]_vars

\* A row that was pinned when the collection began is not deleted by it, nor
\* is one inserted since, whatever version it has.
PinnedSurvives ==
  [][Collecting => \A i \in Ids :
       Deleted(i) => i \in DOMAIN gc.snap /\ ~gc.snap[i].pinned]_vars
===============================================================================
