----------------------------- MODULE PrepRunner -----------------------------
(***************************************************************************)
(* The prep graph's runner and its cache on disk                           *)
(* (lighttrain/data/prepgraph).  A recipe is a graph of nodes.  A node's   *)
(* fingerprint covers its configuration and its inputs' fingerprints, not  *)
(* its name; its output is committed to <kind>/<name>/<fp>, staged in      *)
(* tmp/<fp>, and a manifest in the directory is what makes it a hit.  Only *)
(* materialize nodes put their rows on disk: a plain node whose rows a     *)
(* missing descendant needs is executed again.                             *)
(*                                                                         *)
(* One runner at a time uses the store; inside a layer up to Workers nodes *)
(* run at once.  Two nodes of one fingerprint share a staging directory:   *)
(* one may empty it, or rename it, under the other's hands.  Nodes are     *)
(* numbered in topological order and the rows are terms that say what they *)
(* were made from.                                                         *)
(***************************************************************************)
EXTENDS Integers, Sequences, FiniteSets

CONSTANTS N,           \* nodes 1..N
          Graphs,      \* the recipes: [inputs, conf, keeps, memmap]
          Workers,     \* PrepRunner.workers
          MaxRuns,     \* bound: runs and cleanups
          MaxCrashes,  \* bound: deaths of the process
          None

Nodes == 1..N
InputsOf(gr, n) == {gr.inputs[n][i] : i \in DOMAIN gr.inputs[n]}

\* Mutant: the inputs' fingerprints are left out.
FpAlone(gr) == [n \in Nodes |-> <<gr.conf[n], {}>>]

\* compose_fingerprint(): the inputs' fingerprints are sorted.
FpOf(gr) ==
  LET fp[n \in Nodes] == <<gr.conf[n], {fp[m] : m \in InputsOf(gr, n)}>> IN fp

\* What node.run() makes of the inputs' rows, and what the recipe asks for.
Output(gr, n, rows) ==
  <<gr.conf[n], [i \in DOMAIN gr.inputs[n] |-> rows[gr.inputs[n][i]]]>>
ValuesOf(gr) == LET v[n \in Nodes] == Output(gr, n, v) IN v

\* _topo_layers(): the layer is the longest way from a source.
LayerOf(gr) ==
  LET l[n \in Nodes] ==
        IF gr.inputs[n] = <<>> THEN 0
        ELSE 1 + CHOOSE x \in {l[m] : m \in InputsOf(gr, n)} :
                   \A m \in InputsOf(gr, n) : l[m] <= x
  IN l

Fp == [gr \in Graphs |-> FpOf(gr)]
Value == [gr \in Graphs |-> ValuesOf(gr)]
Layer == [gr \in Graphs |-> LayerOf(gr)]

Fps == {Fp[gr][n] : gr \in Graphs, n \in Nodes}
Dirs == {<<n, Fp[gr][n]>> : gr \in Graphs, n \in Nodes}
Empty == [manifest |-> FALSE, rows |-> None]

\* The node shares its fingerprint with no other of its recipe.
Lone(gr, n) == \A m \in Nodes : Fp[gr][m] = Fp[gr][n] => m = n

\* The inputs' fingerprints, as they are written and as they are sorted.
InputFps(gr, n) == [i \in DOMAIN gr.inputs[n] |-> Fp[gr][gr.inputs[n][i]]]
Sorted(gr, n) == {Fp[gr][i] : i \in InputsOf(gr, n)}

\* The fingerprints that say enough: the node is alone in its recipe, what was sorted
\* away is no difference between any two nodes, and none reads from a memmap ...
Clean ==
  {f \in Fps : \A gr, gs \in Graphs : \A m, n \in Nodes : Fp[gr][m] = f /\ Fp[gs][n] = f =>
     /\ Lone(gr, m) /\ InputsOf(gr, m) \cap gr.memmap = {}
     /\ Sorted(gr, m) = Sorted(gs, n) => InputFps(gr, m) = InputFps(gs, n)}

\* ... as do all those that they are computed from.
Closed(S) ==
  \A gr \in Graphs : \A n \in Nodes :
    Fp[gr][n] \in S => \A m \in InputsOf(gr, n) : Fp[gr][m] \in S
Sound == {f \in Fps : \E S \in SUBSET Clean : f \in S /\ Closed(S)}

\* A recipe is acyclic, the kind of a node is part of its configuration, and None
\* neither names a directory nor is one.
ASSUME GraphsAssumption ==
  /\ N \in Nat \ {0} /\ Workers \in Nat \ {0} /\ Graphs # {}
  /\ MaxRuns \in Nat /\ MaxCrashes \in Nat
  /\ \A gr \in Graphs :
       /\ gr.inputs \in [Nodes -> Seq(Nodes)]
       /\ \A n \in Nodes : \A m \in InputsOf(gr, n) : m < n
       /\ gr.memmap \subseteq gr.keeps /\ gr.keeps \subseteq Nodes
  /\ \A gr, gs \in Graphs : \A n, m \in Nodes :
       gr.conf[n] = gs.conf[m] => (n \in gr.keeps <=> m \in gs.keeps)
  /\ None \notin Dirs
  /\ \A gr \in Graphs : \A n \in Nodes : \A m \in BOOLEAN : \A rows \in {None, Value[gr][n]} :
       None # [manifest |-> m, rows |-> rows]

VARIABLES final,    \* <store_root>/<kind>/<name>/<fp>
          tmp,      \* <store_root>/tmp/<fp>
          torn,     \* history: a cleanup died inside a directory
          pc,       \* "idle", "run", "done" or "clean"
          g,        \* the recipe of the run or cleanup
          job,      \* per node: "rest", "todo", "staged", "written",
                    \*           "sealed", "checked", "done" or "failed"
          results,  \* per node: the rows handed to its descendants, or None
          at,       \* the directory the cleanup is removing
          runs, crashes

disk == <<final, tmp, torn>>
vars == <<final, tmp, torn, pc, g, job, results, at, runs, crashes>>

Init ==
  /\ final = [d \in Dirs |-> None] /\ tmp = [f \in Fps |-> None] /\ torn = FALSE
  /\ pc = "idle" /\ g \in Graphs
  /\ job = [n \in Nodes |-> "rest"] /\ results = [n \in Nodes |-> None]
  /\ at = None /\ runs = 0 /\ crashes = 0

Home(gr, n) == <<n, Fp[gr][n]>>
Complete(dir) == dir # None /\ dir.manifest
Hit(gr, n) == Complete(final[Home(gr, n)])

------------------------------------------------------------------------------
(* A run *)

\* Mutant: a plain hit is executed again only for a missing child, not for one
\* that is itself executed again.
ExecuteForMisses(gr) ==
  {n \in Nodes : ~Hit(gr, n) \/ /\ n \notin gr.keeps
                                /\ \E m \in Nodes : n \in InputsOf(gr, m) /\ ~Hit(gr, m)}

\* _compute_runtime_sets(): the misses, and every plain hit on a way to one.
MustExecute(gr) ==
  LET exec[i \in 0..N - 1] ==
        LET n == N - i IN
        \/ ~Hit(gr, n)
        \/ /\ n \notin gr.keeps
           /\ \E j \in 0..i - 1 : n \in InputsOf(gr, N - j) /\ exec[j]
  IN {n \in Nodes : exec[N - n]}

\* _rehydrate_cached(): the rows of a materialised hit that a node about to
\* execute reads; of a memmap only the store is loaded.
Rehydrated(gr, n) ==
  IF /\ n \in gr.keeps \ (MustExecute(gr) \cup gr.memmap)
     /\ \E m \in MustExecute(gr) : n \in InputsOf(gr, m)
  THEN final[Home(gr, n)].rows ELSE None

\* run(): the plan, the sets, and the results already there.
Start(gr) ==
  /\ pc \in {"idle", "done"} /\ runs < MaxRuns
  /\ pc' = "run" /\ g' = gr /\ runs' = runs + 1
  /\ job' = [n \in Nodes |-> IF n \in MustExecute(gr) THEN "todo" ELSE "rest"]
  /\ results' = [n \in Nodes |-> Rehydrated(gr, n)]
  /\ UNCHANGED <<disk, at, crashes>>

Running == {n \in Nodes : job[n] \in {"staged", "written", "sealed", "checked"}}

\* Mutant: waits for the nodes that need not execute, too.
AllLayersRun(n) ==
  \A m \in Nodes : Layer[g][m] < Layer[g][n] => job[m] = "done"

\* A layer starts when the one before has finished.
LayerReady(n) ==
  \A m \in Nodes : Layer[g][m] < Layer[g][n] => job[m] \in {"rest", "done"}

\* A worker takes a node: its staging directory is emptied or made.
Stage(n) ==
  /\ pc = "run" /\ job[n] = "todo" /\ LayerReady(n)
  /\ Cardinality(Running) < Workers
  /\ tmp' = [tmp EXCEPT ![Fp[g][n]] = Empty]
  /\ job' = [job EXCEPT ![n] = "staged"]
  /\ UNCHANGED <<final, torn, pc, g, results, at, runs, crashes>>

\* What mkdir() finds, or makes.
Staging(n) == IF tmp[Fp[g][n]] = None THEN Empty ELSE tmp[Fp[g][n]]

\* node.run(): materialize writes its shards into the staging directory.
Write(n) ==
  /\ pc = "run" /\ job[n] = "staged"
  /\ tmp' = IF n \in g.keeps
            THEN [tmp EXCEPT ![Fp[g][n]] = [Staging(n) EXCEPT !.rows = Output(g, n, results)]]
            ELSE tmp
  /\ job' = [job EXCEPT ![n] = "written"]
  /\ UNCHANGED <<final, torn, pc, g, results, at, runs, crashes>>

\* write_manifest(), last.
Seal(n) ==
  /\ pc = "run" /\ job[n] = "written"
  /\ tmp' = [tmp EXCEPT ![Fp[g][n]] = [Staging(n) EXCEPT !.manifest = TRUE]]
  /\ job' = [job EXCEPT ![n] = "sealed"]
  /\ UNCHANGED <<final, torn, pc, g, results, at, runs, crashes>>

\* commit(): the staging directory has its manifest ...
CheckStaging(n) ==
  /\ pc = "run" /\ job[n] = "sealed" /\ Complete(tmp[Fp[g][n]])
  /\ job' = [job EXCEPT ![n] = "checked"]
  /\ UNCHANGED <<disk, pc, g, results, at, runs, crashes>>

\* What a directory may be after rmtree() has taken one more thing from it.
Remains(dir) ==
  (IF dir = Empty THEN {None} ELSE {})
    \cup (IF dir.manifest THEN {[dir EXCEPT !.manifest = FALSE]} ELSE {})
    \cup (IF dir.rows # None THEN {[dir EXCEPT !.rows = None]} ELSE {})

\* ... what stands in the way is removed ...
Clear(n) ==
  /\ pc = "run" /\ job[n] = "checked"
  /\ final[Home(g, n)] # None
  /\ \E rest \in Remains(final[Home(g, n)]) :
       final' = [final EXCEPT ![Home(g, n)] = rest]
  /\ UNCHANGED <<tmp, torn, pc, g, job, results, at, runs, crashes>>

\* ... and the staging directory is renamed, whatever is in it by now.
Replace(n) ==
  /\ pc = "run" /\ job[n] = "checked"
  /\ final[Home(g, n)] = None /\ tmp[Fp[g][n]] # None
  /\ final' = [final EXCEPT ![Home(g, n)] = tmp[Fp[g][n]]]
  /\ tmp' = [tmp EXCEPT ![Fp[g][n]] = None]
  /\ job' = [job EXCEPT ![n] = "done"]
  /\ results' = [results EXCEPT ![n] = Output(g, n, results)]
  /\ UNCHANGED <<torn, pc, g, at, runs, crashes>>

\* Another node of the fingerprint was in the staging directory: a shard or the
\* manifest cannot be written, commit() refuses, or there is nothing to rename.
Raise(n) ==
  /\ pc = "run"
  /\ \/ job[n] \in {"staged", "written"}
        /\ \E m \in Running \ {n} : Fp[g][m] = Fp[g][n]
     \/ job[n] = "sealed" /\ ~Complete(tmp[Fp[g][n]])
     \/ job[n] = "checked" /\ final[Home(g, n)] = None /\ tmp[Fp[g][n]] = None
  /\ job' = [job EXCEPT ![n] = "failed"]
  /\ UNCHANGED <<disk, pc, g, results, at, runs, crashes>>

\* The executor waits for the rest of the layer before the exception is raised.
AbortRun ==
  /\ pc = "run" /\ Running = {}
  /\ \E n \in Nodes : /\ job[n] = "failed"
                      /\ \A m \in Nodes : Layer[g][m] = Layer[g][n] => job[m] # "todo"
  /\ pc' = "idle"
  /\ job' = [n \in Nodes |-> "rest"] /\ results' = [n \in Nodes |-> None]
  /\ UNCHANGED <<disk, g, at, runs, crashes>>

EndRun ==
  /\ pc = "run" /\ \A n \in Nodes : job[n] \in {"rest", "done"}
  /\ pc' = "done"
  /\ UNCHANGED <<disk, g, job, results, at, runs, crashes>>

------------------------------------------------------------------------------
(* prep-clean --orphans, and deaths *)

StartClean(gr) ==
  /\ pc \in {"idle", "done"} /\ runs < MaxRuns
  /\ pc' = "clean" /\ g' = gr /\ runs' = runs + 1
  /\ UNCHANGED <<disk, job, results, at, crashes>>

Live(gr) == {Home(gr, n) : n \in Nodes}

\* Mutant: only the terminal's own directory counts as live.
OrphansOfTerminal ==
  {d \in Dirs : final[d] # None /\ d # Home(g, N)}

Orphans == {d \in Dirs : final[d] # None /\ d \notin Live(g)}

\* cleanup_orphans(): directory by directory, file by file.
Remove(d) ==
  /\ pc = "clean" /\ d \in Orphans /\ at \in {None, d}
  /\ \E rest \in Remains(final[d]) :
       /\ final' = [final EXCEPT ![d] = rest]
       /\ at' = IF rest = None THEN None ELSE d
  /\ UNCHANGED <<tmp, torn, pc, g, job, results, runs, crashes>>

\* cleanup_staging(): staging directories without a manifest go too.
EndClean ==
  /\ pc = "clean" /\ Orphans = {}
  /\ tmp' = [f \in Fps |-> IF Complete(tmp[f]) THEN tmp[f] ELSE None]
  /\ pc' = "idle"
  /\ UNCHANGED <<final, torn, g, job, results, at, runs, crashes>>

\* The process is killed, or a node raises for a reason of its own, the rest of its
\* layer is over, and the run ends.
Crash ==
  /\ pc \in {"run", "clean"} /\ crashes < MaxCrashes
  /\ pc' = "idle" /\ crashes' = crashes + 1
  /\ torn' = (torn \/ at # None) /\ at' = None
  /\ job' = [n \in Nodes |-> "rest"] /\ results' = [n \in Nodes |-> None]
  /\ UNCHANGED <<final, tmp, g, runs>>

RunStep ==
  \/ \E n \in Nodes : \/ Stage(n) \/ Write(n) \/ Seal(n)
                     \/ CheckStaging(n) \/ Clear(n) \/ Replace(n) \/ Raise(n)
  \/ EndRun \/ AbortRun

Next ==
  \/ \E gr \in Graphs : Start(gr) \/ StartClean(gr)
  \/ RunStep
  \/ \E d \in Dirs : Remove(d)
  \/ EndClean
  \/ Crash

Spec == Init /\ [][Next]_vars /\ WF_vars(RunStep)

------------------------------------------------------------------------------
IsDirectory(x) ==
  x # None => DOMAIN x = {"manifest", "rows"} /\ x.manifest \in BOOLEAN

\* (Rows are terms of any depth and have no type of their own.)
TypeOK ==
  /\ DOMAIN final = Dirs /\ \A d \in Dirs : IsDirectory(final[d])
  /\ DOMAIN tmp = Fps /\ \A f \in Fps : IsDirectory(tmp[f])
  /\ torn \in BOOLEAN
  /\ pc \in {"idle", "run", "done", "clean"} /\ g \in Graphs
  /\ job \in [Nodes -> {"rest", "todo", "staged", "written",
                       "sealed", "checked", "done", "failed"}]
  /\ DOMAIN results = Nodes
  /\ at \in {None} \cup Dirs /\ (at # None => pc = "clean")
  /\ runs \in 0..MaxRuns /\ crashes \in 0..MaxCrashes

\* A directory with a manifest holds exactly the rows its recipe asks for, in
\* every recipe that would find it, wherever the process died: a run never
\* trains on a partial or a stale cache.  (Once a cleanup has been killed inside
\* a directory this is no longer so: what it leaves may still be a hit.  And a node
\* is covered only if its fingerprint, and all it is computed from, says enough.)
ManifestMeansWhole ==
  \A gr \in Graphs : \A n \in gr.keeps :
    LET d == Home(gr, n) IN
    Fp[gr][n] \in Sound /\ ~torn /\ Complete(final[d]) /\ d # at
      => final[d].rows = Value[gr][n]

\* A run that ended leaves a hit for every node that had its staging directory to
\* itself.  Where the fingerprints say enough, whatever else is in the recipe, it
\* leaves the recipe's own rows in every materialised directory, and every node
\* that executed gave its descendants the rows the recipe asks for, although some
\* of its ancestors were only read back from disk.
RunMakesRecipe ==
  /\ TypeOK
  /\ pc = "done" => \A n \in Nodes :
       /\ Lone(g, n) => Hit(g, n)
       /\ Fp[g][n] \in Sound /\ ~torn =>
            /\ n \in g.keeps => final[Home(g, n)].rows = Value[g][n]
            /\ job[n] = "done" => results[n] = Value[g][n]

\* The rows of a finished materialize node are neither recomputed nor removed
\* while a recipe in use refers to them: only a cleanup for another recipe
\* takes them.
CachedRowsStay ==
  [][\A gr \in Graphs : \A n \in gr.keeps :
       LET d == Home(gr, n) IN
       Complete(final[d]) /\ final'[d] # final[d]
         => pc = "clean" /\ d \notin Live(g)]_vars

\* Every run ends: the layers never wait for each other.
RunEnds == pc = "run" ~> pc # "run"
==============================================================================
