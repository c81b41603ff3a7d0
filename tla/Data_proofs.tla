------------------------------ MODULE Data_proofs ------------------------------
(***************************************************************************)
(* The data of a run.  First the store of the prep graph, for every set of *)
(* recipes, any number of workers, runs, cleanups and deaths: what has a   *)
(* manifest is whole, and a run that reads part of its recipe back makes   *)
(* what a fresh one would, where the fingerprints say enough.  Then the    *)
(* place of a run in its data, for every size of dataset and batch, depth  *)
(* of prefetch, number of epochs and of deaths.                            *)
(*                                                                         *)
(* The two components share no state and are not composed here.            *)
(***************************************************************************)
EXTENDS PrepRunner, DataPosition, FiniteSetTheorems, WellFoundedInduction, TLAPS

------------------------------------------------------------------------------
(* The inductive invariant                                                 *)

\* What the directory of a node has for rows.
Made(gr, n) == IF n \in gr.keeps THEN Value[gr][n] ELSE None

Sure(gr, n) == Fp[gr][n] \in Sound

\* A node that is done with, or need not execute, is a hit, unless another has been in
\* its staging directory; a materialize node that has yet to execute is none; its
\* inputs are done with before it starts.
Planned == pc \in {"run", "done"} => \A n \in Nodes :
  /\ job[n] = "rest" => Hit(g, n)
  /\ job[n] = "done" /\ Lone(g, n) => Hit(g, n)
  /\ job[n] \notin {"rest", "done"} => pc = "run" /\ (n \in g.keeps => ~Hit(g, n))
  /\ n \in Running => \A m \in InputsOf(g, n) : job[m] \in {"rest", "done"}

\* What the staging directory of a node holds, when it is the node's own.
Holds(dir, n, stage) ==
  /\ stage = "checked" => Complete(dir)
  /\ Sure(g, n) /\ ~torn =>
       /\ stage = "staged" => dir = Empty
       /\ stage = "written" => dir = [manifest |-> FALSE, rows |-> Made(g, n)]
       /\ stage \in {"sealed", "checked"} => dir = [manifest |-> TRUE, rows |-> Made(g, n)]
Staged == pc = "run" => \A n \in Nodes : Lone(g, n) => Holds(tmp[Fp[g][n]], n, job[n])

\* The rows that a node about to execute will read, where they can be told.
Read(n) == \E m \in Nodes : Sure(g, m) /\ n \in InputsOf(g, m) /\ job[m] # "rest"
InHand == pc \in {"run", "done"} /\ ~torn => \A n \in Nodes :
  (job[n] = "done" /\ Sure(g, n)) \/ (job[n] = "rest" /\ Read(n))
    => results[n] = Value[g][n]

\* The directory a cleanup is inside of is there and is an orphan.
Cleaning == at # None => final[at] # None /\ at \notin Live(g)

IInv == TypeOK /\ ManifestMeansWhole /\ Planned /\ Staged /\ InHand /\ Cleaning

------------------------------------------------------------------------------
(* Lemmas on the operators                                                 *)

\* A set of numbers with a bound has a largest one.
LEMMA LargestExists ==
  ASSUME NEW b \in Nat, NEW S \in SUBSET (0..b), S # {}
  PROVE  \E n \in S : \A m \in S : m <= n
<1> DEFINE T == {b - n : n \in S}
           R == {ss \in Nat \X Nat : ss[1] < ss[2]}
<1>1. T \subseteq Nat /\ T # {}
  <2>1. T \subseteq Nat
    OBVIOUS
  <2>2. T # {}
    OBVIOUS
  <2> QED BY <2>1, <2>2
<1>2. IsWellFoundedOn(R, Nat)
  <2>1. OpToRel(<, Nat) = R
    BY Zenon DEF OpToRel
  <2> QED BY <2>1, NatLessThanWellFounded
<1>3. PICK x \in T : \A y \in T : ~(<<y, x>> \in R)
  <2> HIDE DEF R
  <2> QED BY <1>1, <1>2, WFMin
<1>4. PICK n \in S : x = b - n
  OBVIOUS
<1>5. ASSUME NEW m \in S PROVE m <= n
  <2>1. b - m \in T /\ <<b - m, x>> \in Nat \X Nat
    BY <1>1, <1>3
  <2>2. ~(b - m < x)
    <3>1. <<b - m, x>> \notin R
      BY <1>3, <2>1
    <3>2. <<b - m, x>>[1] = b - m /\ <<b - m, x>>[2] = x
      OBVIOUS
    <3> QED BY <2>1, <3>1, <3>2
  <2> QED BY <1>4, <2>2
<1> QED BY <1>5

------------------------------------------------------------------------------
(* What the recursive functions of a recipe are.  Each is the choice of a  *)
(* solution of its equation: that there is one follows by taking the       *)
(* largest part of the recipe that has one, and going on by a node.        *)

\* The inputs of a node are earlier nodes.
LEMMA EarlierInputs ==
  ASSUME NEW gr \in Graphs, NEW n \in Nodes
  PROVE  /\ gr.inputs[n] \in Seq(Nodes)
         /\ InputsOf(gr, n) \subseteq 1..n - 1 /\ InputsOf(gr, n) \subseteq Nodes
         /\ \A i \in DOMAIN gr.inputs[n] : gr.inputs[n][i] \in InputsOf(gr, n)
<1>1. gr.inputs[n] \in Seq(Nodes) /\ \A m \in InputsOf(gr, n) : m < n
  BY GraphsAssumption
<1>2. \A i \in DOMAIN gr.inputs[n] : gr.inputs[n][i] \in Nodes
  BY <1>1
<1>3. InputsOf(gr, n) \subseteq Nodes
  BY <1>2 DEF InputsOf
<1>4. InputsOf(gr, n) \subseteq 1..n - 1
  BY <1>1, <1>3, GraphsAssumption DEF Nodes
<1>5. \A i \in DOMAIN gr.inputs[n] : gr.inputs[n][i] \in InputsOf(gr, n)
  BY DEF InputsOf
<1> QED BY <1>1, <1>3, <1>4, <1>5

\* Fingerprint, rows and layer of a node, given those of its inputs.
FpOn(gr, f, n) == <<gr.conf[n], {f[m].fp : m \in InputsOf(gr, n)}>>
ValueOn(gr, f, n) ==
  <<gr.conf[n], [i \in DOMAIN gr.inputs[n] |-> f[gr.inputs[n][i]].value]>>
LayerOn(gr, f, n) ==
  IF gr.inputs[n] = <<>> THEN 0
  ELSE 1 + CHOOSE x \in {f[m].layer : m \in InputsOf(gr, n)} :
             \A m \in InputsOf(gr, n) : f[m].layer <= x
All(gr, f, n) == [fp |-> FpOn(gr, f, n), value |-> ValueOn(gr, f, n),
                  layer |-> LayerOn(gr, f, n)]

\* They depend on the inputs alone.
LEMMA OnInputs ==
  ASSUME NEW gr \in Graphs, NEW n \in Nodes, NEW f, NEW h,
         \A m \in InputsOf(gr, n) : h[m] = f[m]
  PROVE  All(gr, h, n) = All(gr, f, n)
<1>1. {h[m].fp : m \in InputsOf(gr, n)} = {f[m].fp : m \in InputsOf(gr, n)}
  OBVIOUS
<1>2. [i \in DOMAIN gr.inputs[n] |-> h[gr.inputs[n][i]].value]
        = [i \in DOMAIN gr.inputs[n] |-> f[gr.inputs[n][i]].value]
  BY EarlierInputs
<1>3. {h[m].layer : m \in InputsOf(gr, n)} = {f[m].layer : m \in InputsOf(gr, n)}
  OBVIOUS
<1>4. ASSUME NEW x
      PROVE  /\ x \in {h[m].layer : m \in InputsOf(gr, n)}
             /\ \A m \in InputsOf(gr, n) : h[m].layer <= x
         <=> /\ x \in {f[m].layer : m \in InputsOf(gr, n)}
             /\ \A m \in InputsOf(gr, n) : f[m].layer <= x
  BY <1>3
<1>5. (CHOOSE x \in {h[m].layer : m \in InputsOf(gr, n)} :
         \A m \in InputsOf(gr, n) : h[m].layer <= x)
        = CHOOSE x \in {f[m].layer : m \in InputsOf(gr, n)} :
            \A m \in InputsOf(gr, n) : f[m].layer <= x
  BY <1>4, Zenon
<1>6. FpOn(gr, h, n) = FpOn(gr, f, n)
  BY <1>1 DEF FpOn
<1>7. ValueOn(gr, h, n) = ValueOn(gr, f, n)
  BY <1>2 DEF ValueOn
<1>8. LayerOn(gr, h, n) = LayerOn(gr, f, n)
  <2> DEFINE top(l) == CHOOSE x \in {l[m].layer : m \in InputsOf(gr, n)} :
                         \A m \in InputsOf(gr, n) : l[m].layer <= x
  <2>1. top(h) = top(f)
    BY <1>5
  <2>2. \A l : LayerOn(gr, l, n) = IF gr.inputs[n] = <<>> THEN 0 ELSE 1 + top(l)
    BY DEF LayerOn
  <2> HIDE DEF top
  <2> QED BY <2>1, <2>2
<1> QED BY <1>6, <1>7, <1>8 DEF All

\* Of every recipe they can be computed.
LEMMA Computed ==
  ASSUME NEW gr \in Graphs
  PROVE  \E f : f = [n \in Nodes |-> All(gr, f, n)]
<1> DEFINE Is(f, k) == f = [n \in 1..k |-> All(gr, f, n)]
           S == {k \in 0..N : \E f : Is(f, k)}
<1>1. 0 \in S
  <2>1. Is([n \in 1..0 |-> 0], 0)
    OBVIOUS
  <2> HIDE DEF Is
  <2>2. 0 \in 0..N
    BY GraphsAssumption
  <2> QED BY <2>1, <2>2
<1>2. PICK k \in S : \A j \in S : j <= k
  <2> HIDE DEF S
  <2>1. S \in SUBSET (0..N) /\ S # {} /\ N \in Nat
    BY <1>1, GraphsAssumption DEF S
  <2> QED BY <2>1, LargestExists
<1>3. PICK f : Is(f, k)
  BY <1>2
<1> HIDE DEF Is
<1>4. CASE k = N
  BY <1>3, <1>4 DEF Is, Nodes
<1>5. CASE k # N
  <2> DEFINE h == [n \in 1..k + 1 |-> IF n = k + 1 THEN All(gr, f, n) ELSE f[n]]
  <2>1. k + 1 \in Nodes /\ k \in Nat /\ N \in Nat /\ k + 1 \in 0..N
    BY <1>2, <1>5, GraphsAssumption DEF Nodes
  <2>2. ASSUME NEW n \in 1..k + 1 PROVE All(gr, h, n) = All(gr, f, n)
    <3>1. n \in Nodes
      BY <2>1 DEF Nodes
    <3>2. InputsOf(gr, n) \subseteq 1..n - 1
      BY <3>1, EarlierInputs
    <3>3. \A m \in InputsOf(gr, n) : h[m] = f[m]
      BY <2>1, <3>2
    <3> HIDE DEF h
    <3> QED BY <3>1, <3>3, OnInputs
  <2>3. ASSUME NEW n \in 1..k + 1 PROVE h[n] = All(gr, h, n)
    <3>1. CASE n = k + 1
      <4>1. h[n] = All(gr, f, n)
        BY <3>1
      <4> HIDE DEF h
      <4> QED BY <4>1, <2>2
    <3>2. CASE n # k + 1
      <4>1. n \in 1..k
        BY <2>1, <3>2
      <4>2. h[n] = f[n]
        BY <2>1, <3>2
      <4>3. f[n] = All(gr, f, n)
        BY <1>3, <4>1 DEF Is
      <4> HIDE DEF h
      <4> QED BY <4>2, <4>3, <2>2
    <3> QED BY <3>1, <3>2
  <2>4. h = [n \in 1..k + 1 |-> h[n]]
    OBVIOUS
  <2> HIDE DEF h
  <2>5. [n \in 1..k + 1 |-> h[n]] = [n \in 1..k + 1 |-> All(gr, h, n)]
    BY <2>3, Zenon
  <2>6. Is(h, k + 1)
    BY <2>4, <2>5 DEF Is
  <2>7. k + 1 <= k
    BY <1>2, <2>1, <2>6
  <2> QED BY <2>1, <2>7
<1> QED BY <1>4, <1>5

\* A fingerprint is of the configuration and the inputs' fingerprints.
LEMMA FpIs ==
  ASSUME NEW gr \in Graphs, NEW n \in Nodes
  PROVE  Fp[gr][n] = <<gr.conf[n], {Fp[gr][m] : m \in InputsOf(gr, n)}>>
<1>1. PICK f : f = [k \in Nodes |-> All(gr, f, k)]
  BY Computed
<1> DEFINE p == [k \in Nodes |-> f[k].fp]
<1>2. p = [k \in Nodes |-> <<gr.conf[k], {p[m] : m \in InputsOf(gr, k)}>>]
  <2>1. ASSUME NEW k \in Nodes PROVE p[k] = <<gr.conf[k], {p[m] : m \in InputsOf(gr, k)}>>
    <3>1. p[k] = FpOn(gr, f, k)
      BY <1>1 DEF All
    <3>2. \A m \in InputsOf(gr, k) : p[m] = f[m].fp
      BY EarlierInputs
    <3> HIDE DEF p
    <3> QED BY <3>1, <3>2 DEF FpOn
  <2>2. p = [k \in Nodes |-> p[k]]
    OBVIOUS
  <2> HIDE DEF p
  <2> QED BY <2>1, <2>2, Zenon
<1> HIDE DEF p
<1>3. FpOf(gr) = [k \in Nodes |-> <<gr.conf[k], {FpOf(gr)[m] : m \in InputsOf(gr, k)}>>]
  BY <1>2 DEF FpOf
<1>4. Fp[gr] = FpOf(gr)
  BY DEF Fp
<1> QED BY <1>3, <1>4

\* The rows of a node are what it makes of the inputs' rows.
LEMMA ValueIs ==
  ASSUME NEW gr \in Graphs, NEW n \in Nodes
  PROVE  Value[gr][n] = Output(gr, n, Value[gr])
<1>1. PICK f : f = [k \in Nodes |-> All(gr, f, k)]
  BY Computed
<1> DEFINE v == [k \in Nodes |-> f[k].value]
<1>2. v = [k \in Nodes |-> Output(gr, k, v)]
  <2>1. ASSUME NEW k \in Nodes PROVE v[k] = Output(gr, k, v)
    <3>1. v[k] = ValueOn(gr, f, k)
      BY <1>1 DEF All
    <3>2. \A i \in DOMAIN gr.inputs[k] : v[gr.inputs[k][i]] = f[gr.inputs[k][i]].value
      BY EarlierInputs
    <3> HIDE DEF v
    <3> QED BY <3>1, <3>2 DEF ValueOn, Output
  <2>2. v = [k \in Nodes |-> v[k]]
    OBVIOUS
  <2> HIDE DEF v
  <2> QED BY <2>1, <2>2, Zenon
<1> HIDE DEF v
<1>3. ValuesOf(gr) = [k \in Nodes |-> Output(gr, k, ValuesOf(gr))]
  BY <1>2 DEF ValuesOf
<1>4. Value[gr] = ValuesOf(gr)
  BY DEF Value
<1> QED BY <1>3, <1>4

\* One above the highest of the inputs' layers.
LayerEq(gr, l, n) ==
  IF gr.inputs[n] = <<>> THEN 0
  ELSE 1 + CHOOSE x \in {l[m] : m \in InputsOf(gr, n)} :
             \A m \in InputsOf(gr, n) : l[m] <= x

\* The layer of a node is one above the highest of its inputs'.
LEMMA LayerIs ==
  ASSUME NEW gr \in Graphs, NEW n \in Nodes
  PROVE  Layer[gr][n] = LayerEq(gr, Layer[gr], n)
<1>1. PICK f : f = [k \in Nodes |-> All(gr, f, k)]
  BY Computed
<1> DEFINE l == [k \in Nodes |-> f[k].layer]
<1>2. l = [k \in Nodes |-> LayerEq(gr, l, k)]
  <2>1. ASSUME NEW k \in Nodes PROVE l[k] = LayerEq(gr, l, k)
    <3>1. l[k] = LayerOn(gr, f, k)
      BY <1>1 DEF All
    <3>2. \A m \in InputsOf(gr, k) : l[m] = f[m].layer
      BY EarlierInputs
    <3> HIDE DEF l
    <3>3. \A x : /\ x \in {l[m] : m \in InputsOf(gr, k)}
                 /\ \A m \in InputsOf(gr, k) : l[m] <= x
             <=> /\ x \in {f[m].layer : m \in InputsOf(gr, k)}
                 /\ \A m \in InputsOf(gr, k) : f[m].layer <= x
      BY <3>2
    <3>4. (CHOOSE x \in {l[m] : m \in InputsOf(gr, k)} :
             \A m \in InputsOf(gr, k) : l[m] <= x)
            = CHOOSE x \in {f[m].layer : m \in InputsOf(gr, k)} :
                \A m \in InputsOf(gr, k) : f[m].layer <= x
      BY <3>3, Zenon
    <3> QED BY <3>1, <3>4, Zenon DEF LayerOn, LayerEq
  <2>2. l = [k \in Nodes |-> l[k]]
    OBVIOUS
  <2> HIDE DEF l
  <2> QED BY <2>1, <2>2, Zenon
<1> HIDE DEF l
<1>3. LayerOf(gr) = [k \in Nodes |-> LayerEq(gr, LayerOf(gr), k)]
  BY <1>2 DEF LayerOf, LayerEq
<1>4. Layer[gr] = LayerOf(gr)
  BY DEF Layer
<1> QED BY <1>3, <1>4

\* A node is in a layer above those of its inputs.
LEMMA LayersGrow ==
  ASSUME NEW gr \in Graphs, NEW n \in Nodes
  PROVE  /\ Layer[gr][n] \in Nat
         /\ \A m \in InputsOf(gr, n) : Layer[gr][m] < Layer[gr][n]
<1> DEFINE Fine(k) == /\ Layer[gr][k] \in 0..k
                      /\ \A m \in InputsOf(gr, k) : Layer[gr][m] < Layer[gr][k]
           S == {k \in 0..N : \A j \in 1..k : Fine(j)}
<1> HIDE DEF Fine
<1>1. S \in SUBSET (0..N) /\ 0 \in S /\ N \in Nat
  BY GraphsAssumption
<1>2. PICK k \in S : \A j \in S : j <= k
  <2> HIDE DEF S
  <2> QED BY <1>1, LargestExists
<1>3. CASE k = N
  <2>1. Fine(n) /\ n \in Nat
    BY <1>2, <1>3 DEF Nodes
  <2> QED BY <2>1 DEF Fine
<1>4. CASE k # N
  <2> DEFINE e == k + 1
             In == InputsOf(gr, e)
             L == {Layer[gr][m] : m \in In}
  <2>1. e \in Nodes /\ e \in 0..N /\ k \in Nat /\ ~(e <= k) /\ N \in Nat
    BY <1>1, <1>2, <1>4 DEF Nodes
  <2>2. gr.inputs[e] \in Seq(Nodes) /\ In \subseteq 1..k /\ In \subseteq Nodes
    BY <2>1, EarlierInputs
  <2>3. \A m \in In : Layer[gr][m] \in 0..k
    BY <1>2, <2>1, <2>2 DEF Fine
  <2>4. Layer[gr][e] = LayerEq(gr, Layer[gr], e)
    BY <2>1, LayerIs
  <2>5. ASSUME gr.inputs[e] = <<>> PROVE Fine(e)
    <3>1. In = {}
      BY <2>5 DEF InputsOf
    <3>2. Layer[gr][e] = 0 /\ 0 \in 0..e
      BY <2>1, <2>4, <2>5 DEF LayerEq
    <3> HIDE DEF e
    <3> QED BY <3>1, <3>2 DEF Fine
  <2>6. ASSUME gr.inputs[e] # <<>> PROVE Fine(e)
    <3> DEFINE top == CHOOSE x \in L : \A m \in In : Layer[gr][m] <= x
    <3>1. \E x \in L : \A m \in In : Layer[gr][m] <= x
      <4>1. 1 \in DOMAIN gr.inputs[e]
        BY <2>2, <2>6
      <4>2. L # {} /\ L \in SUBSET (0..k)
        BY <2>3, <4>1 DEF InputsOf
      <4>3. \E x \in L : \A y \in L : y <= x
        <5> HIDE DEF L
        <5> QED BY <2>1, <4>2, LargestExists
      <4> QED BY <4>3
    <3>2. top \in L /\ \A m \in In : Layer[gr][m] <= top
      BY <3>1
    <3>3. Layer[gr][e] = 1 + top
      BY <2>4, <2>6 DEF LayerEq
    <3>4. top \in 0..k
      BY <2>3, <3>2
    <3> HIDE DEF top
    <3>5. Layer[gr][e] \in 0..e /\ \A m \in In : Layer[gr][m] < Layer[gr][e]
      BY <2>1, <2>3, <3>2, <3>3, <3>4
    <3> HIDE DEF e
    <3> QED BY <3>5 DEF Fine
  <2>7. Fine(e)
    BY <2>5, <2>6
  <2>8. ASSUME NEW j \in 1..e PROVE Fine(j)
    BY <1>2, <2>1, <2>7
  <2>9. e \in S
    <3> HIDE DEF e
    <3> QED BY <2>1, <2>8
  <2> QED BY <1>2, <2>1, <2>9
<1> QED BY <1>3, <1>4

\* A sound fingerprint is clean, and so are those it is computed from.
LEMMA SoundIs ==
  ASSUME NEW gr \in Graphs, NEW n \in Nodes, Sure(gr, n)
  PROVE  /\ Fp[gr][n] \in Clean
         /\ Lone(gr, n) /\ InputsOf(gr, n) \cap gr.memmap = {}
         /\ \A m \in InputsOf(gr, n) : Sure(gr, m)
<1>1. PICK S \in SUBSET Clean : Fp[gr][n] \in S /\ Closed(S)
  BY DEF Sure, Sound
<1>2. Fp[gr][n] \in Clean
  BY <1>1
<1>3. ASSUME NEW m \in InputsOf(gr, n) PROVE Sure(gr, m)
  <2>1. Fp[gr][m] \in S
    BY <1>1 DEF Closed
  <2>2. S \subseteq Fps
    BY DEF Clean
  <2> QED BY <1>1, <2>1, <2>2 DEF Sure, Sound
<1>4. Lone(gr, n) /\ InputsOf(gr, n) \cap gr.memmap = {}
  BY <1>2 DEF Clean
<1> QED BY <1>2, <1>3, <1>4

\* Two nodes of one sound fingerprint have their inputs in one order.
LEMMA OneOrder ==
  ASSUME NEW gr \in Graphs, NEW gs \in Graphs, NEW n \in Nodes, NEW m \in Nodes,
         Sure(gr, n), Fp[gr][n] = Fp[gs][m]
  PROVE  gr.conf[n] = gs.conf[m] /\ InputFps(gr, n) = InputFps(gs, m)
<1>1. Fp[gr][n] = <<gr.conf[n], Sorted(gr, n)>> /\ Fp[gs][m] = <<gs.conf[m], Sorted(gs, m)>>
  BY FpIs DEF Sorted
<1>2. gr.conf[n] = gs.conf[m] /\ Sorted(gr, n) = Sorted(gs, m)
  <2>1. \A a, b, x, y : <<a, x>> = <<b, y>> => a = b /\ x = y
    OBVIOUS
  <2>2. <<gr.conf[n], Sorted(gr, n)>> = <<gs.conf[m], Sorted(gs, m)>>
    BY <1>1
  <2> QED BY <2>1, <2>2, Zenon
<1>3. Fp[gr][n] \in Clean
  BY SoundIs
<1> QED BY <1>2, <1>3 DEF Clean

\* What has one sound fingerprint has the same rows, in whatever recipe.
LEMMA SameRows ==
  ASSUME NEW gr \in Graphs, NEW gs \in Graphs, NEW n \in Nodes, NEW m \in Nodes,
         Sure(gr, n), Fp[gr][n] = Fp[gs][m]
  PROVE  Value[gr][n] = Value[gs][m]
<1> DEFINE Same(k) == Sure(gr, k) => \A j \in Nodes :
                        Fp[gr][k] = Fp[gs][j] => Value[gr][k] = Value[gs][j]
           S == {k \in 0..N : \A j \in 1..k : Same(j)}
<1> HIDE DEF Same
<1>1. S \in SUBSET (0..N) /\ 0 \in S /\ N \in Nat
  BY GraphsAssumption
<1>2. PICK k \in S : \A j \in S : j <= k
  <2> HIDE DEF S
  <2> QED BY <1>1, LargestExists
<1>3. CASE k = N
  <2>1. Same(n)
    BY <1>2, <1>3 DEF Nodes
  <2> QED BY <2>1 DEF Same
<1>4. CASE k # N
  <2> DEFINE e == k + 1
  <2>1. e \in Nodes /\ e \in 0..N /\ k \in Nat /\ ~(e <= k) /\ N \in Nat
    BY <1>1, <1>2, <1>4 DEF Nodes
  <2>2. Same(e)
    <3> SUFFICES ASSUME Sure(gr, e), NEW j \in Nodes, Fp[gr][e] = Fp[gs][j]
                 PROVE  Value[gr][e] = Value[gs][j]
      BY DEF Same
    <3> DEFINE ir == gr.inputs[e]
               is == gs.inputs[j]
    <3>1. gr.conf[e] = gs.conf[j] /\ InputFps(gr, e) = InputFps(gs, j)
      BY <2>1, OneOrder
    <3>2. DOMAIN ir = DOMAIN is
      BY <3>1 DEF InputFps
    <3>3. ASSUME NEW i \in DOMAIN ir PROVE Value[gr][ir[i]] = Value[gs][is[i]]
      <4>1. ir[i] \in 1..k /\ is[i] \in Nodes
        BY <2>1, <3>2, EarlierInputs
      <4>2. Fp[gr][ir[i]] = Fp[gs][is[i]]
        BY <3>1, <3>2 DEF InputFps
      <4>3. Same(ir[i])
        BY <1>2, <4>1
      <4>4. Sure(gr, ir[i])
        <5>1. ir[i] \in InputsOf(gr, e)
          BY DEF InputsOf
        <5> HIDE DEF e, ir
        <5> QED BY <2>1, <5>1, SoundIs
      <4> QED BY <4>1, <4>2, <4>3, <4>4 DEF Same
    <3>4. Value[gr][e] = Output(gr, e, Value[gr]) /\ Value[gs][j] = Output(gs, j, Value[gs])
      BY <2>1, ValueIs
    <3>5. [i \in DOMAIN ir |-> Value[gr][ir[i]]] = [i \in DOMAIN is |-> Value[gs][is[i]]]
      BY <3>2, <3>3
    <3> QED BY <3>1, <3>4, <3>5 DEF Output
  <2>3. ASSUME NEW j \in 1..e PROVE Same(j)
    BY <1>2, <2>1, <2>2
  <2>4. e \in S
    <3> HIDE DEF e
    <3> QED BY <2>1, <2>3
  <2> QED BY <1>2, <2>1, <2>4
<1> QED BY <1>3, <1>4

\* What must execute: the misses, and plain nodes that such a node reads.
LEMMA MustExecuteIs ==
  ASSUME NEW gr \in Graphs, NEW n \in Nodes
  PROVE  n \in MustExecute(gr) <=>
           \/ ~Hit(gr, n)
           \/ n \notin gr.keeps /\ \E m \in MustExecute(gr) : n \in InputsOf(gr, m)
<1> DEFINE Due(f, i) == \/ ~Hit(gr, N - i)
                        \/ /\ N - i \notin gr.keeps
                           /\ \E j \in 0..i - 1 : N - i \in InputsOf(gr, N - j) /\ f[j]
           Is(f, k) == f = [i \in 0..k - 1 |-> Due(f, i)]
           S == {k \in 0..N : \E f : Is(f, k)}
<1> HIDE DEF Due
<1>1. 0 \in S /\ N \in Nat
  <2>1. Is([i \in 0..0 - 1 |-> 0], 0)
    OBVIOUS
  <2> HIDE DEF Is
  <2>2. 0 \in 0..N /\ N \in Nat
    BY GraphsAssumption
  <2> QED BY <2>1, <2>2
<1>2. PICK k \in S : \A j \in S : j <= k
  <2> HIDE DEF S
  <2>1. S \in SUBSET (0..N) /\ S # {}
    BY <1>1 DEF S
  <2> QED BY <1>1, <2>1, LargestExists
<1>3. PICK f : Is(f, k)
  BY <1>2
<1> HIDE DEF Is
<1>4. \E x : Is(x, N)
  <2>1. CASE k = N
    BY <1>3, <2>1
  <2>2. CASE k # N
    <3> DEFINE h == [i \in 0..k |-> IF i = k THEN Due(f, i) ELSE f[i]]
    <3>1. k \in Nat /\ k + 1 \in 0..N
      BY <1>1, <1>2, <2>2
    <3>2. ASSUME NEW i \in 0..k PROVE Due(h, i) = Due(f, i)
      <4>1. \A j \in 0..i - 1 : h[j] = f[j]
        BY <3>1
      <4> HIDE DEF h
      <4> QED BY <4>1 DEF Due
    <3>3. ASSUME NEW i \in 0..k PROVE h[i] = Due(h, i)
      <4>1. CASE i = k
        <5>1. h[i] = Due(f, i)
          BY <4>1
        <5> HIDE DEF h
        <5> QED BY <5>1, <3>2
      <4>2. CASE i # k
        <5>1. i \in 0..k - 1
          BY <3>1, <4>2
        <5>2. h[i] = f[i]
          BY <4>2
        <5>3. f[i] = Due(f, i)
          BY <1>3, <5>1 DEF Is
        <5> HIDE DEF h
        <5> QED BY <5>2, <5>3, <3>2
      <4> QED BY <4>1, <4>2
    <3>4. h = [i \in 0..k |-> h[i]]
      OBVIOUS
    <3> HIDE DEF h
    <3>5. [i \in 0..k |-> h[i]] = [i \in 0..k |-> Due(h, i)]
      BY <3>3, Zenon
    <3>6. (k + 1) - 1 = k
      BY <3>1
    <3>7. Is(h, k + 1)
      BY <3>4, <3>5, <3>6 DEF Is
    <3>8. k + 1 <= k
      BY <1>2, <3>1, <3>7
    <3> QED BY <3>1, <3>8
  <2> QED BY <2>1, <2>2
<1> DEFINE exec == CHOOSE x : Is(x, N)
<1>5. exec = [i \in 0..N - 1 |-> Due(exec, i)]
  <2>1. Is(exec, N)
    BY <1>4
  <2> HIDE DEF exec
  <2> QED BY <2>1 DEF Is
<1>6. MustExecute(gr) = {m \in Nodes : exec[N - m]}
  BY DEF MustExecute, Is, Due
<1> HIDE DEF exec
<1>7. ASSUME NEW m \in Nodes PROVE m \in MustExecute(gr) <=> Due(exec, N - m)
  <2>1. N - m \in 0..N - 1
    BY <1>1 DEF Nodes
  <2> QED BY <1>5, <1>6, <2>1
<1>8. N - (N - n) = n
  BY <1>1 DEF Nodes
<1>9. (\E j \in 0..(N - n) - 1 : n \in InputsOf(gr, N - j) /\ exec[j])
        <=> \E m \in MustExecute(gr) : n \in InputsOf(gr, m)
  <2>1. ASSUME NEW j \in 0..(N - n) - 1, n \in InputsOf(gr, N - j), exec[j]
        PROVE  \E m \in MustExecute(gr) : n \in InputsOf(gr, m)
    <3>1. N - j \in Nodes /\ N - (N - j) = j
      BY <1>1 DEF Nodes
    <3> QED BY <1>6, <2>1, <3>1
  <2>2. ASSUME NEW m \in MustExecute(gr), n \in InputsOf(gr, m)
        PROVE  \E j \in 0..(N - n) - 1 : n \in InputsOf(gr, N - j) /\ exec[j]
    <3>1. m \in Nodes /\ exec[N - m]
      BY <1>6
    <3>2. n < m
      BY <2>2, <3>1, GraphsAssumption
    <3>3. N - m \in 0..(N - n) - 1 /\ N - (N - m) = m
      BY <1>1, <3>1, <3>2 DEF Nodes
    <3> QED BY <2>2, <3>1, <3>3
  <2> QED BY <2>1, <2>2
<1> QED BY <1>7, <1>8, <1>9 DEF Due

------------------------------------------------------------------------------
(* The invariant                                                           *)

\* Every directory a recipe names is one of the store's.
LEMMA HomeIs ==
  ASSUME NEW gr \in Graphs, NEW n \in Nodes
  PROVE  Home(gr, n) \in Dirs /\ Fp[gr][n] \in Fps
BY DEF Home, Dirs, Fps

\* Recipes that share a directory agree on what belongs into it.
LEMMA SharedHome ==
  ASSUME NEW gr \in Graphs, NEW gs \in Graphs, NEW n \in Nodes, NEW m \in Nodes,
         Home(gr, n) = Home(gs, m)
  PROVE  /\ n = m /\ (n \in gr.keeps <=> m \in gs.keeps) /\ (Sure(gr, n) <=> Sure(gs, m))
         /\ Sure(gr, n) => Value[gr][n] = Value[gs][m]
<1>1. n = m /\ Fp[gr][n] = Fp[gs][m]
  BY DEF Home
<1>2. Fp[gr][n] = <<gr.conf[n], {Fp[gr][i] : i \in InputsOf(gr, n)}>>
  BY FpIs
<1>3. Fp[gs][m] = <<gs.conf[m], {Fp[gs][i] : i \in InputsOf(gs, m)}>>
  BY FpIs
<1>4. gr.conf[n] = gs.conf[m]
  <2>1. \A a, b, x, y : <<a, x>> = <<b, y>> => a = b
    OBVIOUS
  <2> QED BY <1>1, <1>2, <1>3, <2>1, Zenon
<1>5. n \in gr.keeps <=> m \in gs.keeps
  BY <1>4, GraphsAssumption
<1>6. Sure(gr, n) => Value[gr][n] = Value[gs][m]
  BY <1>1, SameRows
<1> QED BY <1>1, <1>5, <1>6 DEF Sure

\* What is left of a directory is one, and has a manifest only if it had.
LEMMA RemainsIs ==
  ASSUME NEW dir, IsDirectory(dir), dir # None, NEW rest \in Remains(dir)
  PROVE  IsDirectory(rest) /\ (Complete(rest) => Complete(dir))
<1>1. DOMAIN dir = {"manifest", "rows"} /\ dir.manifest \in BOOLEAN
  BY DEF IsDirectory
<1>2. CASE rest = None
  BY <1>2 DEF IsDirectory, Complete
<1>3. CASE rest = [dir EXCEPT !.manifest = FALSE]
  <2>1. DOMAIN rest = DOMAIN dir /\ rest.manifest = FALSE
    BY <1>1, <1>3
  <2> QED BY <1>1, <2>1 DEF IsDirectory, Complete
<1>4. CASE rest = [dir EXCEPT !.rows = None]
  <2>1. DOMAIN rest = DOMAIN dir /\ rest.manifest = dir.manifest
    BY <1>1, <1>4
  <2> QED BY <1>1, <2>1 DEF IsDirectory, Complete
<1> QED BY <1>2, <1>3, <1>4 DEF Remains

\* Only a cleanup is inside a directory.
LEMMA NotCleaning == IInv /\ pc # "clean" => at = None
BY DEF IInv, TypeOK

\* A node that is at work makes the recipe's own rows of its inputs.
LEMMA MakesRecipe ==
  ASSUME IInv, pc = "run", ~torn, NEW n \in Running, Sure(g, n)
  PROVE  Output(g, n, results) = Value[g][n]
<1>1. g \in Graphs /\ n \in Nodes /\ job[n] # "rest"
  BY DEF IInv, TypeOK, Running
<1>2. ASSUME NEW i \in DOMAIN g.inputs[n]
      PROVE  results[g.inputs[n][i]] = Value[g][g.inputs[n][i]]
  <2> DEFINE m == g.inputs[n][i]
  <2>1. m \in InputsOf(g, n) /\ m \in Nodes
    BY <1>1, EarlierInputs
  <2> HIDE DEF m
  <2>2. job[m] \in {"rest", "done"}
    BY <1>1, <2>1 DEF IInv, Planned
  <2>3. Read(m)
    BY <1>1, <2>1 DEF Read
  <2>4. Sure(g, m)
    BY <1>1, <2>1, SoundIs
  <2>5. results[m] = Value[g][m]
    BY <2>1, <2>2, <2>3, <2>4 DEF IInv, InHand
  <2> QED BY <2>5 DEF m
<1>3. Value[g][n] = Output(g, n, Value[g])
  BY <1>1, ValueIs
<1>4. [i \in DOMAIN g.inputs[n] |-> results[g.inputs[n][i]]]
        = [i \in DOMAIN g.inputs[n] |-> Value[g][g.inputs[n][i]]]
  BY <1>2
<1> QED BY <1>3, <1>4 DEF Output

\* A store with nothing in it.
LEMMA StartsEmpty == Init => IInv
<1> SUFFICES ASSUME Init PROVE IInv
  OBVIOUS
<1>1. TypeOK
  <2>1. DOMAIN final = Dirs /\ \A d \in Dirs : IsDirectory(final[d])
    BY DEF Init, IsDirectory
  <2>2. DOMAIN tmp = Fps /\ \A f \in Fps : IsDirectory(tmp[f])
    BY DEF Init, IsDirectory
  <2>3. torn \in BOOLEAN /\ pc \in {"idle", "run", "done", "clean"} /\ g \in Graphs
    BY DEF Init
  <2>4. /\ job \in [Nodes -> {"rest", "todo", "staged", "written", "sealed", "done"}]
        /\ DOMAIN results = Nodes
    BY DEF Init
  <2>5. /\ at \in {None} \cup Dirs /\ (at # None => pc = "clean")
        /\ runs \in 0..MaxRuns /\ crashes \in 0..MaxCrashes
    BY GraphsAssumption DEF Init
  <2> QED BY <2>1, <2>2, <2>3, <2>4, <2>5 DEF TypeOK
<1>2. ManifestMeansWhole
  <2>1. \A gr \in Graphs : \A n \in gr.keeps : ~Complete(final[Home(gr, n)])
    BY HomeIs, GraphsAssumption DEF Init, Complete
  <2> QED BY <2>1 DEF ManifestMeansWhole
<1>3. Planned /\ Staged /\ InHand /\ Cleaning
  BY DEF Init, Planned, Staged, InHand, Cleaning
<1> QED BY <1>1, <1>2, <1>3 DEF IInv

\* A plan: what need not execute is a hit, and has its rows in hand where a node
\* that must execute reads them.
LEMMA StartStep ==
  ASSUME IInv, NEW gr \in Graphs, Start(gr)
  PROVE  IInv'
<1>0. at = None /\ pc \in {"idle", "done"}
  BY NotCleaning DEF Start
<1>1. /\ pc' = "run" /\ g' = gr /\ runs' \in 0..MaxRuns /\ at' = None
      /\ final' = final /\ tmp' = tmp /\ torn' = torn /\ crashes' = crashes
      /\ job' = [n \in Nodes |-> IF n \in MustExecute(gr) THEN "todo" ELSE "rest"]
      /\ results' = [n \in Nodes |-> Rehydrated(gr, n)]
  BY <1>0, GraphsAssumption DEF Start, disk, IInv, TypeOK
<1>2. MustExecute(gr) \subseteq Nodes
  BY DEF MustExecute
<1>3. TypeOK'
  BY <1>1 DEF IInv, TypeOK
<1>4. ManifestMeansWhole'
  BY <1>0, <1>1 DEF IInv, ManifestMeansWhole, Home, Complete
<1>5. ASSUME NEW n \in Nodes
      PROVE  /\ job'[n] = "rest" <=> n \notin MustExecute(gr)
             /\ job'[n] \in {"rest", "todo"}
  BY <1>1
<1>6. Planned'
  <2>1. \A n \in Nodes : Hit(gr, n)' <=> Hit(gr, n)
    BY <1>1 DEF Hit, Home
  <2>2. ASSUME NEW n \in Nodes
        PROVE  /\ job'[n] = "rest" => Hit(gr, n)
               /\ job'[n] \notin {"rest", "done"} => (n \in gr.keeps => ~Hit(gr, n))
               /\ n \notin Running'
    BY <1>5, MustExecuteIs DEF Running
  <2> QED BY <1>1, <2>1, <2>2 DEF Planned
<1>7. Staged'
  BY <1>1, <1>5 DEF Staged, Holds
<1>8. InHand'
  <2> SUFFICES ASSUME ~torn, NEW n \in Nodes, job'[n] = "rest", Read(n)'
               PROVE  results'[n] = Value[gr][n]
    BY <1>1, <1>5 DEF InHand
  <2>1. PICK m \in Nodes : Sure(gr, m) /\ n \in InputsOf(gr, m) /\ m \in MustExecute(gr)
    BY <1>1, <1>5 DEF Read, Sure
  <2>2. n \notin MustExecute(gr) /\ Hit(gr, n) /\ n \in gr.keeps
    BY <1>5, <2>1, MustExecuteIs
  <2>3. n \notin gr.memmap /\ Sure(gr, n)
    BY <2>1, SoundIs
  <2>4. results'[n] = final[Home(gr, n)].rows
    BY <1>1, <2>1, <2>2, <2>3 DEF Rehydrated
  <2>5. Home(gr, n) # at
    BY <1>0, HomeIs, GraphsAssumption
  <2>6. final[Home(gr, n)].rows = Value[gr][n]
    BY <2>2, <2>3, <2>5 DEF IInv, ManifestMeansWhole, Hit, Sure
  <2> QED BY <2>4, <2>6
<1>9. Cleaning'
  BY <1>1 DEF Cleaning
<1> QED BY <1>3, <1>4, <1>6, <1>7, <1>8, <1>9 DEF IInv

\* A worker's step on one node: what it leaves alone, for the parts of the invariant
\* that speak of the other nodes.
Worker(n) ==
  /\ n \in Nodes /\ pc = "run"
  /\ job[n] \in {"todo", "staged", "written", "sealed", "checked"}
  /\ UNCHANGED <<torn, pc, g, at, runs, crashes>>
  /\ job' \in [Nodes -> {"rest", "todo", "staged", "written",
                        "sealed", "checked", "done", "failed"}]
  /\ \A m \in Nodes : m # n => /\ job'[m] = job[m] /\ results'[m] = results[m]
                               /\ Lone(g, m) => tmp'[Fp[g][m]] = tmp[Fp[g][m]]
                               /\ final'[Home(g, m)] = final[Home(g, m)]

\* Another node's final directory is another; its staging directory is, if it has one
\* to itself.
LEMMA OthersStaging ==
  ASSUME NEW n \in Nodes, NEW m \in Nodes, m # n
  PROVE  (Lone(g, m) => Fp[g][m] # Fp[g][n]) /\ Home(g, m) # Home(g, n)
BY DEF Lone, Home

\* The steps of a node before it is committed leave the store alone.
LEMMA BeforeCommit ==
  ASSUME IInv, NEW n \in Nodes, Worker(n), UNCHANGED <<final, results>>,
         \A m \in InputsOf(g, n) : job[m] \in {"rest", "done"},
         job'[n] \in {"staged", "written", "sealed", "checked", "failed"},
         DOMAIN tmp' = Fps /\ \A f \in Fps : IsDirectory(tmp'[f]),
         Lone(g, n) => Holds(tmp'[Fp[g][n]], n, job'[n])
  PROVE  IInv'
<1>1. TypeOK'
  BY DEF Worker, IInv, TypeOK
<1>2. ManifestMeansWhole'
  BY DEF Worker, IInv, ManifestMeansWhole, Home, Complete
<1>3. Planned'
  <2> SUFFICES ASSUME NEW m \in Nodes
      PROVE /\ job'[m] = "rest" => Hit(g, m)
            /\ job'[m] = "done" /\ Lone(g, m) => Hit(g, m)
            /\ job'[m] \notin {"rest", "done"} => (m \in g.keeps => ~Hit(g, m))
            /\ m \in Running' => \A i \in InputsOf(g, m) : job'[i] \in {"rest", "done"}
    BY DEF Planned, Worker, Hit, Home, Lone
  <2>1. /\ job[m] = "rest" => Hit(g, m)
        /\ job[m] = "done" /\ Lone(g, m) => Hit(g, m)
        /\ job[m] \notin {"rest", "done"} => (m \in g.keeps => ~Hit(g, m))
        /\ m \in Running => \A i \in InputsOf(g, m) : job[i] \in {"rest", "done"}
    BY DEF IInv, Planned, Worker
  <2>2. InputsOf(g, m) \subseteq Nodes
    BY EarlierInputs DEF IInv, TypeOK
  <2>3. \A i \in Nodes : job[i] \in {"rest", "done"} => job'[i] = job[i]
    BY DEF Worker
  <2>4. CASE m = n
    BY <2>1, <2>2, <2>3, <2>4 DEF Worker
  <2>5. CASE m # n
    BY <2>1, <2>2, <2>3, <2>5 DEF Worker, Running
  <2> QED BY <2>4, <2>5
<1>4. Staged'
  <2> SUFFICES ASSUME NEW m \in Nodes, Lone(g, m)
      PROVE Holds(tmp'[Fp[g][m]], m, job'[m])
    BY DEF Staged, Worker, Holds, Made, Sure, Lone, Complete
  <2>1. CASE m = n
    BY <2>1
  <2>2. CASE m # n
    <3>1. job'[m] = job[m] /\ tmp'[Fp[g][m]] = tmp[Fp[g][m]]
      BY <2>2 DEF Worker
    <3>2. Holds(tmp[Fp[g][m]], m, job[m])
      BY DEF IInv, Staged, Worker
    <3> QED BY <3>1, <3>2
  <2> QED BY <2>1, <2>2
<1>5. InHand'
  <2> SUFFICES ASSUME ~torn, NEW m \in Nodes,
                      (job'[m] = "done" /\ Sure(g, m)) \/ (job'[m] = "rest" /\ Read(m)')
               PROVE  results[m] = Value[g][m]
    BY DEF InHand, Worker, Sure
  <2>1. m # n /\ job'[m] = job[m]
    BY DEF Worker
  <2>2. Read(m)' => Read(m)
    BY DEF Read, Worker, Sure
  <2> QED BY <2>1, <2>2 DEF IInv, InHand, Worker
<1>6. Cleaning'
  BY DEF Worker, IInv, Cleaning, Live, Home
<1> QED BY <1>1, <1>2, <1>3, <1>4, <1>5, <1>6 DEF IInv

\* A worker takes a node whose inputs, all in layers below, are done with.
LEMMA StageStep ==
  ASSUME IInv, NEW n \in Nodes, Stage(n)
  PROVE  IInv'
<1>0. g \in Graphs /\ Fp[g][n] \in Fps
  BY HomeIs DEF IInv, TypeOK
<1>1. /\ pc = "run" /\ job[n] = "todo"
      /\ tmp' = [tmp EXCEPT ![Fp[g][n]] = Empty] /\ job' = [job EXCEPT ![n] = "staged"]
      /\ UNCHANGED <<final, torn, pc, g, results, at, runs, crashes>>
  BY DEF Stage
<1>2. \A f \in Fps : tmp'[f] = IF f = Fp[g][n] THEN Empty ELSE tmp[f]
  BY <1>1 DEF IInv, TypeOK
<1>3. DOMAIN tmp' = Fps /\ \A f \in Fps : IsDirectory(tmp'[f])
  <2>1. IsDirectory(Empty)
    BY DEF IsDirectory, Empty
  <2> QED BY <1>1, <1>2, <2>1 DEF IInv, TypeOK
<1>4. Worker(n)
  <2>1. \A m \in Nodes : m # n /\ Lone(g, m) => tmp'[Fp[g][m]] = tmp[Fp[g][m]]
    BY <1>0, <1>2, OthersStaging, HomeIs
  <2> QED BY <1>1, <2>1 DEF Worker, IInv, TypeOK
<1>5. job'[n] = "staged" /\ Holds(tmp'[Fp[g][n]], n, job'[n])
  BY <1>0, <1>1, <1>2 DEF IInv, TypeOK, Holds
<1>6. \A m \in InputsOf(g, n) : job[m] \in {"rest", "done"}
  BY <1>0, LayersGrow, EarlierInputs DEF Stage, LayerReady
<1> QED BY <1>1, <1>3, <1>4, <1>5, <1>6, BeforeCommit

\* A worker that writes into its staging directory.
LEMMA WritingStep ==
  ASSUME IInv, NEW n \in Running, NEW dir, pc = "run", IsDirectory(dir),
         tmp' = [tmp EXCEPT ![Fp[g][n]] = dir] \/ tmp' = tmp,
         job' = [job EXCEPT ![n] = job'[n]],
         job'[n] \in {"written", "sealed", "checked", "failed"},
         UNCHANGED <<final, torn, pc, g, results, at, runs, crashes>>,
         Lone(g, n) => Holds(tmp'[Fp[g][n]], n, job'[n])
  PROVE  IInv'
<1>1. g \in Graphs /\ n \in Nodes /\ Fp[g][n] \in Fps
  BY HomeIs DEF IInv, TypeOK, Running
<1>2. \A f \in Fps : f # Fp[g][n] => tmp'[f] = tmp[f]
  BY DEF IInv, TypeOK
<1>3. DOMAIN tmp' = Fps /\ \A f \in Fps : IsDirectory(tmp'[f])
  BY DEF IInv, TypeOK
<1>4. Worker(n)
  <2>1. \A m \in Nodes : m # n /\ Lone(g, m) => tmp'[Fp[g][m]] = tmp[Fp[g][m]]
    BY <1>1, <1>2, OthersStaging, HomeIs
  <2>2. job' \in [Nodes -> {"rest", "todo", "staged", "written",
                           "sealed", "checked", "done", "failed"}]
    BY <1>1 DEF IInv, TypeOK
  <2>3. \A m \in Nodes : m # n => job'[m] = job[m]
    BY <1>1 DEF IInv, TypeOK
  <2> QED BY <1>1, <2>1, <2>2, <2>3 DEF Worker, Running
<1>5. \A m \in InputsOf(g, n) : job[m] \in {"rest", "done"}
  BY <1>1 DEF IInv, Planned
<1> QED BY <1>1, <1>3, <1>4, <1>5, BeforeCommit

\* A directory made for a node is one.
LEMMA StagingIs ==
  ASSUME IInv, NEW n \in Nodes
  PROVE  /\ Staging(n) # None /\ IsDirectory(Staging(n))
         /\ tmp[Fp[g][n]] # None => Staging(n) = tmp[Fp[g][n]]
<1>1. Fp[g][n] \in Fps
  BY HomeIs DEF IInv, TypeOK
<1>2. IsDirectory(tmp[Fp[g][n]])
  BY <1>1 DEF IInv, TypeOK
<1>3. CASE tmp[Fp[g][n]] = None
  <2>1. Staging(n) = Empty
    BY <1>3 DEF Staging
  <2>2. None # Empty
    BY GraphsAssumption DEF Empty, IInv, TypeOK
  <2> QED BY <1>3, <2>1, <2>2 DEF IsDirectory, Empty
<1>4. CASE tmp[Fp[g][n]] # None
  BY <1>2, <1>4 DEF Staging
<1> QED BY <1>3, <1>4

\* Its output is the recipe's.
LEMMA WriteStep ==
  ASSUME IInv, NEW n \in Nodes, Write(n)
  PROVE  IInv'
<1> DEFINE out == Output(g, n, results)
           dir == [Staging(n) EXCEPT !.rows = out]
<1>0. Fp[g][n] \in Fps /\ n \in Running
  BY HomeIs DEF IInv, TypeOK, Write, Running
<1>1. /\ pc = "run" /\ job[n] = "staged" /\ job' = [job EXCEPT ![n] = "written"]
      /\ tmp' = IF n \in g.keeps THEN [tmp EXCEPT ![Fp[g][n]] = dir] ELSE tmp
      /\ UNCHANGED <<final, torn, pc, g, results, at, runs, crashes>>
  BY DEF Write
<1>2. job'[n] = "written"
  BY <1>1 DEF IInv, TypeOK
<1>3. Sure(g, n) /\ ~torn => out = Value[g][n]
  BY <1>0, <1>1, MakesRecipe
<1> HIDE DEF out
<1>4. IsDirectory(dir)
  <2>1. Staging(n) # None /\ IsDirectory(Staging(n))
    BY StagingIs
  <2>2. DOMAIN dir = DOMAIN Staging(n) /\ dir.manifest = Staging(n).manifest
    BY <2>1 DEF IsDirectory
  <2> QED BY <2>1, <2>2 DEF IsDirectory
<1>5. Lone(g, n) => Holds(tmp'[Fp[g][n]], n, job'[n])
  <2> SUFFICES ASSUME Lone(g, n), Sure(g, n), ~torn
               PROVE  Holds(tmp'[Fp[g][n]], n, "written")
    BY <1>2 DEF Holds
  <2>1. tmp[Fp[g][n]] = Empty
    BY <1>1 DEF IInv, Staged, Holds
  <2>2. CASE n \in g.keeps
    <3>1. Staging(n) = Empty
      BY <2>1 DEF Staging
    <3>2. dir = [manifest |-> FALSE, rows |-> out]
      <4>1. dir = [Empty EXCEPT !.rows = out]
        BY <3>1, Zenon
      <4> HIDE DEF dir
      <4> QED BY <4>1 DEF Empty
    <3>3. tmp'[Fp[g][n]] = [manifest |-> FALSE, rows |-> out]
      BY <1>0, <1>1, <2>2, <3>2 DEF IInv, TypeOK
    <3> QED BY <1>3, <2>2, <3>3 DEF Holds, Made
  <2>3. CASE n \notin g.keeps
    <3>1. tmp'[Fp[g][n]] = [manifest |-> FALSE, rows |-> None]
      BY <1>1, <2>1, <2>3 DEF Empty
    <3> QED BY <2>3, <3>1 DEF Holds, Made
  <2> QED BY <2>2, <2>3
<1> HIDE DEF dir
<1>6. tmp' = [tmp EXCEPT ![Fp[g][n]] = dir] \/ tmp' = tmp
  BY <1>1
<1> QED BY <1>0, <1>1, <1>2, <1>4, <1>5, <1>6, WritingStep

\* The manifest is last.
LEMMA SealStep ==
  ASSUME IInv, NEW n \in Nodes, Seal(n)
  PROVE  IInv'
<1> DEFINE dir == [Staging(n) EXCEPT !.manifest = TRUE]
<1>0. Fp[g][n] \in Fps /\ n \in Running
  BY HomeIs DEF IInv, TypeOK, Seal, Running
<1>1. /\ pc = "run" /\ job[n] = "written" /\ job' = [job EXCEPT ![n] = "sealed"]
      /\ tmp' = [tmp EXCEPT ![Fp[g][n]] = dir]
      /\ UNCHANGED <<final, torn, pc, g, results, at, runs, crashes>>
  BY DEF Seal
<1>2. job'[n] = "sealed"
  BY <1>1 DEF IInv, TypeOK
<1>3. IsDirectory(dir)
  <2>1. Staging(n) # None /\ IsDirectory(Staging(n))
    BY StagingIs
  <2>2. DOMAIN dir = DOMAIN Staging(n) /\ dir.manifest = TRUE
    BY <2>1 DEF IsDirectory
  <2> QED BY <2>1, <2>2 DEF IsDirectory
<1>4. Lone(g, n) => Holds(tmp'[Fp[g][n]], n, job'[n])
  <2> SUFFICES ASSUME Lone(g, n), Sure(g, n), ~torn
               PROVE  Holds(tmp'[Fp[g][n]], n, "sealed")
    BY <1>2 DEF Holds
  <2> DEFINE old == tmp[Fp[g][n]]
  <2>1. old = [manifest |-> FALSE, rows |-> Made(g, n)]
    BY <1>1 DEF IInv, Staged, Holds
  <2>2. old # None => Staging(n) = old
    BY StagingIs
  <2> HIDE DEF old
  <2>3. old # None
    <3>1. Made(g, n) \in {None, Value[g][n]} /\ g \in Graphs
      BY DEF Made, IInv, TypeOK
    <3> QED BY <2>1, <3>1, GraphsAssumption
  <2>4. dir = [manifest |-> TRUE, rows |-> Made(g, n)]
    <3>1. dir = [old EXCEPT !.manifest = TRUE]
      BY <2>2, <2>3, Zenon
    <3> HIDE DEF dir
    <3> QED BY <2>1, <3>1
  <2>5. tmp'[Fp[g][n]] = dir
    BY <1>0, <1>1 DEF IInv, TypeOK
  <2> QED BY <2>1, <2>4, <2>5 DEF Holds
<1> HIDE DEF dir
<1>5. tmp' = [tmp EXCEPT ![Fp[g][n]] = dir] \/ tmp' = tmp
  BY <1>1
<1> QED BY <1>0, <1>1, <1>2, <1>3, <1>4, <1>5, WritingStep

\* A look at the staging directory, or a failure, changes nothing on the disk.
LEMMA CheckOrRaiseStep ==
  ASSUME IInv, NEW n \in Nodes, CheckStaging(n) \/ Raise(n)
  PROVE  IInv'
<1>1. /\ pc = "run" /\ n \in Running
      /\ \/ /\ job[n] = "sealed" /\ Complete(tmp[Fp[g][n]])
            /\ job' = [job EXCEPT ![n] = "checked"]
         \/ job' = [job EXCEPT ![n] = "failed"]
      /\ UNCHANGED <<final, tmp, torn, pc, g, results, at, runs, crashes>>
  BY DEF CheckStaging, Raise, Running, disk
<1>2. /\ job'[n] \in {"checked", "failed"}
      /\ job'[n] = "checked" => job[n] = "sealed" /\ Complete(tmp[Fp[g][n]])
  BY <1>1 DEF IInv, TypeOK, Running
<1>3. job' = [job EXCEPT ![n] = job'[n]]
  BY <1>1 DEF IInv, TypeOK
<1>4. Lone(g, n) => Holds(tmp'[Fp[g][n]], n, job'[n])
  BY <1>1, <1>2 DEF IInv, Staged, Holds
<1>5. IsDirectory(None)
  BY DEF IsDirectory
<1> QED BY <1>1, <1>2, <1>3, <1>4, <1>5, WritingStep

\* What stands in the way of a commit has no rows that anyone would find: a
\* materialize node executes only when its directory is no hit.
LEMMA ClearStep ==
  ASSUME IInv, NEW n \in Nodes, Clear(n)
  PROVE  IInv'
<1> DEFINE home == Home(g, n)
<1>0. g \in Graphs /\ home \in Dirs /\ n \in Running /\ at = None
  BY HomeIs, NotCleaning DEF IInv, TypeOK, Clear, Running
<1>1. PICK rest \in Remains(final[home]) : final' = [final EXCEPT ![home] = rest]
  BY DEF Clear
<1>2. /\ pc = "run" /\ job[n] = "checked" /\ final[home] # None
      /\ UNCHANGED <<tmp, torn, pc, g, job, results, at, runs, crashes>>
  BY DEF Clear
<1>3. n \in g.keeps => ~Complete(final[home])
  BY <1>2 DEF IInv, Planned, Hit
<1>4. IsDirectory(rest) /\ (Complete(rest) => Complete(final[home]))
  BY <1>0, <1>2, RemainsIs DEF IInv, TypeOK
<1>5. \A d \in Dirs : final'[d] = IF d = home THEN rest ELSE final[d]
  BY <1>1 DEF IInv, TypeOK
<1>6. TypeOK'
  <2>1. DOMAIN final' = Dirs /\ \A d \in Dirs : IsDirectory(final'[d])
    BY <1>1, <1>4, <1>5 DEF IInv, TypeOK
  <2> QED BY <1>2, <2>1 DEF IInv, TypeOK
<1>7. ManifestMeansWhole'
  <2> SUFFICES ASSUME NEW gr \in Graphs, NEW m \in gr.keeps, Sure(gr, m), ~torn,
                      Complete(final'[Home(gr, m)])
               PROVE  final'[Home(gr, m)].rows = Value[gr][m]
    BY <1>0, <1>2 DEF ManifestMeansWhole, Home, Complete, Sure
  <2>1. m \in Nodes /\ Home(gr, m) \in Dirs
    BY HomeIs, GraphsAssumption
  <2>2. Home(gr, m) # home
    <3>1. Home(gr, m) = home => n \in g.keeps
      BY <1>0, <2>1, SharedHome
    <3> QED BY <1>3, <1>4, <1>5, <2>1, <3>1
  <2>3. final'[Home(gr, m)] = final[Home(gr, m)]
    BY <1>5, <2>1, <2>2
  <2>4. Home(gr, m) # at
    BY <1>0, <2>1, GraphsAssumption
  <2> QED BY <2>3, <2>4 DEF IInv, ManifestMeansWhole, Sure
<1>8. Planned'
  <2> SUFFICES ASSUME NEW m \in Nodes
      PROVE /\ job[m] = "rest" => Complete(final'[Home(g, m)])
            /\ job[m] = "done" /\ Lone(g, m) => Complete(final'[Home(g, m)])
            /\ job[m] \notin {"rest", "done"} =>
                 (m \in g.keeps => ~Complete(final'[Home(g, m)]))
    BY <1>2 DEF IInv, Planned, Hit, Home, Complete, Running, Lone
  <2>1. /\ job[m] = "rest" => Complete(final[Home(g, m)])
        /\ job[m] = "done" /\ Lone(g, m) => Complete(final[Home(g, m)])
        /\ job[m] \notin {"rest", "done"} => (m \in g.keeps => ~Complete(final[Home(g, m)]))
    BY <1>2 DEF IInv, Planned, Hit
  <2>2. CASE m = n
    BY <1>0, <1>2, <1>3, <1>4, <1>5, <2>2
  <2>3. CASE m # n
    BY <1>0, <1>5, <2>1, <2>3, OthersStaging, HomeIs
  <2> QED BY <2>2, <2>3
<1>9. Staged' /\ InHand' /\ Cleaning'
  BY <1>0, <1>2 DEF IInv, Staged, Holds, Complete, Lone, Sure, InHand, Cleaning, Made, Read
<1> QED BY <1>6, <1>7, <1>8, <1>9 DEF IInv

\* The renamed directory has the rows of every recipe that would find it.
LEMMA ReplaceStep ==
  ASSUME IInv, NEW n \in Nodes, Replace(n)
  PROVE  IInv'
<1> DEFINE home == Home(g, n)
           dir == tmp[Fp[g][n]]
<1>0. /\ g \in Graphs /\ home \in Dirs /\ Fp[g][n] \in Fps /\ n \in Running /\ at = None
  BY HomeIs, NotCleaning DEF IInv, TypeOK, Replace, Running
<1>1. /\ pc = "run" /\ job[n] = "checked"
      /\ final' = [final EXCEPT ![home] = dir]
      /\ tmp' = [tmp EXCEPT ![Fp[g][n]] = None] /\ job' = [job EXCEPT ![n] = "done"]
      /\ results' = [results EXCEPT ![n] = Output(g, n, results)]
      /\ UNCHANGED <<torn, pc, g, at, runs, crashes>>
  BY DEF Replace
<1>2. /\ Lone(g, n) => Complete(dir)
      /\ Sure(g, n) /\ ~torn => dir.rows = Made(g, n)
  <2>1. Lone(g, n) => Holds(dir, n, "checked")
    BY <1>1 DEF IInv, Staged
  <2>2. Sure(g, n) => Lone(g, n)
    BY <1>0, SoundIs
  <2> HIDE DEF dir
  <2> QED BY <2>1, <2>2 DEF Holds
<1> HIDE DEF dir
<1>3. \A d \in Dirs : final'[d] = IF d = home THEN dir ELSE final[d]
  BY <1>1 DEF IInv, TypeOK
<1>4. \A f \in Fps : tmp'[f] = IF f = Fp[g][n] THEN None ELSE tmp[f]
  BY <1>1 DEF IInv, TypeOK
<1>5. \A m \in Nodes : /\ job'[m] = IF m = n THEN "done" ELSE job[m]
                       /\ results'[m] = IF m = n THEN Output(g, n, results) ELSE results[m]
  BY <1>1 DEF IInv, TypeOK
<1>6. TypeOK'
  <2>1. DOMAIN final' = Dirs /\ \A d \in Dirs : IsDirectory(final'[d])
    BY <1>0, <1>1, <1>3 DEF IInv, TypeOK, dir
  <2>2. DOMAIN tmp' = Fps /\ \A f \in Fps : IsDirectory(tmp'[f])
    <3>1. IsDirectory(None)
      BY DEF IsDirectory
    <3> QED BY <1>1, <1>4, <3>1 DEF IInv, TypeOK
  <2>3. /\ job' \in [Nodes -> {"rest", "todo", "staged", "written",
                             "sealed", "checked", "done", "failed"}]
        /\ DOMAIN results' = Nodes
    BY <1>1 DEF IInv, TypeOK
  <2> QED BY <1>1, <2>1, <2>2, <2>3 DEF IInv, TypeOK
<1>7. ManifestMeansWhole'
  <2> SUFFICES ASSUME NEW gr \in Graphs, NEW m \in gr.keeps, Sure(gr, m), ~torn,
                      Complete(final'[Home(gr, m)])
               PROVE  final'[Home(gr, m)].rows = Value[gr][m]
    BY <1>0, <1>1 DEF ManifestMeansWhole, Home, Complete, Sure
  <2>1. m \in Nodes /\ Home(gr, m) \in Dirs
    BY HomeIs, GraphsAssumption
  <2>2. CASE Home(gr, m) = home
    <3>1. n \in g.keeps /\ Value[gr][m] = Value[g][n] /\ Sure(g, n)
      BY <1>0, <2>1, <2>2, SharedHome
    <3> QED BY <1>2, <1>3, <2>1, <2>2, <3>1 DEF Made
  <2>3. CASE Home(gr, m) # home
    <3>1. final'[Home(gr, m)] = final[Home(gr, m)]
      BY <1>3, <2>1, <2>3
    <3>2. Home(gr, m) # at
      BY <1>0, <2>1, GraphsAssumption
    <3> QED BY <3>1, <3>2 DEF IInv, ManifestMeansWhole, Sure
  <2> QED BY <2>2, <2>3
<1>8. Planned'
  <2> SUFFICES ASSUME NEW m \in Nodes
      PROVE /\ job'[m] = "rest" => Complete(final'[Home(g, m)])
            /\ job'[m] = "done" /\ Lone(g, m) => Complete(final'[Home(g, m)])
            /\ job'[m] \notin {"rest", "done"} =>
                 (m \in g.keeps => ~Complete(final'[Home(g, m)]))
            /\ m \in Running' => \A i \in InputsOf(g, m) : job'[i] \in {"rest", "done"}
    BY <1>1 DEF Planned, Hit, Home, Complete, Lone
  <2>1. CASE m = n
    BY <1>0, <1>1, <1>2, <1>3, <1>5, <2>1 DEF Running
  <2>2. CASE m # n
    <3>1. /\ job[m] = "rest" => Complete(final[Home(g, m)])
          /\ job[m] = "done" /\ Lone(g, m) => Complete(final[Home(g, m)])
          /\ job[m] \notin {"rest", "done"} => (m \in g.keeps => ~Complete(final[Home(g, m)]))
          /\ m \in Running => \A i \in InputsOf(g, m) : job[i] \in {"rest", "done"}
      BY <1>1 DEF IInv, Planned, Hit
    <3>2. final'[Home(g, m)] = final[Home(g, m)] /\ job'[m] = job[m]
      BY <1>0, <1>3, <1>5, <2>2, OthersStaging, HomeIs
    <3>3. InputsOf(g, m) \subseteq Nodes
      BY <1>0, EarlierInputs
    <3> QED BY <1>5, <3>1, <3>2, <3>3 DEF Running
  <2> QED BY <2>1, <2>2
<1>9. Staged'
  <2> SUFFICES ASSUME NEW m \in Nodes, m # n, Lone(g, m)
               PROVE  Holds(tmp'[Fp[g][m]], m, job[m])
    BY <1>1, <1>5 DEF Staged, Holds, Made, Sure, Lone, Complete
  <2>1. tmp'[Fp[g][m]] = tmp[Fp[g][m]]
    BY <1>0, <1>4, OthersStaging, HomeIs
  <2> QED BY <1>1, <2>1 DEF IInv, Staged
<1>10. InHand'
  <2> SUFFICES ASSUME ~torn, NEW m \in Nodes,
                      (job'[m] = "done" /\ Sure(g, m)) \/ (job'[m] = "rest" /\ Read(m)')
               PROVE  results'[m] = Value[g][m]
    BY <1>1 DEF InHand, Sure
  <2>1. CASE m = n
    BY <1>0, <1>1, <1>5, <2>1, MakesRecipe
  <2>2. CASE m # n
    <3>1. job'[m] = job[m] /\ results'[m] = results[m]
      BY <1>5, <2>2
    <3>2. Read(m)' => Read(m)
      BY <1>1, <1>5 DEF Read, Sure
    <3> QED BY <1>1, <3>1, <3>2 DEF IInv, InHand
  <2> QED BY <2>1, <2>2
<1>11. Cleaning'
  BY <1>0, <1>1 DEF Cleaning
<1> QED BY <1>6, <1>7, <1>8, <1>9, <1>10, <1>11 DEF IInv

\* The end of a run, and the start of a cleanup.
LEMMA EndRunStep ==
  ASSUME IInv, EndRun PROVE IInv'
<1>0. at = None
  BY NotCleaning DEF EndRun
<1>1. /\ pc = "run" /\ pc' = "done" /\ \A n \in Nodes : job[n] \in {"rest", "done"}
      /\ UNCHANGED <<final, tmp, torn, g, job, results, at, runs, crashes>>
  BY DEF EndRun, disk
<1>2. TypeOK'
  BY <1>0, <1>1 DEF IInv, TypeOK
<1>3. ManifestMeansWhole' /\ Staged' /\ Cleaning'
  BY <1>0, <1>1 DEF IInv, ManifestMeansWhole, Home, Complete, Staged, Cleaning
<1>4. Planned'
  BY <1>1 DEF IInv, Planned, Hit, Home, Complete, Lone, Running
<1>5. InHand'
  BY <1>1 DEF IInv, InHand, Read, Sure
<1> QED BY <1>2, <1>3, <1>4, <1>5 DEF IInv

\* A run that is given up leaves the disk as it is.
LEMMA AbortRunStep ==
  ASSUME IInv, AbortRun PROVE IInv'
<1>0. at = None
  BY NotCleaning DEF AbortRun
<1>1. /\ pc' = "idle" /\ job' = [n \in Nodes |-> "rest"] /\ results' = [n \in Nodes |-> None]
      /\ UNCHANGED <<final, tmp, torn, g, at, runs, crashes>>
  BY DEF AbortRun, disk
<1>2. TypeOK'
  BY <1>0, <1>1 DEF IInv, TypeOK
<1>3. ManifestMeansWhole' /\ Staged' /\ Cleaning' /\ Planned' /\ InHand'
  BY <1>0, <1>1 DEF IInv, ManifestMeansWhole, Home, Complete, Staged, Cleaning, Planned, InHand
<1> QED BY <1>2, <1>3 DEF IInv

\* A cleanup starts outside of every directory.
LEMMA StartCleanStep ==
  ASSUME IInv, NEW gr \in Graphs, StartClean(gr) PROVE IInv'
<1>0. at = None
  BY NotCleaning DEF StartClean
<1>1. /\ pc' = "clean" /\ g' = gr /\ runs' \in 0..MaxRuns
      /\ UNCHANGED <<final, tmp, torn, job, results, at, crashes>>
  BY GraphsAssumption DEF StartClean, disk, IInv, TypeOK
<1>2. TypeOK'
  BY <1>0, <1>1 DEF IInv, TypeOK
<1>3. ManifestMeansWhole' /\ Staged' /\ Cleaning' /\ Planned' /\ InHand'
  BY <1>0, <1>1 DEF IInv, ManifestMeansWhole, Home, Complete, Staged, Cleaning, Planned, InHand
<1> QED BY <1>2, <1>3 DEF IInv

\* A cleanup goes through one directory after the other, and none is live.
LEMMA RemoveStep ==
  ASSUME IInv, NEW d \in Dirs, Remove(d) PROVE IInv'
<1>1. PICK rest \in Remains(final[d]) :
        final' = [final EXCEPT ![d] = rest] /\ at' = IF rest = None THEN None ELSE d
  BY DEF Remove
<1>2. /\ pc = "clean" /\ final[d] # None /\ d \notin Live(g) /\ at \in {None, d}
      /\ UNCHANGED <<tmp, torn, pc, g, job, results, runs, crashes>>
  BY DEF Remove, Orphans
<1>3. IsDirectory(rest) /\ (Complete(rest) => Complete(final[d]))
  BY <1>2, RemainsIs DEF IInv, TypeOK
<1>4. \A e \in Dirs : final'[e] = IF e = d THEN rest ELSE final[e]
  BY <1>1 DEF IInv, TypeOK
<1>5. TypeOK'
  <2>1. DOMAIN final' = Dirs /\ \A e \in Dirs : IsDirectory(final'[e])
    BY <1>1, <1>3, <1>4 DEF IInv, TypeOK
  <2>2. at' \in {None} \cup Dirs /\ (at' # None => pc' = "clean")
    BY <1>1, <1>2
  <2> QED BY <1>2, <2>1, <2>2 DEF IInv, TypeOK
<1>6. ManifestMeansWhole'
  <2> SUFFICES ASSUME NEW gr \in Graphs, NEW m \in gr.keeps, Sure(gr, m), ~torn,
                      Complete(final'[Home(gr, m)]), Home(gr, m) # at'
               PROVE  final'[Home(gr, m)].rows = Value[gr][m]
    BY <1>2 DEF ManifestMeansWhole, Home, Complete, Sure
  <2>1. Home(gr, m) \in Dirs
    BY HomeIs, GraphsAssumption
  <2>2. Home(gr, m) # d
    BY <1>1, <1>4, <2>1 DEF Complete
  <2>3. final'[Home(gr, m)] = final[Home(gr, m)] /\ Home(gr, m) # at
    BY <1>2, <1>4, <2>1, <2>2, GraphsAssumption
  <2> QED BY <2>3 DEF IInv, ManifestMeansWhole, Sure
<1>7. Planned' /\ Staged' /\ InHand'
  BY <1>2 DEF Planned, Staged, InHand
<1>8. Cleaning'
  <2>1. Live(g)' = Live(g)
    BY <1>2 DEF Live, Home
  <2> QED BY <1>1, <1>2, <1>4, <2>1 DEF Cleaning
<1> QED BY <1>5, <1>6, <1>7, <1>8 DEF IInv

\* A cleanup that ends has left every directory it went into.
LEMMA EndCleanStep ==
  ASSUME IInv, EndClean PROVE IInv'
<1>1. /\ pc' = "idle" /\ tmp' = [f \in Fps |-> IF Complete(tmp[f]) THEN tmp[f] ELSE None]
      /\ UNCHANGED <<final, torn, g, job, results, at, runs, crashes>>
  BY DEF EndClean
<1>2. at = None
  <2>1. at # None => at \in Orphans
    BY DEF IInv, TypeOK, Cleaning, Orphans
  <2> QED BY <2>1 DEF EndClean
<1>3. TypeOK'
  <2>1. IsDirectory(None)
    BY DEF IsDirectory
  <2>2. DOMAIN tmp' = Fps /\ \A f \in Fps : IsDirectory(tmp'[f])
    BY <1>1, <2>1 DEF IInv, TypeOK
  <2> QED BY <1>1, <1>2, <2>2 DEF IInv, TypeOK
<1>4. ManifestMeansWhole' /\ Staged' /\ Cleaning' /\ Planned' /\ InHand'
  BY <1>1, <1>2 DEF IInv, ManifestMeansWhole, Home, Complete, Staged, Cleaning, Planned, InHand
<1> QED BY <1>3, <1>4 DEF IInv

\* A death leaves the disk as it is; inside a directory it is remembered as torn.
LEMMA CrashStep ==
  ASSUME IInv, Crash PROVE IInv'
<1>1. /\ pc' = "idle" /\ crashes' \in 0..MaxCrashes /\ at' = None
      /\ job' = [n \in Nodes |-> "rest"] /\ results' = [n \in Nodes |-> None]
      /\ UNCHANGED <<final, tmp, g, runs>>
  BY GraphsAssumption DEF Crash, IInv, TypeOK
<1>2. torn' = (torn \/ at # None)
  BY DEF Crash
<1>3. torn' \in BOOLEAN
  BY <1>2
<1>4. ~torn' => ~torn /\ at = None
  BY <1>2, Zenon
<1>5. TypeOK'
  BY <1>1, <1>3 DEF IInv, TypeOK
<1>6. ManifestMeansWhole'
  <2> SUFFICES ASSUME NEW gr \in Graphs, NEW m \in gr.keeps, Sure(gr, m), ~torn',
                      Complete(final[Home(gr, m)])
               PROVE  final[Home(gr, m)].rows = Value[gr][m]
    BY <1>1 DEF ManifestMeansWhole, Home, Complete, Sure
  <2>1. Home(gr, m) # at
    BY <1>4, HomeIs, GraphsAssumption
  <2> QED BY <1>4, <2>1 DEF IInv, ManifestMeansWhole, Sure
<1>7. Staged' /\ Cleaning' /\ Planned' /\ InHand'
  BY <1>1 DEF Staged, Cleaning, Planned, InHand
<1> QED BY <1>5, <1>6, <1>7 DEF IInv

\* Every step keeps the invariant.
LEMMA StoreStaysSound == IInv /\ [Next]_vars => IInv'
<1> SUFFICES ASSUME IInv, [Next]_vars PROVE IInv'
  OBVIOUS
<1>1. ASSUME NEW gr \in Graphs, Start(gr) \/ StartClean(gr) PROVE IInv'
  BY <1>1, StartStep, StartCleanStep
<1>2. ASSUME NEW n \in Nodes, \/ Stage(n) \/ Write(n) \/ Seal(n)
                              \/ CheckStaging(n) \/ Clear(n) \/ Replace(n) \/ Raise(n)
      PROVE  IInv'
  BY <1>2, StageStep, WriteStep, SealStep, CheckOrRaiseStep, ClearStep, ReplaceStep
<1>3. CASE EndRun \/ AbortRun
  BY <1>3, EndRunStep, AbortRunStep
<1>4. ASSUME NEW d \in Dirs, Remove(d) PROVE IInv'
  BY <1>4, RemoveStep
<1>5. CASE EndClean
  BY <1>5, EndCleanStep
<1>6. CASE Crash
  BY <1>6, CrashStep
<1>7. CASE UNCHANGED vars
  BY <1>7 DEF vars, IInv, TypeOK, ManifestMeansWhole, Home, Complete, Planned, Hit, Running,
     Staged, Holds, Lone, Sure, Made, InHand, Read, Cleaning, Live
<1> QED BY <1>1, <1>2, <1>3, <1>4, <1>5, <1>6, <1>7 DEF Next, RunStep

\* The invariant holds throughout.
LEMMA StoreIsSound == Spec => []IInv
<1>1. Init => IInv
  BY StartsEmpty
<1>2. IInv /\ [Next]_vars => IInv'
  BY StoreStaysSound
<1> QED BY <1>1, <1>2, PTL DEF Spec

\* Whatever recipes share the store, a directory with a manifest has the rows of
\* every recipe that would find it, if its fingerprint says enough and until a cleanup
\* is killed inside a directory; what the other fingerprints do to their own
\* directories, two nodes in one staging directory included, does not reach it.
THEOREM ManifestsAreWhole == Spec => []ManifestMeansWhole
<1>1. IInv => ManifestMeansWhole
  BY DEF IInv
<1> QED BY <1>1, StoreIsSound, PTL

\* A run that reads some of its nodes back from the store makes what a fresh one
\* would have made, node by node as far as the fingerprints say enough; and every
\* node that had its staging directory to itself ends as a hit.
THEOREM RunsMakeRecipes == Spec => []RunMakesRecipe
<1>1. IInv => RunMakesRecipe
  <2> SUFFICES ASSUME IInv PROVE RunMakesRecipe
    OBVIOUS
  <2>1. ASSUME pc = "done", NEW n \in Nodes
        PROVE  /\ Lone(g, n) => Hit(g, n)
               /\ Fp[g][n] \in Sound /\ ~torn =>
                    /\ n \in g.keeps => final[Home(g, n)].rows = Value[g][n]
                    /\ job[n] = "done" => results[n] = Value[g][n]
    <3>1. Lone(g, n) => Hit(g, n)
      BY <2>1 DEF IInv, Planned
    <3>2. Home(g, n) # at /\ g \in Graphs
      BY <2>1, NotCleaning, HomeIs, GraphsAssumption DEF IInv, TypeOK
    <3>3. Sure(g, n) => Lone(g, n)
      BY <3>2, SoundIs
    <3>4. Sure(g, n) /\ n \in g.keeps /\ ~torn => final[Home(g, n)].rows = Value[g][n]
      BY <3>1, <3>2, <3>3 DEF IInv, ManifestMeansWhole, Hit, Sure
    <3>5. Sure(g, n) /\ job[n] = "done" /\ ~torn => results[n] = Value[g][n]
      BY <2>1 DEF IInv, InHand
    <3> QED BY <3>1, <3>4, <3>5 DEF Sure
  <2> QED BY <2>1 DEF RunMakesRecipe, IInv
<1> QED BY <1>1, StoreIsSound, PTL

\* What a recipe in use has cached is neither computed again nor removed.
THEOREM CachedRowsAreKept == Spec => CachedRowsStay
<1> DEFINE Stay == \A gr \in Graphs : \A n \in gr.keeps :
                     LET d == Home(gr, n) IN
                     Complete(final[d]) /\ final'[d] # final[d]
                       => pc = "clean" /\ d \notin Live(g)
<1>1. IInv /\ [Next]_vars => [Stay]_vars
  <2> SUFFICES ASSUME IInv, Next, NEW gr \in Graphs, NEW n \in gr.keeps,
                      Complete(final[Home(gr, n)]), final'[Home(gr, n)] # final[Home(gr, n)]
               PROVE  pc = "clean" /\ Home(gr, n) \notin Live(g)
    OBVIOUS
  <2>1. n \in Nodes /\ Home(gr, n) \in Dirs /\ g \in Graphs
    BY HomeIs, GraphsAssumption DEF IInv, TypeOK
  <2>2. ASSUME NEW m \in Nodes, Clear(m) PROVE FALSE
    <3>1. Home(gr, n) = Home(g, m)
      BY <2>1, <2>2 DEF Clear, IInv, TypeOK
    <3>2. m \in g.keeps
      BY <2>1, <3>1, SharedHome
    <3>3. ~Complete(final[Home(g, m)])
      BY <2>2, <3>2 DEF Clear, IInv, Planned, Hit
    <3> QED BY <3>1, <3>3
  <2>3. ASSUME NEW m \in Nodes, Replace(m) PROVE FALSE
    <3>1. Home(gr, n) = Home(g, m)
      BY <2>1, <2>3 DEF Replace, IInv, TypeOK
    <3> QED BY <2>3, <3>1 DEF Replace, Complete
  <2>4. ASSUME NEW d \in Dirs, Remove(d)
        PROVE  pc = "clean" /\ Home(gr, n) \notin Live(g)
    <3>1. Home(gr, n) = d
      BY <2>1, <2>4 DEF Remove, IInv, TypeOK
    <3> QED BY <2>4, <3>1 DEF Remove, Orphans
  <2>5. \/ \E m \in Nodes : Clear(m) \/ Replace(m)
        \/ \E d \in Dirs : Remove(d)
    BY DEF Next, RunStep, Start, StartClean, Stage, Write, Seal, CheckStaging, Raise,
       EndRun, AbortRun, EndClean, Crash, disk
  <2> QED BY <2>2, <2>3, <2>4, <2>5
<1> HIDE DEF Stay
<1>2. Spec => [][Stay]_vars
  BY <1>1, StoreIsSound, PTL DEF Spec
<1> QED BY <1>2 DEF CachedRowsStay, Stay

------------------------------------------------------------------------------
(* The place of a run in its data.  The inductive invariant ties four      *)
(* places together: the trainer's counters, the batches handed over, those *)
(* drawn and queued, and the walk of the sampler they were drawn from.     *)

\* Batch number n of the stream begins at this place of an epoch's walk.
At(w, n) ==
  /\ w \in Places
  /\ \E k \in 0..PerEpoch : w.at = k * c.bs /\ w.epoch * PerEpoch + k = n

Shapes ==
  /\ c \in Configs /\ waiting \in BOOLEAN
  /\ epoch \in Nat /\ batch \in Nat /\ batch <= taken
  /\ sampler \in Places /\ (walk = Nothing \/ walk \in Places)
  /\ queue \in Seq(Drawn) /\ (got = Nothing \/ got \in Drawn)
  /\ taken \in Nat /\ taken <= MaxTaken /\ (waiting => taken < MaxTaken)
  /\ deaths \in 0..MaxDeaths

\* The walk goes on where the batches drawn so far end, and so does the sampler
\* once the walk has ended; a sampler that counts is at the place of its walk.
Position ==
  /\ walk # Nothing => /\ At(walk, taken + Len(queue)) /\ sampler.epoch = walk.epoch
                    /\ sampler.at = IF c.counting THEN walk.at ELSE 0
  /\ walk = Nothing => sampler.at = 0 /\ sampler.epoch * PerEpoch = taken + Len(queue)

\* The batches drawn are those that follow the ones handed over.
Stream == [n \in Nat |-> Reference(n)]
Following ==
  /\ \A i \in 1..Len(queue) : queue[i] = Stream[taken + i - 1]
  /\ got # Nothing => taken > 0 /\ got = Stream[taken - 1]

\* Of a loader without prefetch nothing is drawn but what the loop waits for.
Ahead ==
  /\ Len(queue) <= c.ahead + 1
  /\ c.ahead = 0 => Len(queue) <= IF waiting THEN 1 ELSE 0

\* The trainer is in the epoch of the walk.
Counters == c.seeks =>
  /\ epoch * PerEpoch + batch = taken
  /\ walk # Nothing => walk.epoch = epoch
  /\ walk = Nothing => sampler.epoch = epoch + 1

\* What a resume goes by leads to the batch after the checkpoint.
Saved == ckpt # Nothing =>
  /\ ckpt \in [epoch : Nat, batch : Nat, sampler : Places, taken : 0..MaxTaken]
  /\ ckpt.batch <= ckpt.taken
  /\ c.seeks => At(SeekTo(ckpt.epoch, ckpt.batch), ckpt.taken) /\ ckpt.batch <= PerEpoch
                /\ ckpt.epoch * PerEpoch + ckpt.batch = ckpt.taken
  /\ ~c.seeks => At(ckpt.sampler, ckpt.taken)

PositionInv == Shapes /\ Position /\ Following /\ Ahead /\ Counters /\ Saved

\* Data modules that can be resumed in place: with a seek, or a sampler that
\* counts under a loader that does not prefetch.
Resumable == \A d \in Configs : d.seeks \/ (d.counting /\ d.ahead = 0)

\* The quotient is the largest multiple that fits.
LEMMA Quotient ==
  ASSUME NEW a \in Nat, NEW b \in Nat \ {0}
  PROVE  a \div b \in Nat /\ (a \div b) * b <= a /\ a < (a \div b) * b + b
<1> DEFINE q == a \div b  r == a % b
<1>1. q \in Int /\ r \in 0..b - 1 /\ a = b * q + r
  BY SMT
<1> HIDE DEF q, r
<1>2. q >= 0
  <2>1. CASE q <= -1
    <3>1. b * q <= b * (-1)
      BY <1>1, <2>1, SMTT(30)
    <3> QED BY <1>1, <3>1
  <2> QED BY <1>1, <2>1
<1>3. b * q = q * b
  BY <1>1
<1>4. q \in Nat /\ q * b <= a /\ a < q * b + b
  BY <1>1, <1>2, <1>3
<1> QED BY <1>4 DEF q

\* Fewer batches have fewer indices, and conversely.
LEMMA Fewer ==
  ASSUME NEW x \in Int, NEW y \in Int, NEW b \in Nat \ {0}, x * b < y * b
  PROVE  x < y
<1>1. CASE y <= x
  <2>1. y * b <= x * b
    BY <1>1, SMTT(30)
  <2> QED BY <2>1
<1> QED BY <1>1

\* Batch k of epoch e, counted through the epochs and back.
LEMMA PlaceInStream ==
  ASSUME NEW p \in Nat \ {0}, NEW e \in Nat, NEW k \in 0..p - 1
  PROVE  (e * p + k) \div p = e /\ ((e * p + k) % p) = k /\ e * p + k \in Nat
<1> DEFINE n == e * p + k
           q == n \div p
           r == n % p
<1>0. e * p \in Nat
  BY SMT
<1>1. n \in Nat
  BY <1>0
<1>2. q \in Int /\ r \in 0..p - 1 /\ n = p * q + r
  <2> HIDE DEF n
  <2> QED BY <1>1, SMT
<1>3. e * p + k = p * q + r
  BY <1>2
<1> HIDE DEF n, q, r
<1>4. p * (q - e) = k - r
  BY <1>2, <1>3, SMTT(30)
<1>5. CASE q - e >= 1
  <2>1. p * (q - e) >= p
    BY <1>2, <1>5, SMTT(30)
  <2> QED BY <1>2, <1>4, <2>1
<1>6. CASE q - e <= -1
  <2>1. p * (q - e) <= -p
    BY <1>2, <1>6, SMTT(30)
  <2> QED BY <1>2, <1>4, <2>1
<1>7. CASE q = e
  <2>1. p * (q - e) = 0
    BY <1>2, <1>7
  <2>2. r = k
    BY <1>2, <1>4, <2>1
  <2> QED BY <1>1, <1>7, <2>2 DEF n, q, r
<1> QED BY <1>2, <1>5, <1>6, <1>7

\* What an epoch has: full batches, and one short one unless it is dropped.
LEMMA EpochEnds ==
  ASSUME c \in Configs
  PROVE  /\ c.size \in Nat /\ c.bs \in Nat \ {0} /\ c.ahead \in Nat
         /\ c.dropLast \in BOOLEAN /\ c.counting \in BOOLEAN /\ c.seeks \in BOOLEAN
         /\ PerEpoch \in Nat \ {0}
         /\ c.dropLast => PerEpoch * c.bs <= c.size /\ c.size < PerEpoch * c.bs + c.bs
         /\ ~c.dropLast => PerEpoch * c.bs < c.size + c.bs /\ c.size <= PerEpoch * c.bs
<1>1. /\ c.size \in Nat /\ c.bs \in Nat \ {0} /\ c.ahead \in Nat /\ c.size >= c.bs
      /\ c.dropLast \in BOOLEAN /\ c.counting \in BOOLEAN /\ c.seeks \in BOOLEAN
  BY PositionAssumption DEF Config
<1> DEFINE s == c.size  b == c.bs
<1>2. CASE c.dropLast
  <2>1. PerEpoch = s \div b
    BY <1>2 DEF PerEpoch
  <2>2. PerEpoch \in Nat /\ PerEpoch * b <= s /\ s < PerEpoch * b + b
    BY <1>1, <2>1, Quotient
  <2>3. PerEpoch # 0
    BY <1>1, <2>2
  <2> QED BY <1>1, <1>2, <2>2, <2>3
<1>3. CASE ~c.dropLast
  <2>1. PerEpoch = (s + b - 1) \div b /\ s + b - 1 \in Nat
    BY <1>1, <1>3 DEF PerEpoch
  <2>2. PerEpoch \in Nat /\ PerEpoch * b <= s + b - 1 /\ s + b - 1 < PerEpoch * b + b
    BY <1>1, <2>1, Quotient
  <2>3. PerEpoch # 0
    BY <1>1, <2>2
  <2>4. PerEpoch * b \in Nat
    BY <1>1, <2>2, SMT
  <2> QED BY <1>1, <1>3, <2>2, <2>3, <2>4
<1> QED BY <1>2, <1>3

\* A full batch begins before the end of the epoch; a walk that has no full one
\* left is at the short batch, or at the end.
LEMMA WalkEnds ==
  ASSUME c \in Configs, NEW k \in 0..PerEpoch
  PROVE  /\ k * c.bs \in Nat /\ (k + 1) * c.bs = k * c.bs + c.bs
         /\ k * c.bs + c.bs <= c.size => k < PerEpoch
         /\ k * c.bs + c.bs > c.size =>
              IF k * c.bs < c.size /\ ~c.dropLast THEN k + 1 = PerEpoch ELSE k = PerEpoch
<1> DEFINE p == PerEpoch  b == c.bs  s == c.size
<1>1. /\ s \in Nat /\ b \in Nat \ {0} /\ p \in Nat \ {0} /\ k \in Nat /\ k <= p
      /\ c.dropLast => p * b <= s /\ s < p * b + b
      /\ ~c.dropLast => p * b < s + b /\ s <= p * b
  BY EpochEnds
<1> HIDE DEF p, b, s
<1>2. k * b \in Nat /\ p * b \in Nat /\ (k + 1) * b = k * b + b /\ (p + 1) * b = p * b + b
      /\ (k + 2) * b = k * b + b + b
  BY <1>1, SMTT(30)
<1>3. k * b + b <= s => k < p
  <2>1. SUFFICES ASSUME k * b + b <= s PROVE k < p
    OBVIOUS
  <2>2. k * b < p * b
    BY <1>1, <1>2, <2>1
  <2> QED BY <1>1, <2>2, Fewer
<1>4. k * b + b > s => IF k * b < s /\ ~c.dropLast THEN k + 1 = p ELSE k = p
  <2>1. SUFFICES ASSUME k * b + b > s
                 PROVE  IF k * b < s /\ ~c.dropLast THEN k + 1 = p ELSE k = p
    OBVIOUS
  <2>2. CASE k * b < s /\ ~c.dropLast
    <3>1. k * b < p * b /\ p * b < (k + 2) * b
      BY <1>1, <1>2, <2>1, <2>2
    <3>2. k < p
      BY <1>1, <3>1, Fewer
    <3>3. p < k + 2
      BY <1>1, <3>1, Fewer
    <3> QED BY <1>1, <2>2, <3>2, <3>3
  <2>3. CASE ~(k * b < s /\ ~c.dropLast)
    <3>1. p * b < (k + 1) * b
      BY <1>1, <1>2, <2>1, <2>3
    <3>2. p < k + 1
      BY <1>1, <3>1, Fewer
    <3> QED BY <1>1, <2>3, <3>2
  <2> QED BY <2>2, <2>3
<1> QED BY <1>2, <1>3, <1>4 DEF p, b, s

\* What the reference says of batch k of epoch e.
LEMMA ReferenceAt ==
  ASSUME c \in Configs, NEW e \in Nat, NEW k \in 0..PerEpoch - 1
  PROVE  Reference(e * PerEpoch + k) =
           [epoch |-> e, first |-> k * c.bs, len |-> MinOf(c.bs, c.size - k * c.bs)]
<1>1. PerEpoch \in Nat \ {0}
  BY EpochEnds
<1>2. /\ (e * PerEpoch + k) \div PerEpoch = e
      /\ ((e * PerEpoch + k) % PerEpoch) = k
  BY <1>1, PlaceInStream
<1> QED BY <1>2 DEF Reference

\* The data module is the same in every state of a run, and so is its stream.
LEMMA SameStream ==
  [PositionNext]_positionVars => c' = c /\ PerEpoch' = PerEpoch /\ Stream' = Stream
BY DEF PositionNext, positionVars, AskNext, DrawFull, DrawLast, Take,
   NewEpoch, Save, CrashResume, PerEpoch,
       Stream, Reference

\* A queue with a batch more, and with one less.
LEMMA PutBatch ==
  ASSUME NEW q \in Seq(Drawn), NEW d \in Drawn
  PROVE  /\ Append(q, d) \in Seq(Drawn) /\ Len(Append(q, d)) = Len(q) + 1 /\ Len(q) \in Nat
         /\ \A i \in 1..Len(q) : Append(q, d)[i] = q[i]
         /\ Append(q, d)[Len(q) + 1] = d
OBVIOUS

\* The rest of a queue.
LEMMA TakeBatch ==
  ASSUME NEW q \in Seq(Drawn), q # <<>>
  PROVE  /\ Tail(q) \in Seq(Drawn) /\ Len(Tail(q)) = Len(q) - 1 /\ Len(q) \in Nat \ {0}
         /\ Head(q) = q[1] /\ Head(q) \in Drawn
         /\ \A i \in 1..Len(q) - 1 : Tail(q)[i] = q[i + 1]
OBVIOUS

\* A new run is at the beginning of its stream.
LEMMA StartsInPlace ==
  PositionInit => PositionInv
<1> SUFFICES ASSUME PositionInit PROVE PositionInv
  OBVIOUS
<1>0. c \in Configs /\ PerEpoch \in Nat \ {0} /\ c.bs \in Nat \ {0} /\ c.ahead \in Nat
  BY EpochEnds DEF PositionInit
<1>1. /\ Origin \in Places /\ Origin # Nothing /\ Origin.epoch = 0
      /\ Origin.at = 0
  BY PositionAssumption DEF Places, Origin
<1>2. At(Origin, 0)
  <2>1. 0 \in 0..PerEpoch /\ 0 = 0 * c.bs /\ 0 * PerEpoch + 0 = 0
    BY <1>0
  <2> QED BY <1>1, <2>1 DEF At
<1>3. Shapes
  <2>1. waiting \in BOOLEAN /\ ~waiting
    BY DEF PositionInit
  <2>2. queue \in Seq(Drawn) /\ MaxTaken \in Nat /\ MaxDeaths \in Nat
    BY PositionAssumption DEF PositionInit
  <2> QED BY <1>0, <1>1, <2>1, <2>2 DEF PositionInit, Shapes
<1>4. Position /\ Following /\ Ahead /\ Saved
  BY <1>0, <1>1, <1>2 DEF PositionInit, Position, Following, Ahead, Saved
<1>5. Counters
  BY <1>0, <1>1 DEF PositionInit, Counters
<1> QED BY <1>3, <1>4, <1>5 DEF PositionInv

\* The place of a walk after the batches drawn so far.
LEMMA WalkAt ==
  ASSUME PositionInv, Wanted
  PROVE  \E k \in 0..PerEpoch :
           /\ walk.at = k * c.bs /\ walk.epoch \in Nat
           /\ walk.epoch * PerEpoch + k = taken + Len(queue)
BY DEF PositionInv, Position, Wanted, At, Places

\* Drawing one batch keeps a queue in order.
LEMMA Longer ==
  ASSUME PositionInv, [PositionNext]_positionVars,
         NEW e \in Nat, NEW k \in 0..PerEpoch - 1,
         e * PerEpoch + k = taken + Len(queue), UNCHANGED <<taken, got>>,
         NEW d \in Drawn, queue' = Append(queue, d), d.epoch = e, d.first = k * c.bs,
         d.len = MinOf(c.bs, c.size - k * c.bs)
  PROVE  Following' /\ queue' \in Seq(Drawn) /\ Len(queue') = Len(queue) + 1
<1>1. /\ queue \in Seq(Drawn) /\ taken \in Nat /\ Len(queue) \in Nat /\ Stream' = Stream
      /\ c \in Configs
  BY SameStream DEF PositionInv, Shapes
<1>2. /\ queue' \in Seq(Drawn) /\ Len(queue') = Len(queue) + 1
      /\ \A i \in 1..Len(queue) : queue'[i] = queue[i]
      /\ queue'[Len(queue) + 1] = d
  BY <1>1, PutBatch
<1>3. d = Stream[taken + Len(queue)]
  <2>1. Reference(taken + Len(queue)) =
          [epoch |-> e, first |-> k * c.bs, len |-> MinOf(c.bs, c.size - k * c.bs)]
    BY <1>1, ReferenceAt
  <2>2. d = [epoch |-> e, first |-> k * c.bs, len |-> MinOf(c.bs, c.size - k * c.bs)]
    BY DEF Drawn
  <2> QED BY <1>1, <2>1, <2>2 DEF Stream
<1>4. ASSUME NEW i \in 1..Len(queue') PROVE queue'[i] = Stream[taken + i - 1]
  <2>1. CASE i = Len(queue) + 1
    <3>1. taken + i - 1 = taken + Len(queue)
      BY <1>1, <2>1
    <3> QED BY <1>2, <1>3, <2>1, <3>1
  <2>2. CASE i \in 1..Len(queue)
    BY <1>2, <2>2 DEF PositionInv, Following
  <2> QED BY <1>1, <1>2, <2>1, <2>2
<1> QED BY <1>1, <1>2, <1>4 DEF PositionInv, Following

\* Taking a batch keeps it in order.
LEMMA Shorter ==
  ASSUME PositionInv, Take
  PROVE  /\ Following' /\ queue' \in Seq(Drawn) /\ got' \in Drawn
         /\ Len(queue') = Len(queue) - 1 /\ taken' = taken + 1
         /\ taken' + Len(queue') = taken + Len(queue)
<1>1. /\ queue \in Seq(Drawn) /\ taken \in Nat /\ queue # <<>> /\ queue' = Tail(queue)
      /\ got' = Head(queue) /\ taken' = taken + 1 /\ Stream' = Stream
  BY SameStream DEF PositionInv, Shapes, Take, PositionNext
<1>2. /\ queue' \in Seq(Drawn) /\ Len(queue') = Len(queue) - 1 /\ Len(queue) \in Nat \ {0}
      /\ got' = queue[1] /\ got' \in Drawn
      /\ \A i \in 1..Len(queue) - 1 : queue'[i] = queue[i + 1]
  BY <1>1, TakeBatch
<1>3. ASSUME NEW i \in 1..Len(queue') PROVE queue'[i] = Stream[taken' + i - 1]
  <2>1. i + 1 \in 1..Len(queue) /\ queue'[i] = queue[i + 1]
    BY <1>2
  <2>2. queue[i + 1] = Stream[taken + (i + 1) - 1] /\ taken + (i + 1) - 1 = taken' + i - 1
    BY <1>1, <2>1 DEF PositionInv, Following
  <2> QED BY <2>1, <2>2
<1>4. got' = Stream[taken' - 1]
  <2>1. queue[1] = Stream[taken + 1 - 1] /\ taken + 1 - 1 = taken' - 1
    BY <1>1, <1>2 DEF PositionInv, Following
  <2> QED BY <1>2, <2>1
<1> QED BY <1>1, <1>2, <1>3, <1>4 DEF Following

\* Taking one is what the loop waits for; asking and saving change no place.
LEMMA StandsStep ==
  ASSUME PositionInv, AskNext \/ UNCHANGED positionVars
  PROVE  PositionInv'
<1>0. /\ c \in Configs /\ PerEpoch' = PerEpoch /\ Stream' = Stream
      /\ [PositionNext]_positionVars
  BY SameStream DEF PositionInv, Shapes, PositionNext
<1>1. UNCHANGED <<c, epoch, batch, got, taken, sampler, walk, queue, ckpt, deaths>>
  BY DEF AskNext, positionVars, counters, loader
<1>2. waiting' \in BOOLEAN /\ (waiting' => waiting \/ taken < MaxTaken) /\ (waiting => waiting')
  <2>1. waiting \in BOOLEAN /\ (waiting => taken < MaxTaken)
    BY DEF PositionInv, Shapes
  <2>2. CASE AskNext
    <3>1. waiting' = TRUE /\ taken < MaxTaken
      BY <2>2 DEF AskNext
    <3> QED BY <3>1
  <2>3. CASE UNCHANGED positionVars
    <3>1. waiting' = waiting
      BY <2>3 DEF positionVars
    <3> QED BY <2>1, <3>1, Zenon
  <2> QED BY <2>2, <2>3
<1>3. Shapes'
  BY <1>1, <1>2 DEF PositionInv, Shapes
<1>4. Position' /\ Following'
  BY <1>0, <1>1 DEF PositionInv, Position, Following, At
<1>5. Ahead'
  <2>1. Len(queue) \in Nat
    BY DEF PositionInv, Shapes
  <2> QED BY <1>1, <1>2, <2>1 DEF PositionInv, Ahead
<1>6. Counters' /\ Saved'
  BY <1>0, <1>1 DEF PositionInv, Counters, Saved, At, SeekTo
<1> QED BY <1>3, <1>4, <1>5, <1>6 DEF PositionInv

\* A batch handed over is the next one of the stream.
LEMMA TakeStep ==
  ASSUME PositionInv, Take
  PROVE  PositionInv'
<1>0. c \in Configs /\ PerEpoch' = PerEpoch /\ [PositionNext]_positionVars
  BY SameStream DEF PositionInv, Shapes, PositionNext
<1>1. /\ UNCHANGED <<c, epoch, sampler, walk, ckpt, deaths>> /\ batch' = batch + 1
      /\ waiting
  BY DEF Take
<1>2. /\ Following' /\ queue' \in Seq(Drawn) /\ got' \in Drawn
      /\ Len(queue') = Len(queue) - 1 /\ taken' = taken + 1
      /\ taken' + Len(queue') = taken + Len(queue) /\ Len(queue) \in Nat /\ taken \in Nat
  BY Shorter DEF PositionInv, Shapes
<1>3. waiting' = FALSE
  BY DEF Take
<1>4. Shapes'
  <2>1. waiting' \in BOOLEAN /\ ~waiting'
    BY <1>3
  <2> QED BY PositionAssumption, <1>1, <1>2, <2>1 DEF PositionInv, Shapes
<1>5. Position'
  BY <1>0, <1>1, <1>2 DEF PositionInv, Position, At
<1>6. Ahead'
  BY <1>1, <1>2, EpochEnds, <1>0 DEF PositionInv, Ahead
<1>7. Counters'
  <2>1. epoch * PerEpoch \in Int /\ batch \in Nat
    BY <1>0, EpochEnds DEF PositionInv, Shapes
  <2> QED BY <1>0, <1>1, <1>2, <2>1 DEF PositionInv, Counters
<1>8. Saved'
  BY <1>0, <1>1 DEF PositionInv, Saved, At, SeekTo
<1> QED BY <1>2, <1>4, <1>5, <1>6, <1>7, <1>8 DEF PositionInv

\* A full batch drawn is the one after those drawn before.
LEMMA DrawFullStep ==
  ASSUME PositionInv, DrawFull
  PROVE  PositionInv'
<1>0. /\ c \in Configs /\ PerEpoch' = PerEpoch /\ PerEpoch \in Nat \ {0}
      /\ [PositionNext]_positionVars
  BY SameStream, EpochEnds DEF PositionInv, Shapes, PositionNext
<1> DEFINE d == [epoch |-> walk.epoch, first |-> walk.at, len |-> c.bs]
<1>1. /\ UNCHANGED <<c, waiting, epoch, batch, got, taken, ckpt, deaths>>
      /\ queue' = Append(queue, d) /\ walk # Nothing /\ Wanted
      /\ walk' = [walk EXCEPT !.at = @ + c.bs]
      /\ sampler' = IF c.counting THEN [sampler EXCEPT !.at = @ + c.bs] ELSE sampler
  BY DEF DrawFull, counters, Wanted
<1>2. PICK k \in 0..PerEpoch :
        /\ walk.at = k * c.bs /\ walk.epoch \in Nat
        /\ walk.epoch * PerEpoch + k = taken + Len(queue)
  BY <1>1, WalkAt
<1>3. /\ k + 1 \in 0..PerEpoch /\ k \in 0..PerEpoch - 1
      /\ (k + 1) * c.bs = walk.at + c.bs
      /\ walk.at + c.bs <= c.size /\ walk.at \in Nat /\ c.bs \in Nat \ {0}
      /\ c.size \in Nat
  <2>1. walk.at + c.bs <= c.size
    BY DEF DrawFull
  <2>2. /\ k * c.bs \in Nat /\ (k + 1) * c.bs = k * c.bs + c.bs
        /\ k * c.bs + c.bs <= c.size => k < PerEpoch
    BY <1>0, WalkEnds
  <2>3. c.bs \in Nat \ {0} /\ c.size \in Nat
    BY <1>0, EpochEnds
  <2> QED BY <1>0, <1>2, <2>1, <2>2, <2>3
<1>4. /\ d \in Drawn /\ d.epoch = walk.epoch /\ d.first = k * c.bs
      /\ d.len = MinOf(c.bs, c.size - k * c.bs)
  <2>1. MinOf(c.bs, c.size - k * c.bs) = c.bs
    <3>1. MinOf(c.bs, c.size - walk.at) = c.bs
      BY <1>3 DEF MinOf
    <3> QED BY <1>2, <3>1
  <2> QED BY <1>2, <1>3, <2>1 DEF Drawn
<1> HIDE DEF d
<1>5. Following' /\ queue' \in Seq(Drawn) /\ Len(queue') = Len(queue) + 1
  BY <1>0, <1>1, <1>2, <1>3, <1>4, Longer
<1>6. /\ walk \in Places /\ sampler \in Places /\ Len(queue) \in Nat /\ taken \in Nat
      /\ queue \in Seq(Drawn)
  BY <1>1 DEF PositionInv, Shapes
<1>7. /\ walk' \in Places /\ walk'.at = (k + 1) * c.bs /\ walk'.epoch = walk.epoch
      /\ walk' # Nothing
  <2>1. walk.at + c.bs \in Nat
    BY <1>3
  <2>2. walk' \in Places /\ walk'.at = walk.at + c.bs /\ walk'.epoch = walk.epoch
    BY <1>1, <1>6, <2>1 DEF Places
  <2> QED BY PositionAssumption, <1>3, <2>2
<1>8. /\ sampler' \in Places /\ sampler'.epoch = sampler.epoch
      /\ sampler'.at = IF c.counting THEN sampler.at + c.bs ELSE sampler.at
  <2>1. sampler.at + c.bs \in Nat
    BY <1>3, <1>6 DEF Places
  <2>2. CASE c.counting
    BY <1>1, <1>6, <2>1, <2>2 DEF Places
  <2>3. CASE ~c.counting
    BY <1>1, <1>6, <2>3
  <2> QED BY <2>2, <2>3
<1>9. Shapes'
  BY <1>1, <1>5, <1>7, <1>8 DEF PositionInv, Shapes
<1>10. Position'
  <2>1. walk'.epoch * PerEpoch + (k + 1) = taken + Len(queue')
    <3>1. walk.epoch * PerEpoch \in Int
      BY <1>0, <1>2
    <3> QED BY <1>2, <1>5, <1>6, <1>7, <3>1
  <2>2. At(walk, taken + Len(queue))'
    BY <1>0, <1>1, <1>3, <1>7, <2>1 DEF At
  <2>3. /\ sampler'.epoch = walk'.epoch
        /\ sampler'.at = IF c.counting THEN walk'.at ELSE 0
    BY <1>1, <1>3, <1>7, <1>8 DEF PositionInv, Position
  <2> QED BY <1>1, <1>7, <2>2, <2>3 DEF Position
<1>11. Ahead'
  <2>1. c.ahead \in Nat
    BY <1>0, EpochEnds
  <2>2. Len(queue) < c.ahead \/ (waiting /\ Len(queue) = 0)
    BY <1>1, <1>6 DEF Wanted
  <2> QED BY <1>1, <1>5, <1>6, <2>1, <2>2 DEF PositionInv, Ahead
<1>12. Counters'
  BY <1>0, <1>1, <1>7, <1>8 DEF PositionInv, Counters
<1>13. Saved'
  BY <1>0, <1>1 DEF PositionInv, Saved, At, SeekTo
<1> QED BY <1>5, <1>9, <1>10, <1>11, <1>12, <1>13 DEF PositionInv

\* So is a short one at the end of a walk; the sampler is then at the next epoch.
LEMMA DrawLastStep ==
  ASSUME PositionInv, DrawLast
  PROVE  PositionInv'
<1>0. /\ c \in Configs /\ PerEpoch' = PerEpoch /\ PerEpoch \in Nat \ {0}
      /\ [PositionNext]_positionVars
  BY SameStream, EpochEnds DEF PositionInv, Shapes, PositionNext
<1>1. /\ UNCHANGED <<c, waiting, epoch, batch, got, taken, ckpt, deaths>>
      /\ walk # Nothing /\ Wanted /\ walk' = Nothing /\ walk.at + c.bs > c.size
      /\ sampler' = [epoch |-> sampler.epoch + 1, at |-> 0]
  BY DEF DrawLast, counters, Wanted
<1>2. PICK k \in 0..PerEpoch :
        /\ walk.at = k * c.bs /\ walk.epoch \in Nat
        /\ walk.epoch * PerEpoch + k = taken + Len(queue)
  BY <1>1, WalkAt
<1>3. /\ IF walk.at < c.size /\ ~c.dropLast THEN k + 1 = PerEpoch ELSE k = PerEpoch
      /\ walk.at \in Nat /\ c.bs \in Nat \ {0} /\ c.size \in Nat
  BY <1>0, <1>1, <1>2, WalkEnds, EpochEnds
<1>4. /\ walk \in Places /\ sampler \in Places /\ Len(queue) \in Nat /\ taken \in Nat
      /\ queue \in Seq(Drawn) /\ sampler.epoch = walk.epoch
  BY <1>1 DEF PositionInv, Shapes, Position
<1>5. /\ sampler' \in Places /\ sampler'.epoch = walk.epoch + 1 /\ sampler'.at = 0
  BY <1>1, <1>2, <1>4 DEF Places
<1>6. sampler'.epoch * PerEpoch = walk.epoch * PerEpoch + PerEpoch
  <2>1. (walk.epoch + 1) * PerEpoch = walk.epoch * PerEpoch + PerEpoch
    BY <1>0, <1>2, SMTT(30)
  <2> QED BY <1>5, <2>1
<1>7. walk.epoch * PerEpoch \in Int
  BY <1>0, <1>2
<1>8. /\ Following' /\ queue' \in Seq(Drawn)
      /\ taken + Len(queue') = sampler'.epoch * PerEpoch
      /\ Len(queue') <= Len(queue) + 1
  <2>1. CASE walk.at < c.size /\ ~c.dropLast
    <3> DEFINE d == [epoch |-> walk.epoch, first |-> walk.at, len |-> c.size - walk.at]
    <3>1. queue' = Append(queue, d)
      BY <2>1 DEF DrawLast
    <3>2. k + 1 = PerEpoch /\ k \in 0..PerEpoch - 1
      BY <1>0, <1>3, <2>1
    <3>3. /\ d \in Drawn /\ d.epoch = walk.epoch /\ d.first = k * c.bs
          /\ d.len = MinOf(c.bs, c.size - k * c.bs)
      <4>1. MinOf(c.bs, c.size - walk.at) = c.size - walk.at
        BY <1>1, <1>3 DEF MinOf
      <4>2. c.size - walk.at \in Nat \ {0}
        BY <1>3, <2>1
      <4>3. MinOf(c.bs, c.size - k * c.bs) = c.size - walk.at
        BY <1>2, <4>1
      <4> QED BY <1>2, <1>3, <4>2, <4>3 DEF Drawn
    <3> HIDE DEF d
    <3>4. Following' /\ queue' \in Seq(Drawn) /\ Len(queue') = Len(queue) + 1
      BY <1>0, <1>1, <1>2, <3>1, <3>2, <3>3, Longer
    <3> QED BY <1>2, <1>4, <1>6, <1>7, <3>2, <3>4
  <2>2. CASE ~(walk.at < c.size /\ ~c.dropLast)
    <3>1. queue' = queue /\ k = PerEpoch
      BY <1>3, <2>2 DEF DrawLast
    <3>2. Following'
      BY <1>0, <1>1, <3>1, SameStream DEF PositionInv, Following
    <3> QED BY <1>2, <1>4, <1>6, <1>7, <3>1, <3>2
  <2> QED BY <2>1, <2>2
<1>9. Shapes'
  BY <1>1, <1>5, <1>8 DEF PositionInv, Shapes
<1>10. Position'
  BY <1>0, <1>1, <1>5, <1>8 DEF Position
<1>11. Ahead'
  <2>1. c.ahead \in Nat /\ Len(queue') \in Nat
    BY <1>0, <1>8, EpochEnds
  <2>2. Len(queue) < c.ahead \/ (waiting /\ Len(queue) = 0)
    BY <1>1, <1>4 DEF Wanted
  <2> QED BY <1>1, <1>4, <1>8, <2>1, <2>2 DEF PositionInv, Ahead
<1>12. Counters'
  BY <1>0, <1>1, <1>5 DEF PositionInv, Counters
<1>13. Saved'
  BY <1>0, <1>1 DEF PositionInv, Saved, At, SeekTo
<1> QED BY <1>8, <1>9, <1>10, <1>11, <1>12, <1>13 DEF PositionInv

\* A walk that begins at a place of the stream, with nothing drawn.
LEMMA Opens ==
  ASSUME c \in Configs, c' = c, NEW s, At(s, taken'), Open(s)
  PROVE  /\ walk' \in Places /\ sampler' \in Places /\ queue' \in Seq(Drawn)
         /\ Position' /\ Len(queue') = 0 /\ walk' = s /\ walk' # Nothing
<1>0. PerEpoch' = PerEpoch /\ c.counting \in BOOLEAN
  BY EpochEnds DEF PerEpoch
<1>1. walk' = s /\ s \in Places /\ queue' = <<>>
  BY DEF Open, At
<1>2. /\ sampler' \in Places /\ sampler'.epoch = s.epoch
      /\ sampler'.at = IF c.counting THEN s.at ELSE 0
  <2>1. CASE c.counting
    BY <1>1, <2>1 DEF Open
  <2>2. CASE ~c.counting
    BY <1>1, <2>2 DEF Open, Places
  <2> QED BY <2>1, <2>2
<1>3. walk' # Nothing
  BY PositionAssumption, <1>1
<1>4. At(walk, taken + Len(queue))'
  <2>1. PICK k \in 0..PerEpoch : s.at = k * c.bs /\ s.epoch * PerEpoch + k = taken'
    BY DEF At
  <2>2. s.epoch * PerEpoch + k = taken' + Len(queue')
    <3>1. s.epoch * PerEpoch \in Int /\ Len(queue') = 0
      BY <1>1, EpochEnds DEF Places
    <3> QED BY <2>1, <3>1, EpochEnds
  <2> QED BY <1>0, <1>1, <2>1, <2>2 DEF At
<1> QED BY <1>1, <1>2, <1>3, <1>4 DEF Position

\* An epoch begins where the walk before it ended.
LEMMA NewEpochStep ==
  ASSUME PositionInv, NewEpoch
  PROVE  PositionInv'
<1>0. /\ c \in Configs /\ PerEpoch' = PerEpoch /\ PerEpoch \in Nat \ {0}
      /\ [PositionNext]_positionVars
      /\ c.bs \in Nat \ {0} /\ c.ahead \in Nat
  BY SameStream, EpochEnds DEF PositionInv, Shapes, PositionNext
<1>1. /\ UNCHANGED <<c, waiting, got, taken, ckpt, deaths>>
      /\ walk = Nothing /\ queue = <<>> /\ Len(queue) = 0 /\ Open(sampler)
      /\ epoch' = epoch + 1 /\ batch' = 0
  BY DEF NewEpoch
<1>2. /\ sampler \in Places /\ sampler.at = 0 /\ taken \in Nat /\ epoch \in Nat
      /\ sampler.epoch * PerEpoch = taken
  BY <1>1 DEF PositionInv, Shapes, Position
<1>3. At(sampler, taken')
  <2>1. /\ 0 \in 0..PerEpoch /\ sampler.at = 0 * c.bs
        /\ sampler.epoch * PerEpoch + 0 = taken'
    BY <1>0, <1>1, <1>2
  <2> QED BY <1>2, <2>1 DEF At
<1>4. /\ walk' \in Places /\ sampler' \in Places /\ queue' \in Seq(Drawn)
      /\ Position' /\ Len(queue') = 0 /\ walk' = sampler /\ walk' # Nothing
  BY <1>0, <1>1, <1>3, Opens
<1>5. Shapes'
  BY <1>1, <1>2, <1>4 DEF PositionInv, Shapes
<1>6. Following'
  BY <1>0, <1>1, <1>4, SameStream DEF PositionInv, Following
<1>7. Ahead'
  BY <1>0, <1>1, <1>4 DEF PositionInv, Ahead
<1>8. Counters'
  <2>1. c.seeks => sampler.epoch = epoch + 1
    BY <1>1 DEF PositionInv, Counters
  <2> QED BY <1>0, <1>1, <1>2, <1>4, <2>1 DEF Counters
<1>9. Saved'
  BY <1>0, <1>1 DEF PositionInv, Saved, At, SeekTo
<1> QED BY <1>4, <1>5, <1>6, <1>7, <1>8, <1>9 DEF PositionInv

\* The trainer's counters never run past the end of their epoch.
LEMMA WithinEpoch ==
  ASSUME PositionInv, c.seeks
  PROVE  batch + Len(queue) <= PerEpoch /\ batch \in 0..PerEpoch
<1>0. /\ PerEpoch \in Nat \ {0} /\ epoch * PerEpoch \in Int /\ taken \in Nat
      /\ Len(queue) \in Nat /\ batch \in Nat /\ epoch \in Nat
      /\ epoch * PerEpoch + batch = taken
  <2>1. c \in Configs /\ epoch \in Nat /\ batch \in Nat /\ taken \in Nat /\ Len(queue) \in Nat
    BY DEF PositionInv, Shapes
  <2>2. PerEpoch \in Nat \ {0}
    BY <2>1, EpochEnds
  <2> QED BY <2>1, <2>2 DEF PositionInv, Counters
<1>1. CASE walk # Nothing
  <2>1. At(walk, taken + Len(queue)) /\ walk.epoch = epoch
    BY <1>1 DEF PositionInv, Position, Counters
  <2>2. PICK k \in 0..PerEpoch : epoch * PerEpoch + k = taken + Len(queue)
    BY <2>1 DEF At
  <2> QED BY <1>0, <2>2
<1>2. CASE walk = Nothing
  <2>1. sampler.epoch * PerEpoch = taken + Len(queue) /\ sampler.epoch = epoch + 1
    BY <1>2 DEF PositionInv, Position, Counters
  <2>2. (epoch + 1) * PerEpoch = epoch * PerEpoch + PerEpoch
    BY <1>0, SMTT(30)
  <2> QED BY <1>0, <2>1, <2>2
<1> QED BY <1>1, <1>2

\* What a checkpoint holds leads back to the batch after it: by a seek to the
\* trainer's counters, or by the sampler's own state when nothing was drawn ahead.
LEMMA SaveStep ==
  ASSUME Resumable, PositionInv, Save
  PROVE  PositionInv'
<1>0. /\ c \in Configs /\ PerEpoch' = PerEpoch /\ PerEpoch \in Nat \ {0}
      /\ [PositionNext]_positionVars
      /\ c.bs \in Nat \ {0} /\ Stream' = Stream
  BY SameStream, EpochEnds DEF PositionInv, Shapes, PositionNext
<1>1. /\ UNCHANGED <<c, waiting, epoch, batch, got, taken, sampler, walk, queue, deaths>>
      /\ ckpt' = [epoch |-> epoch, batch |-> batch, sampler |-> sampler, taken |-> taken]
  BY DEF Save, counters, loader
<1>2. /\ sampler \in Places /\ taken \in Nat /\ taken <= MaxTaken /\ epoch \in Nat
      /\ batch \in Nat /\ batch <= taken /\ Len(queue) \in Nat
  BY DEF PositionInv, Shapes
<1>3. /\ ckpt' \in [epoch : Nat, batch : Nat, sampler : Places, taken : 0..MaxTaken]
      /\ ckpt'.epoch = epoch /\ ckpt'.batch = batch /\ ckpt'.sampler = sampler
      /\ ckpt'.taken = taken
  BY PositionAssumption, <1>1, <1>2
<1>4. c.seeks => /\ At(SeekTo(epoch, batch), taken) /\ batch <= PerEpoch
                 /\ epoch * PerEpoch + batch = taken
  <2>1. SUFFICES ASSUME c.seeks
                 PROVE  /\ At(SeekTo(epoch, batch), taken) /\ batch <= PerEpoch
                        /\ epoch * PerEpoch + batch = taken
    OBVIOUS
  <2>2. batch \in 0..PerEpoch /\ epoch * PerEpoch + batch = taken
    BY <2>1, WithinEpoch DEF PositionInv, Counters
  <2>3. batch * c.bs \in Nat
    BY <1>0, <1>2, SMT
  <2> QED BY <1>2, <2>2, <2>3 DEF At, SeekTo, Places
<1>5. ~c.seeks => At(sampler, taken)
  <2>1. SUFFICES ASSUME ~c.seeks PROVE At(sampler, taken)
    OBVIOUS
  <2>2. c.counting /\ c.ahead = 0
    BY <1>0, <2>1 DEF Resumable
  <2>3. ~waiting
    BY DEF Save
  <2>4. Len(queue) = 0
    BY <1>2, <2>2, <2>3 DEF PositionInv, Ahead
  <2>5. CASE walk # Nothing
    <3>1. /\ At(walk, taken + Len(queue)) /\ sampler.epoch = walk.epoch
          /\ sampler.at = walk.at
      BY <2>2, <2>5 DEF PositionInv, Position
    <3> QED BY <1>2, <2>4, <3>1 DEF At
  <2>6. CASE walk = Nothing
    <3>1. sampler.at = 0 /\ sampler.epoch * PerEpoch = taken
      BY <1>2, <2>4, <2>6 DEF PositionInv, Position
    <3>2. /\ 0 \in 0..PerEpoch /\ sampler.at = 0 * c.bs
          /\ sampler.epoch * PerEpoch + 0 = taken
      BY <1>0, <1>2, <3>1
    <3> QED BY <1>2, <3>2 DEF At
  <2> QED BY <2>5, <2>6
<1>6. Saved'
  BY <1>0, <1>1, <1>2, <1>3, <1>4, <1>5 DEF Saved, At, SeekTo
<1>7. Shapes' /\ Position' /\ Following'
  BY <1>0, <1>1 DEF PositionInv, Shapes, Position, Following, At
<1>8. Ahead' /\ Counters'
  BY <1>0, <1>1 DEF PositionInv, Ahead, Counters
<1> QED BY <1>6, <1>7, <1>8 DEF PositionInv

\* A resume opens the loader at the batch after the checkpoint.
LEMMA CrashResumeStep ==
  ASSUME PositionInv, CrashResume
  PROVE  PositionInv'
<1> DEFINE s == IF c.seeks THEN SeekTo(ckpt.epoch, ckpt.batch) ELSE ckpt.sampler
<1>0. /\ c \in Configs /\ PerEpoch' = PerEpoch /\ PerEpoch \in Nat \ {0}
      /\ [PositionNext]_positionVars
      /\ c.bs \in Nat \ {0} /\ c.ahead \in Nat
  BY SameStream, EpochEnds DEF PositionInv, Shapes, PositionNext
<1>1. /\ UNCHANGED <<c, ckpt>> /\ ckpt # Nothing /\ deaths < MaxDeaths
      /\ deaths' = deaths + 1 /\ epoch' = ckpt.epoch /\ batch' = ckpt.batch
      /\ taken' = ckpt.taken /\ Open(s) /\ got' = Nothing
  BY DEF CrashResume
<1>2. waiting' = FALSE
  BY DEF CrashResume
<1>3. waiting' \in BOOLEAN /\ ~waiting'
  BY <1>2
<1>4. /\ ckpt \in [epoch : Nat, batch : Nat, sampler : Places, taken : 0..MaxTaken]
      /\ ckpt.batch <= ckpt.taken
      /\ c.seeks => /\ At(SeekTo(ckpt.epoch, ckpt.batch), ckpt.taken)
                    /\ ckpt.batch <= PerEpoch
                    /\ ckpt.epoch * PerEpoch + ckpt.batch = ckpt.taken
      /\ ~c.seeks => At(ckpt.sampler, ckpt.taken)
  BY <1>1 DEF PositionInv, Saved
<1>5. At(s, taken')
  BY <1>1, <1>4
<1>6. c.seeks => s.epoch = ckpt.epoch
  BY DEF SeekTo
<1> HIDE DEF s
<1>7. /\ walk' \in Places /\ sampler' \in Places /\ queue' \in Seq(Drawn)
      /\ Position' /\ Len(queue') = 0 /\ walk' = s /\ walk' # Nothing
  BY <1>0, <1>1, <1>5, Opens
<1>8. Shapes'
  <2>1. deaths' \in 0..MaxDeaths /\ MaxTaken \in Nat
    BY PositionAssumption, <1>1 DEF PositionInv, Shapes
  <2> QED BY <1>0, <1>1, <1>3, <1>4, <1>7, <2>1 DEF Shapes
<1>9. Following'
  BY <1>1, <1>7 DEF Following
<1>10. Ahead'
  BY <1>0, <1>1, <1>3, <1>7 DEF Ahead
<1>11. Counters'
  BY <1>0, <1>1, <1>4, <1>6, <1>7 DEF Counters
<1>12. Saved'
  BY <1>0, <1>1 DEF PositionInv, Saved, At, SeekTo
<1> QED BY <1>7, <1>8, <1>9, <1>10, <1>11, <1>12 DEF PositionInv

\* Every step keeps the invariant.
LEMMA StaysInPlace ==
  ASSUME Resumable
  PROVE  PositionInv /\ [PositionNext]_positionVars => PositionInv'
BY StandsStep, TakeStep, DrawFullStep, DrawLastStep, NewEpochStep, SaveStep, CrashResumeStep
   DEF PositionNext

\* Past the epoch's batches nothing is drawn, with or without prefetch.
LEMMA QueueIsBounded ==
  ASSUME Resumable, PositionInv
  PROVE  Len(queue) <= MinOf(c.ahead, PerEpoch) + 1
<1>0. /\ c \in Configs /\ PerEpoch \in Nat \ {0} /\ c.ahead \in Nat /\ Len(queue) \in Nat
      /\ batch \in Nat
  <2>1. c \in Configs /\ batch \in Nat /\ Len(queue) \in Nat
    BY DEF PositionInv, Shapes
  <2> QED BY <2>1, EpochEnds
<1>1. Len(queue) <= c.ahead + 1
  BY DEF PositionInv, Ahead
<1>2. CASE c.seeks
  <2>1. batch + Len(queue) <= PerEpoch
    BY <1>2, WithinEpoch
  <2> QED BY <1>0, <1>1, <2>1 DEF MinOf
<1>3. CASE c.ahead = 0
  BY <1>0, <1>1, <1>3 DEF MinOf
<1> QED BY <1>0, <1>2, <1>3 DEF Resumable

\* The invariant implies that the stream is exact.
LEMMA Exact ==
  ASSUME Resumable
  PROVE  PositionInv => StreamExact
<1> SUFFICES ASSUME PositionInv PROVE StreamExact
  OBVIOUS
<1>1. Shapes /\ Following /\ Counters /\ Saved /\ taken \in Nat /\ MaxTaken \in Nat
  BY PositionAssumption DEF PositionInv, Shapes
<1>2. taken \in 0..MaxTaken /\ batch \in 0..MaxTaken
  BY <1>1 DEF Shapes
<1>3. ckpt = Nothing \/ ckpt \in [epoch : Nat, batch : Nat, sampler : Places, taken : 0..MaxTaken]
  BY <1>1 DEF Saved
<1>4. PositionTypeOK
  BY <1>1, <1>2, <1>3, QueueIsBounded DEF PositionTypeOK, Shapes
<1>5. got # Nothing => got = Reference(taken - 1)
  <2>1. got # Nothing => taken - 1 \in Nat /\ got = Stream[taken - 1]
    BY <1>1 DEF Following
  <2> QED BY <2>1 DEF Stream
<1> QED BY <1>1, <1>4, <1>5 DEF StreamExact, Counters

\* The batch trained on is the one an uninterrupted run would have reached, and the
\* trainer's counters agree with it, in every run of a resumable data module.
THEOREM PlaceIsKept ==
  ASSUME Resumable
  PROVE  PositionSpec => []StreamExact
<1>1. PositionInit => PositionInv
  BY StartsInPlace
<1>2. PositionInv /\ [PositionNext]_positionVars => PositionInv'
  BY StaysInPlace
<1>3. PositionInv => StreamExact
  BY Exact
<1> QED BY <1>1, <1>2, <1>3, PTL DEF PositionSpec
================================================================================
