----------------------------- MODULE Lineage_proofs -----------------------------
(***************************************************************************)
(* Collections against everybody else on the database.  A collection works *)
(* from rows it read once; the invariant ties that copy to the rows as     *)
(* they are: what it means to delete was not pinned then, no later row has *)
(* one of its ids, and a row it saw marked is marked still, as it was or    *)
(* anew.                                                                   *)
(***************************************************************************)
EXTENDS Lineage, FiniteSetTheorems, WellFoundedInduction, TLAPS

Day == Nat \cup {None}
Row == [version : Versions, ts : Nat, tagged : BOOLEAN, pinned : BOOLEAN,
        deprecated : Day]

Marked(r, now) == r.deprecated # None => r.deprecated <= now

RowInv ==
  /\ day \in Nat /\ nextId \in 1..(MaxRows + 1)
  /\ nodes \in [DOMAIN nodes -> Row]
  /\ DOMAIN nodes \subseteq 1..(nextId - 1)
  /\ \A i \in DOMAIN nodes : Marked(nodes[i], day)
  /\ recorder.at = "upsert" => recorder.arg \in Versions

GcRecord == [snap : {gc.snap}, todo : SUBSET DOMAIN gc.snap, now : Nat, sweeping : BOOLEAN]

GcInv ==
  gc # None =>
    /\ gc \in GcRecord
    /\ gc.snap \in [DOMAIN gc.snap -> Row] /\ DOMAIN gc.snap \subseteq 1..(nextId - 1)
    /\ gc.now <= day
    /\ \A i \in gc.todo : ~gc.snap[i].pinned
    /\ \A i \in gc.todo \cap DOMAIN nodes :
         gc.snap[i].deprecated # None =>
           nodes[i].deprecated \in Nat /\ gc.snap[i].deprecated <= nodes[i].deprecated
    /\ gc.sweeping => gc.todo # {} /\ Due(Current)

IInv == RowInv /\ GcInv

GcRemoves == \E removed \in BOOLEAN : GcRemoveFiles(removed)

\* A set of numbers with a bound and a member has a largest one.
LEMMA LargestExists ==
  ASSUME NEW b \in Nat, NEW S \in SUBSET (0..b), S # {}
  PROVE  \E n \in S : \A m \in S : m <= n
<1> DEFINE T == {b - n : n \in S}
           R == {ss \in Nat \X Nat : ss[1] < ss[2]}
<1>1. T \subseteq Nat /\ T # {}
  <2>1. T \subseteq Nat
    OBVIOUS
  <2>2. T # {}
    OBVIOUS
  <2> QED BY <2>1, <2>2
<1>2. IsWellFoundedOn(R, Nat)
  <2>1. OpToRel(<, Nat) = R
    BY Zenon DEF OpToRel
  <2> QED BY <2>1, NatLessThanWellFounded
<1>3. PICK x \in T : \A y \in T : ~(<<y, x>> \in R)
  <2> HIDE DEF R
  <2> QED BY <1>1, <1>2, WFMin
<1>4. PICK n \in S : x = b - n
  OBVIOUS
<1>5. ASSUME NEW m \in S PROVE m <= n
  <2>1. b - m \in T /\ <<b - m, x>> \in Nat \X Nat
    BY <1>1, <1>3
  <2>2. ~(b - m < x)
    <3>1. <<b - m, x>> \notin R
      BY <1>3, <2>1
    <3>2. <<b - m, x>>[1] = b - m /\ <<b - m, x>>[2] = x
      OBVIOUS
    <3> QED BY <2>1, <3>1, <3>2
  <2> QED BY <1>4, <2>2
<1> QED BY <1>5

\* The row a collection works on is one of those it has to do.
LEMMA CurrentIsOne ==
  ASSUME RowInv, GcInv, gc # None, gc.todo # {}
  PROVE  Current \in gc.todo
<1>1. gc.todo \subseteq 1..(nextId - 1) /\ nextId \in Nat
  BY LineageAssumption DEF RowInv, GcInv, GcRecord
<1>2. gc.todo \in SUBSET (0..nextId)
  BY <1>1
<1>3. PICK n \in gc.todo : \A m \in gc.todo : m <= n
  BY <1>1, <1>2, LargestExists
<1>4. \A m \in gc.todo : n >= m
  BY <1>1, <1>2, <1>3
<1> QED BY <1>3, <1>4 DEF Current, Max

\* What other processes may do to the rows under a collection.
RowsKept ==
  /\ DOMAIN nodes' \subseteq DOMAIN nodes \cup {nextId}
  /\ \A i \in DOMAIN nodes \cap DOMAIN nodes' :
       nodes[i].deprecated # None =>
         nodes'[i].deprecated \in Nat /\ nodes[i].deprecated <= nodes'[i].deprecated
  /\ nextId' \in Nat /\ nextId <= nextId'
  /\ day' \in Nat /\ day <= day'

\* A collection that stands still is not disturbed by it.
LEMMA GcStands ==
  ASSUME RowInv, GcInv, RowsKept, UNCHANGED gc
  PROVE  GcInv'
<1> SUFFICES ASSUME gc # None
             PROVE  GcInv'
  BY DEF GcInv
<1>1. nextId \in Nat /\ day \in Nat /\ nextId \notin DOMAIN gc.snap
  BY LineageAssumption DEF RowInv, GcInv
<1>2. DOMAIN gc.snap \subseteq 1..(nextId' - 1)
  BY <1>1 DEF GcInv, RowsKept
<1>3. gc.now <= day'
  BY <1>1 DEF GcInv, GcRecord, RowsKept
<1>4. ASSUME NEW i \in gc.todo \cap DOMAIN nodes', gc.snap[i].deprecated # None
      PROVE  nodes'[i].deprecated \in Nat /\ gc.snap[i].deprecated <= nodes'[i].deprecated
  <2>1. i \in DOMAIN nodes /\ i \in DOMAIN gc.snap
    BY <1>1, <1>4 DEF GcInv, GcRecord, RowsKept
  <2>2. gc.snap[i].deprecated \in Nat
    BY <1>4, <2>1 DEF GcInv, Row, Day
  <2>3. nodes[i].deprecated \in Nat /\ gc.snap[i].deprecated <= nodes[i].deprecated
    BY <1>4, <2>1 DEF GcInv
  <2>4. nodes'[i].deprecated \in Nat /\ nodes[i].deprecated <= nodes'[i].deprecated
    BY <1>4, <2>1, <2>3, LineageAssumption DEF RowsKept
  <2> QED BY <2>2, <2>3, <2>4
<1>5. gc.sweeping => Due(Current)'
  BY DEF GcInv, Due, Current
<1> QED BY <1>2, <1>3, <1>4, <1>5 DEF GcInv, GcRecord

\* Nor is one that has finished with a row, marked, waited for or deleted.
LEMMA GcGoesOn ==
  ASSUME RowInv, GcInv, RowsKept, gc # None, Done
  PROVE  GcInv'
<1>1. gc' = [gc EXCEPT !.todo = @ \ {Current}, !.sweeping = FALSE]
  BY DEF Done
<1>2. gc \in GcRecord
  BY DEF GcInv
<1>3. /\ gc'.snap = gc.snap /\ gc'.todo = gc.todo \ {Current}
      /\ gc'.now = gc.now /\ gc'.sweeping = FALSE
  BY <1>1, <1>2 DEF GcRecord
<1>4. gc' \in GcRecord'
  BY <1>1, <1>2, <1>3 DEF GcRecord
<1>5. nextId \in Nat /\ day \in Nat /\ nextId \notin DOMAIN gc.snap
  BY LineageAssumption DEF RowInv, GcInv
<1>6. DOMAIN gc.snap \subseteq 1..(nextId' - 1)
  BY <1>5 DEF GcInv, RowsKept
<1>7. gc.now <= day'
  BY <1>5 DEF GcInv, GcRecord, RowsKept
<1>8. ASSUME NEW i \in gc.todo \cap DOMAIN nodes', gc.snap[i].deprecated # None
      PROVE  nodes'[i].deprecated \in Nat /\ gc.snap[i].deprecated <= nodes'[i].deprecated
  <2>1. i \in DOMAIN nodes /\ i \in DOMAIN gc.snap
    BY <1>5, <1>8 DEF GcInv, GcRecord, RowsKept
  <2>2. gc.snap[i].deprecated \in Nat
    BY <1>8, <2>1 DEF GcInv, Row, Day
  <2>3. nodes[i].deprecated \in Nat /\ gc.snap[i].deprecated <= nodes[i].deprecated
    BY <1>8, <2>1 DEF GcInv
  <2>4. nodes'[i].deprecated \in Nat /\ nodes[i].deprecated <= nodes'[i].deprecated
    BY <1>8, <2>1, <2>3, LineageAssumption DEF RowsKept
  <2> QED BY <2>2, <2>3, <2>4
<1> QED BY <1>3, <1>4, <1>6, <1>7, <1>8 DEF GcInv
------------------------------------------------------------------------------
\* What may happen to one row: it is changed, kept in type and marks.
LEMMA SetKeepsRows ==
  ASSUME RowInv, NEW i \in DOMAIN nodes, NEW r \in Row, Set(i, r), Marked(r, day),
         nodes[i].deprecated # None => r.deprecated \in {nodes[i].deprecated, day},
         UNCHANGED <<day, nextId, recorder>>
  PROVE  RowInv' /\ RowsKept
<1>1. DOMAIN nodes' = DOMAIN nodes /\ nodes' \in [DOMAIN nodes -> Row]
  BY DEF Set, RowInv
<1>2. \A j \in DOMAIN nodes : nodes'[j] = IF j = i THEN r ELSE nodes[j]
  BY DEF Set, RowInv
<1>3. day' = day /\ nextId' = nextId /\ recorder' = recorder
  OBVIOUS
<1>4. \A j \in DOMAIN nodes' : Marked(nodes'[j], day')
  BY <1>1, <1>2, <1>3 DEF RowInv, Marked
<1>5. RowInv'
  BY <1>1, <1>3, <1>4 DEF RowInv
<1>6. \A j \in DOMAIN nodes : nodes[j].deprecated # None =>
        nodes[j].deprecated \in Nat /\ nodes[j].deprecated <= day /\ day \in Nat
  BY DEF RowInv, Row, Day, Marked
<1>7. RowsKept
  BY <1>1, <1>2, <1>3, <1>6, LineageAssumption DEF RowsKept, RowInv
<1> QED BY <1>5, <1>7

\* A row is deleted.
LEMMA DeleteKeepsRows ==
  ASSUME RowInv, NEW i, DeleteNode(i), UNCHANGED <<day, nextId, recorder>>
  PROVE  RowInv' /\ RowsKept
<1>1. DOMAIN nodes' = DOMAIN nodes \ {i} /\ nodes' \in [DOMAIN nodes' -> Row]
  BY DEF DeleteNode, Without, RowInv
<1>2. \A j \in DOMAIN nodes' : nodes'[j] = nodes[j]
  BY DEF DeleteNode, Without
<1>3. day' = day /\ nextId' = nextId /\ recorder' = recorder
  OBVIOUS
<1>4. \A j \in DOMAIN nodes' : Marked(nodes'[j], day')
  BY <1>1, <1>2, <1>3 DEF RowInv, Marked
<1>5. RowInv'
  BY <1>1, <1>3, <1>4 DEF RowInv
<1>6. \A j \in DOMAIN nodes : nodes[j].deprecated # None =>
        nodes[j].deprecated \in Nat /\ nodes[j].deprecated <= day /\ day \in Nat
  BY DEF RowInv, Row, Day, Marked
<1>7. RowsKept
  BY <1>1, <1>2, <1>3, <1>6, LineageAssumption DEF RowsKept, RowInv
<1> QED BY <1>5, <1>7

\* No row is touched.
LEMMA NothingKeepsRows ==
  ASSUME RowInv, UNCHANGED <<nodes, nextId>>, day' \in {day, day + 1},
         recorder'.at = "upsert" => recorder'.arg \in Versions
  PROVE  RowInv' /\ RowsKept
<1>1. day \in Nat /\ day' \in Nat /\ day <= day'
  BY DEF RowInv
<1>2. \A j \in DOMAIN nodes : nodes[j] \in Row /\ Marked(nodes[j], day)
  BY DEF RowInv
<1>3. \A j \in DOMAIN nodes : Marked(nodes[j], day')
  BY <1>1, <1>2, LineageAssumption DEF Marked, Row, Day
<1>4. RowInv'
  BY <1>1, <1>3 DEF RowInv
<1>5. \A j \in DOMAIN nodes : nodes[j].deprecated # None => nodes[j].deprecated \in Nat
  BY <1>2 DEF Row, Day
<1>6. RowsKept
  BY <1>1, <1>5, LineageAssumption DEF RowsKept, RowInv
<1> QED BY <1>4, <1>6
------------------------------------------------------------------------------
\* The recorder inserts a row under an id that nobody has seen.
LEMMA UpsertKeeps ==
  ASSUME IInv, Upsert
  PROVE  IInv'
<1> DEFINE v == recorder.arg
           new == [version |-> v, ts |-> day, tagged |-> FALSE, pinned |-> FALSE,
                   deprecated |-> None]
<1>1. /\ RowInv /\ GcInv /\ day' = day /\ gc' = gc /\ recorder'.at = "edge"
      /\ v \in Versions /\ new \in Row /\ Marked(new, day)
  BY LineageAssumption DEF IInv, RowInv, Upsert, UpsertUnder, Row, Day, Marked
<1>2. CASE Find(v) # {}
  <2>1. UNCHANGED <<nodes, nextId>>
    BY <1>2 DEF Upsert, UpsertUnder
  <2> QED BY <1>1, <2>1, NothingKeepsRows, GcStands DEF IInv
<1>3. CASE Find(v) = {}
  <2>1. /\ nextId \in 1..MaxRows /\ nextId' = nextId + 1
        /\ nodes' = [i \in DOMAIN nodes \cup {nextId} |-> IF i = nextId THEN new ELSE nodes[i]]
    BY <1>3 DEF Upsert, UpsertUnder, Ids
  <2>2. DOMAIN nodes' = DOMAIN nodes \cup {nextId} /\ nextId \notin DOMAIN nodes
    BY <1>1, <2>1 DEF RowInv
  <2>3. nodes'[nextId] = new /\ \A i \in DOMAIN nodes : nodes'[i] = nodes[i]
    BY <2>1, <2>2
  <2>4. nodes' \in [DOMAIN nodes' -> Row] /\ \A i \in DOMAIN nodes' : Marked(nodes'[i], day')
    BY <1>1, <2>1, <2>2, <2>3 DEF RowInv
  <2>5. nextId' \in 1..(MaxRows + 1) /\ DOMAIN nodes' \subseteq 1..(nextId' - 1)
    BY <1>1, <2>1, <2>2, LineageAssumption DEF RowInv
  <2>6. RowInv'
    BY <1>1, <2>4, <2>5 DEF RowInv
  <2>7. \A i \in DOMAIN nodes : nodes[i].deprecated # None => nodes[i].deprecated \in Nat
    BY <1>1 DEF RowInv, Row, Day
  <2>8. RowsKept
    BY <1>1, <2>1, <2>2, <2>3, <2>7, LineageAssumption DEF RowsKept, RowInv
  <2> QED BY <1>1, <2>6, <2>8, GcStands DEF IInv
<1> QED BY <1>2, <1>3

\* Deprecating a row marks it with this day.
LEMMA DeprecatedStands ==
  ASSUME NEW r \in Row, day \in Nat
  PROVE  /\ Deprecated(r) \in Row /\ Marked(Deprecated(r), day)
         /\ Deprecated(r).deprecated = day /\ Deprecated(r).version = r.version
BY LineageAssumption DEF Deprecated, Row, Day, Marked

\* Tags, pins and invalidations of the command line.
LEMMA CommandKeeps ==
  ASSUME IInv, NEW i, NEW on \in BOOLEAN, Tag(i, on) \/ Pin(i, on) \/ Invalidate(i)
  PROVE  IInv'
<1>1. /\ RowInv /\ GcInv /\ i \in DOMAIN nodes /\ nodes[i] \in Row /\ Marked(nodes[i], day)
      /\ day \in Nat /\ UNCHANGED <<day, nextId, recorder, gc>>
  BY DEF IInv, RowInv, Tag, Pin, Invalidate
<1>2. PICK r \in {[nodes[i] EXCEPT !.tagged = on], [nodes[i] EXCEPT !.pinned = on], Deprecated(nodes[i])} :
        Set(i, r)
  BY DEF Tag, Pin, Invalidate
<1>3. /\ r \in Row /\ Marked(r, day)
      /\ nodes[i].deprecated # None => r.deprecated \in {nodes[i].deprecated, day}
  <2>1. CASE r = [nodes[i] EXCEPT !.tagged = on]
    BY <1>1, <2>1 DEF Row, Marked
  <2>2. CASE r = [nodes[i] EXCEPT !.pinned = on]
    BY <1>1, <2>2 DEF Row, Marked
  <2>3. CASE r = Deprecated(nodes[i])
    BY <1>1, <2>3, DeprecatedStands
  <2> QED BY <1>2, <2>1, <2>2, <2>3
<1>4. RowInv' /\ RowsKept
  BY <1>1, <1>2, <1>3, SetKeepsRows
<1> QED BY <1>1, <1>4, GcStands DEF IInv

\* The steps of a collection.
LEMMA CollectionKeeps ==
  ASSUME IInv, GcStart \/ GcMark \/ GcWait \/ GcRemoves \/ GcRemoveRow \/ GcEnd
  PROVE  IInv'
<1>1. RowInv /\ GcInv /\ day' = day /\ nextId' = nextId /\ recorder' = recorder
  BY DEF IInv, GcStart, GcMark, GcWait, GcRemoves, GcRemoveFiles, GcRemoveRow, GcEnd, database
<1>2. recorder'.at = "upsert" => recorder'.arg \in Versions
  BY <1>1 DEF RowInv
<1>3. CASE GcStart
  <2>1. UNCHANGED nodes /\ gc' = [snap |-> nodes, todo |-> Doomed, now |-> day, sweeping |-> FALSE]
    BY <1>3 DEF GcStart, database
  <2>2. RowInv'
    BY <1>1, <1>2, <2>1, NothingKeepsRows
  <2>3. Doomed \subseteq DOMAIN nodes /\ \A i \in Doomed : ~nodes[i].pinned
    <3>1. Doomed \subseteq DOMAIN nodes \ Kept
      BY Zenon DEF Doomed
    <3>2. {i \in DOMAIN nodes : nodes[i].tagged \/ nodes[i].pinned} \subseteq Kept
      BY Zenon DEF Kept
    <3> QED BY <3>1, <3>2
  <2>4. gc' \in GcRecord'
    BY <1>1, <2>1, <2>3 DEF GcRecord, RowInv
  <2>5. /\ gc'.snap = nodes' /\ gc'.todo = Doomed /\ gc'.now = day' /\ ~gc'.sweeping
        /\ nodes' = nodes
    BY <1>1, <2>1
  <2>6. /\ nodes \in [DOMAIN nodes -> Row] /\ DOMAIN nodes \subseteq 1..(nextId - 1) /\ day \in Nat
        /\ \A i \in DOMAIN nodes : Marked(nodes[i], day)
    BY <1>1 DEF RowInv
  <2>7. \A i \in DOMAIN nodes : nodes[i].deprecated # None =>
          nodes[i].deprecated \in Nat /\ nodes[i].deprecated <= nodes[i].deprecated
    BY <2>6 DEF Row, Day
  <2>8. GcInv'
    BY <1>1, <2>3, <2>4, <2>5, <2>6, <2>7 DEF GcInv
  <2> QED BY <2>2, <2>8 DEF IInv
<1>4. CASE GcMark
  <2>1. Current \in gc.todo /\ gc # None /\ Done
    BY <1>1, <1>4, CurrentIsOne DEF GcMark
  <2>2. CASE Current \in DOMAIN nodes
    <3>1. Set(Current, Deprecated(nodes[Current])) /\ day \in Nat
      BY <1>1, <1>4, <2>2 DEF GcMark, RowInv
    <3>2. nodes[Current] \in Row /\ Marked(nodes[Current], day)
      BY <1>1, <2>2 DEF RowInv
    <3>3. /\ Deprecated(nodes[Current]) \in Row /\ Marked(Deprecated(nodes[Current]), day)
          /\ Deprecated(nodes[Current]).deprecated = day
      BY <3>1, <3>2, DeprecatedStands
    <3>4. RowInv' /\ RowsKept
      BY <1>1, <2>2, <3>1, <3>3, SetKeepsRows
    <3> QED BY <1>1, <2>1, <3>4, GcGoesOn DEF IInv
  <2>3. CASE Current \notin DOMAIN nodes
    <3>1. RowInv' /\ RowsKept
      BY <1>1, <1>2, <1>4, <2>3, NothingKeepsRows DEF GcMark
    <3> QED BY <1>1, <2>1, <3>1, GcGoesOn DEF IInv
  <2> QED BY <2>2, <2>3
<1>5. CASE GcWait
  <2>1. gc # None /\ Done /\ UNCHANGED nodes
    BY <1>5 DEF GcWait, database
  <2>2. RowInv' /\ RowsKept
    BY <1>1, <1>2, <2>1, NothingKeepsRows
  <2> QED BY <1>1, <2>1, <2>2, GcGoesOn DEF IInv
<1>6. CASE GcRemoves
  <2>1. /\ gc # None /\ gc.todo # {} /\ Due(Current) /\ UNCHANGED nodes
        /\ gc' = [gc EXCEPT !.sweeping = TRUE]
    BY <1>6 DEF GcRemoves, GcRemoveFiles, database
  <2>2. RowInv'
    BY <1>1, <1>2, <2>1, NothingKeepsRows
  <2>3. gc \in GcRecord
    BY <1>1, <2>1 DEF GcInv
  <2>4. gc' \in GcRecord' /\ gc'.snap = gc.snap /\ gc'.todo = gc.todo /\ gc'.now = gc.now
    BY <2>1, <2>3 DEF GcRecord
  <2>5. Due(Current)'
    <3>1. Current' = Current
      BY <2>4 DEF Current
    <3> QED BY <2>1, <2>4, <3>1 DEF Due
  <2>6. GcInv'
    BY <1>1, <2>1, <2>4, <2>5 DEF GcInv
  <2> QED BY <2>2, <2>6 DEF IInv
<1>7. CASE GcRemoveRow
  <2>1. gc # None /\ Done /\ DeleteNode(Current)
    BY <1>7 DEF GcRemoveRow
  <2>2. RowInv' /\ RowsKept
    BY <1>1, <2>1, DeleteKeepsRows
  <2> QED BY <1>1, <2>1, <2>2, GcGoesOn DEF IInv
<1>8. CASE GcEnd
  <2>1. gc' = None /\ UNCHANGED nodes
    BY <1>8 DEF GcEnd, database
  <2>2. RowInv'
    BY <1>1, <1>2, <2>1, NothingKeepsRows
  <2> QED BY <2>1, <2>2 DEF IInv, GcInv
<1> QED BY <1>3, <1>4, <1>5, <1>6, <1>7, <1>8
------------------------------------------------------------------------------
\* It holds at the start: there are no rows and nobody collects.
LEMMA InitIInv == Init => IInv
<1> SUFFICES ASSUME Init
             PROVE  IInv
  OBVIOUS
<1>1. /\ day = 0 /\ nodes = [i \in {} |-> None] /\ nextId = 1 /\ recorder.at = "idle" /\ gc = None
  BY DEF Init, Idle
<1>2. DOMAIN nodes = {} /\ nodes \in [DOMAIN nodes -> Row]
  BY <1>1
<1>3. RowInv
  BY <1>1, <1>2, LineageAssumption DEF RowInv
<1> QED BY <1>1, <1>3 DEF IInv, GcInv

\* Every step of every process keeps it.
LEMMA StepIInv == IInv /\ [Next]_vars => IInv'
<1> SUFFICES ASSUME IInv, [Next]_vars
             PROVE  IInv'
  OBVIOUS
<1>1. RowInv /\ GcInv
  BY DEF IInv
<1>2. ASSUME UNCHANGED <<nodes, nextId, gc>>, day' \in {day, day + 1},
             recorder'.at = "upsert" => recorder'.arg \in Versions
      PROVE  IInv'
  BY <1>1, <1>2, NothingKeepsRows, GcStands DEF IInv
<1>3. recorder.at = "upsert" => recorder.arg \in Versions
  BY <1>1 DEF RowInv
<1>4. CASE Tick
  BY <1>2, <1>3, <1>4 DEF Tick, database
<1>5. ASSUME NEW v \in Versions, Save(v) PROVE IInv'
  BY <1>2, <1>5 DEF Save, database
<1>6. ASSUME NEW v \in Versions, Forget(v) PROVE IInv'
  BY <1>2, <1>3, <1>6 DEF Forget, database
<1>7. CASE Upsert
  BY <1>7, UpsertKeeps
<1>8. CASE ProducedBy
  BY <1>2, <1>3, <1>8 DEF ProducedBy, Idle
<1>9. CASE RestartRun
  BY <1>2, <1>9 DEF RestartRun, Idle, database
<1>10. ASSUME NEW i \in Ids, NEW x \in Scores, Evaluate(i, x) PROVE IInv'
  BY <1>2, <1>3, <1>10 DEF Evaluate
<1>11. ASSUME NEW i \in Ids, NEW on \in BOOLEAN, Tag(i, on) \/ Pin(i, on) PROVE IInv'
  BY <1>11, CommandKeeps
<1>12. ASSUME NEW i \in Ids, Invalidate(i) PROVE IInv'
  BY <1>12, CommandKeeps
<1>13. CASE GcStart \/ GcMark \/ GcWait \/ GcRemoves \/ GcRemoveRow \/ GcEnd
  BY <1>13, CollectionKeeps
<1>14. CASE PruneStart
  BY <1>2, <1>3, <1>14 DEF PruneStart, database
<1>15. CASE PruneNext
  <2>1. UNCHANGED <<day, nextId, recorder, gc>>
    BY <1>15 DEF PruneNext
  <2>2. CASE UNCHANGED nodes
    BY <1>2, <1>3, <2>1, <2>2
  <2>3. CASE DeleteNode(Min(prune))
    <3>1. RowInv' /\ RowsKept
      BY <1>1, <2>1, <2>3, DeleteKeepsRows
    <3> QED BY <1>1, <2>1, <3>1, GcStands DEF IInv
  <2> QED BY <1>15, <2>2, <2>3 DEF PruneNext
<1>16. CASE UNCHANGED vars
  BY <1>2, <1>3, <1>16 DEF vars, database
<1> QED BY <1>4, <1>5, <1>6, <1>7, <1>8, <1>9, <1>10, <1>11, <1>12, <1>13, <1>14, <1>15, <1>16 DEF Next, GcRemoves

\* The two together.
LEMMA Invariance == Spec => []IInv
BY InitIInv, StepIInv, PTL DEF Spec
------------------------------------------------------------------------------
\* A row disappears in a step of a collection only as the one on its list that
\* it has read as marked long ago, marked still or anew.
LEMMA CollectionDeletes ==
  ASSUME IInv, Next, Collecting, NEW i \in Ids, Deleted(i)
  PROVE  /\ gc # None /\ i \in gc.todo /\ i \in DOMAIN gc.snap /\ ~gc.snap[i].pinned
         /\ gc.snap[i].deprecated # None /\ nodes[i].deprecated # None
         /\ nodes[i].deprecated < day \/ nodes[i].deprecated > gc.snap[i].deprecated
<1>1. /\ gc # None /\ gc' # None /\ gc' # gc
      /\ i \in DOMAIN nodes /\ i \notin DOMAIN nodes'
  BY DEF Collecting, Deleted
<1>2. GcRemoveRow
  <2>1. ~(Tick \/ Upsert \/ ProducedBy \/ RestartRun \/ PruneStart \/ PruneNext)
    BY <1>1 DEF Tick, Upsert, UpsertUnder, ProducedBy, RestartRun, PruneStart, PruneNext
  <2>2. ~(\E v \in Versions : Save(v) \/ Forget(v))
    BY <1>1 DEF Save, Forget
  <2>3. \A j \in Ids : ~(\/ \E x \in Scores : Evaluate(j, x)
                         \/ \E on \in BOOLEAN : Tag(j, on) \/ Pin(j, on)
                         \/ Invalidate(j))
    BY <1>1 DEF Evaluate, Tag, Pin, Invalidate
  <2>4. ~(GcStart \/ GcEnd \/ GcWait \/ GcRemoves)
    BY <1>1 DEF GcStart, GcEnd, GcWait, GcRemoves, GcRemoveFiles, database
  <2>5. ~GcMark
    BY <1>1 DEF GcMark, Set
  <2> QED BY <2>1, <2>2, <2>3, <2>4, <2>5 DEF Next, GcRemoves
<1>3. /\ RowInv /\ GcInv /\ gc.sweeping /\ i = Current
      /\ DOMAIN nodes' = DOMAIN nodes \ {Current}
  BY <1>1, <1>2 DEF IInv, GcRemoveRow, DeleteNode, Without
<1>4. /\ i \in gc.todo /\ Due(i) /\ ~gc.snap[i].pinned /\ i \in DOMAIN gc.snap
      /\ gc.now \in Nat /\ gc.now <= day /\ gc.snap \in [DOMAIN gc.snap -> Row]
  BY <1>1, <1>3, CurrentIsOne DEF GcInv, GcRecord
<1>5. /\ gc.snap[i].deprecated \in Nat /\ gc.now - gc.snap[i].deprecated >= 1
      /\ gc.snap[i].deprecated # None
  BY <1>4 DEF Due, Row, Day
<1>6. nodes[i].deprecated # None /\ gc.snap[i].deprecated <= nodes[i].deprecated
  BY <1>1, <1>3, <1>4, <1>5, LineageAssumption DEF GcInv
<1>7. nodes[i].deprecated \in Nat /\ day \in Nat
  BY <1>1, <1>3, <1>6 DEF RowInv, Row, Day
<1> QED BY <1>1, <1>4, <1>5, <1>6, <1>7

\* A row that was pinned when a collection began is not deleted by it, nor is
\* one that was inserted later (the snapshot of the rows that gc_artifacts()
\* works from).
THEOREM PinnedRowsSurvive == Spec => PinnedSurvives
<1> DEFINE Survives == Collecting => \A i \in Ids :
                         Deleted(i) => i \in DOMAIN gc.snap /\ ~gc.snap[i].pinned
<1>1. IInv /\ Next => Survives
  BY CollectionDeletes
<1>2. IInv /\ [Next]_vars => [Survives]_vars
  BY <1>1
<1> QED BY <1>2, Invariance, PTL DEF Spec, PinnedSurvives
------------------------------------------------------------------------------
\* Every edge joins two rows: add_edge() is refused by the foreign keys, and
\* delete_node() takes the edges of its row along.
THEOREM EdgesJoinRows == Spec => []NoDanglingEdges
<1>1. Init => NoDanglingEdges
  BY DEF Init, NoDanglingEdges
<1>2. NoDanglingEdges /\ [Next]_vars => NoDanglingEdges'
  <2> SUFFICES ASSUME NoDanglingEdges, [Next]_vars
               PROVE  NoDanglingEdges'
    OBVIOUS
  <2>1. ASSUME edges' = edges, DOMAIN nodes \subseteq DOMAIN nodes' PROVE NoDanglingEdges'
    BY <2>1 DEF NoDanglingEdges, Exists
  <2>2. ASSUME NEW i, DeleteNode(i) PROVE NoDanglingEdges'
    <3>1. DOMAIN nodes' = DOMAIN nodes \ {i} /\ edges' = {e \in edges : i \notin {e.src, e.dst}}
      BY <2>2 DEF DeleteNode, Without
    <3> QED BY <3>1 DEF NoDanglingEdges, Exists
  <2>3. ASSUME NEW e, AddEdge(e), Exists(e.src), Exists(e.dst), UNCHANGED nodes PROVE NoDanglingEdges'
    BY <2>3 DEF NoDanglingEdges, AddEdge, Exists
  <2>4. CASE Tick \/ RestartRun \/ GcStart \/ GcWait \/ GcRemoves \/ GcEnd \/ PruneStart
    BY <2>1, <2>4 DEF Tick, RestartRun, GcStart, GcWait, GcRemoves, GcRemoveFiles, GcEnd, PruneStart, database
  <2>5. ASSUME NEW v \in Versions, Save(v) \/ Forget(v) PROVE NoDanglingEdges'
    BY <2>1, <2>5 DEF Save, Forget, database
  <2>6. CASE Upsert
    BY <2>1, <2>6 DEF Upsert, UpsertUnder
  <2>7. CASE ProducedBy
    BY <2>1, <2>3, <2>7 DEF ProducedBy, Exists
  <2>8. ASSUME NEW i \in Ids, NEW x \in Scores, Evaluate(i, x) PROVE NoDanglingEdges'
    BY <2>3, <2>8 DEF Evaluate, Exists
  <2>9. ASSUME NEW i \in Ids, NEW on \in BOOLEAN, Tag(i, on) \/ Pin(i, on) \/ Invalidate(i)
        PROVE  NoDanglingEdges'
    BY <2>1, <2>9 DEF Tag, Pin, Invalidate, Set
  <2>10. CASE GcMark
    BY <2>1, <2>10 DEF GcMark, Set
  <2>11. CASE GcRemoveRow
    BY <2>2, <2>11 DEF GcRemoveRow
  <2>12. CASE PruneNext
    BY <2>1, <2>2, <2>12 DEF PruneNext
  <2>13. CASE UNCHANGED vars
    BY <2>1, <2>13 DEF vars, database
  <2> QED BY <2>4, <2>5, <2>6, <2>7, <2>8, <2>9, <2>10, <2>11, <2>12, <2>13 DEF Next, GcRemoves
<1> QED BY <1>1, <1>2, PTL DEF Spec
------------------------------------------------------------------------------
(***************************************************************************)
(* Files and rows.  A collection removes the files of a row before the     *)
(* row, so what it deletes has no files, or has them back from a recorder  *)
(* that has not finished or came too late for the collection to see it, or *)
(* could not remove them.                                                  *)
(***************************************************************************)
Excused(v) == recorder = [at |-> "upsert", arg |-> v] \/ v \in strays

\* A version has one row, and an id stands for one version for ever.
OneRowInv ==
  /\ \A i, j \in DOMAIN nodes : nodes[i].version = nodes[j].version => i = j
  /\ gc # None => \A i \in gc.todo \cap DOMAIN nodes : nodes[i].version = gc.snap[i].version

\* The files of the row that is being deleted are gone, or back with an excuse.
SweepInv ==
  (gc # None /\ gc.sweeping /\ Current \in DOMAIN nodes) =>
    (nodes[Current].version \in files => Excused(nodes[Current].version))

FilesInv ==
  /\ files \subseteq Versions /\ strays \subseteq Versions
  /\ \A v \in files : Find(v) # {} \/ Excused(v)

LeakInv == OneRowInv /\ SweepInv /\ FilesInv

\* Steps that neither insert a row nor begin a sweep: a file that is not
\* excused was there before, with its row.
LEMMA LeakStands ==
  ASSUME IInv, LeakInv,
         gc' = None \/ gc' = gc \/ (gc # None /\ Done),
         DOMAIN nodes' \subseteq DOMAIN nodes,
         \A i \in DOMAIN nodes' : nodes'[i].version = nodes[i].version,
         files' \subseteq Versions, strays' \subseteq Versions,
         \A v \in files' : Excused(v)' \/ (v \in files /\ ~Excused(v) /\ Find(v) \subseteq Find(v)')
  PROVE  LeakInv'
<1>1. FilesInv'
  BY DEF LeakInv, FilesInv
<1>2. gc' # None => /\ gc # None /\ gc'.snap = gc.snap /\ gc'.todo \subseteq gc.todo
                    /\ gc'.sweeping => gc' = gc
  BY DEF IInv, GcInv, GcRecord, Done
<1>3. OneRowInv'
  BY <1>2 DEF LeakInv, OneRowInv
<1>4. SweepInv'
  <2> SUFFICES ASSUME gc' # None, gc'.sweeping, Current' \in DOMAIN nodes',
                      nodes'[Current'].version \in files'
               PROVE  Excused(nodes[Current].version)'
    BY Zenon DEF SweepInv, Excused
  <2>1. gc' = gc /\ Current' = Current
    BY <1>2 DEF Current
  <2>2. nodes'[Current'].version = nodes[Current].version
    BY <2>1
  <2>3. nodes[Current].version \in files => Excused(nodes[Current].version)
    BY <1>2, <2>1 DEF LeakInv, SweepInv
  <2> DEFINE v == nodes[Current].version
  <2>4. Excused(v)' \/ (v \in files /\ ~Excused(v))
    BY <2>2 DEF Excused
  <2> QED BY <2>2, <2>3, <2>4 DEF Excused
<1> QED BY <1>1, <1>3, <1>4 DEF LeakInv

\* The recorder's upsert: the row it inserts or finds may be one that a
\* collection has on its list, which makes its files strays.
LEMMA UpsertLeaksNot ==
  ASSUME IInv, LeakInv, Upsert
  PROVE  LeakInv'
<1> DEFINE v == recorder.arg
<1>1. /\ recorder.at = "upsert" /\ v \in Versions /\ gc' = gc /\ files' = files
      /\ nextId \in Nat /\ nextId \notin DOMAIN nodes
      /\ gc # None => nextId \notin gc.todo
  BY LineageAssumption DEF IInv, RowInv, GcInv, GcRecord, Upsert, UpsertUnder
<1>2. /\ strays' \in {strays \cup {v}, strays \ {v}}
      /\ gc # None /\ (\E i \in Find(v) : i \in gc.todo) => v \in strays'
  <2>1. /\ strays' = IF gc # None /\ recorder'.arg \in gc.todo THEN strays \cup {v} ELSE strays \ {v}
        /\ Find(v) # {} => recorder'.arg = CHOOSE i \in Find(v) : TRUE
    BY DEF Upsert, UpsertUnder
  <2>2. \A i, j \in Find(v) : i = j
    BY DEF Find, LeakInv, OneRowInv
  <2>3. ASSUME NEW i \in Find(v) PROVE recorder'.arg = i
    <3>1. Find(v) # {} /\ (CHOOSE j \in Find(v) : TRUE) \in Find(v)
      BY Zenon, <2>3
    <3> QED BY <2>1, <2>2, <2>3, <3>1
  <2> QED BY <2>1, <2>3
<1>3. /\ DOMAIN nodes' \subseteq DOMAIN nodes \cup {nextId} /\ DOMAIN nodes \subseteq DOMAIN nodes'
      /\ \A i \in DOMAIN nodes : nodes'[i] = nodes[i]
      /\ \E i \in DOMAIN nodes' : nodes'[i].version = v
      /\ nextId \in DOMAIN nodes' => nodes'[nextId].version = v /\ Find(v) = {}
  <2>1. CASE Find(v) # {}
    <3>1. nodes' = nodes
      BY <2>1 DEF Upsert, UpsertUnder
    <3> QED BY <1>1, <2>1, <3>1 DEF Find
  <2>2. CASE Find(v) = {}
    <3>1. nodes' = [i \in DOMAIN nodes \cup {nextId} |->
                     IF i = nextId
                     THEN [version |-> v, ts |-> day, tagged |-> FALSE, pinned |-> FALSE,
                           deprecated |-> None]
                     ELSE nodes[i]]
      BY <2>2 DEF Upsert, UpsertUnder
    <3>2. /\ DOMAIN nodes' = DOMAIN nodes \cup {nextId} /\ nodes'[nextId].version = v
          /\ \A i \in DOMAIN nodes : nodes'[i] = nodes[i]
      BY <1>1, <3>1
    <3> QED BY <2>2, <3>2
  <2> QED BY <2>1, <2>2
<1>4. OneRowInv'
  <2>1. ASSUME NEW i \in DOMAIN nodes', NEW j \in DOMAIN nodes', nodes'[i].version = nodes'[j].version
        PROVE  i = j
    BY <1>3, <2>1 DEF LeakInv, OneRowInv, Find
  <2> QED BY <1>1, <1>3, <2>1 DEF LeakInv, OneRowInv
<1>5. \A w : w # v /\ Excused(w) => w \in strays'
  BY <1>1, <1>2 DEF Excused
<1>6. SweepInv'
  <2> SUFFICES ASSUME gc' # None, gc'.sweeping, Current' \in DOMAIN nodes',
                      nodes'[Current'].version \in files'
               PROVE  Excused(nodes[Current].version)'
    BY Zenon DEF SweepInv, Excused
  <2>1. Current' = Current /\ gc # None /\ gc.sweeping /\ gc.todo # {}
    BY <1>1 DEF Current, IInv, GcInv
  <2>2. Current \in gc.todo /\ Current \in DOMAIN nodes
    BY <1>1, <1>3, <2>1, CurrentIsOne DEF IInv
  <2>3. Excused(nodes[Current].version) /\ nodes'[Current'].version = nodes[Current].version
    BY <1>1, <1>3, <2>1, <2>2 DEF LeakInv, SweepInv
  <2>4. CASE nodes[Current].version = v
    BY <1>2, <2>1, <2>2, <2>3, <2>4 DEF Find, Excused
  <2>5. CASE nodes[Current].version # v
    BY <1>5, <2>3, <2>5 DEF Excused
  <2> QED BY <2>4, <2>5
<1>7. FilesInv'
  <2>1. files' \subseteq Versions /\ strays' \subseteq Versions
    BY <1>1, <1>2 DEF LeakInv, FilesInv
  <2>2. ASSUME NEW w \in files' PROVE Find(w)' # {} \/ Excused(w)'
    <3>1. CASE w = v
      BY <1>3, <3>1 DEF Find
    <3>2. CASE w # v /\ Find(w) # {}
      BY <1>3, <3>2 DEF Find
    <3>3. CASE w # v /\ Find(w) = {}
      BY <1>1, <1>5, <3>3 DEF LeakInv, FilesInv, Excused
    <3> QED BY <3>1, <3>2, <3>3
  <2> QED BY <2>1, <2>2 DEF FilesInv
<1> QED BY <1>4, <1>6, <1>7 DEF LeakInv

\* A sweep begins by removing the files of the row it is about to delete.
LEMMA RemovingLeaksNot ==
  ASSUME IInv, LeakInv, GcRemoves
  PROVE  LeakInv'
<1> DEFINE v == gc.snap[Current].version
<1>1. /\ gc # None /\ gc.todo # {} /\ nodes' = nodes /\ recorder' = recorder
      /\ files' \in {files, files \ {v}}
      /\ strays' = IF v \in files' THEN strays \cup {v} ELSE strays \ {v}
      /\ gc' = [gc EXCEPT !.sweeping = TRUE]
  BY DEF GcRemoves, GcRemoveFiles, database
<1>2. gc'.snap = gc.snap /\ gc'.todo = gc.todo /\ Current' = Current
  BY <1>1 DEF IInv, GcInv, GcRecord, Current
<1>3. Current \in gc.todo
  BY <1>1, CurrentIsOne DEF IInv
<1>4. OneRowInv'
  BY <1>1, <1>2 DEF LeakInv, OneRowInv
<1>5. Current \in DOMAIN nodes => nodes[Current].version = v
  BY <1>1, <1>3 DEF LeakInv, OneRowInv
<1>6. SweepInv'
  BY <1>1, <1>2, <1>5 DEF SweepInv, Excused
<1>7. FilesInv'
  <2>1. files \subseteq Versions /\ strays \subseteq Versions
    BY DEF LeakInv, FilesInv
  <2>2. files' \subseteq Versions /\ strays' \subseteq Versions
    BY <1>1, <2>1
  <2>3. ASSUME NEW w \in files' PROVE Find(w)' # {} \/ Excused(w)'
    <3>1. w \in files /\ (w = v => w \in strays') /\ (w \in strays => w \in strays')
      BY <1>1, <2>3
    <3> QED BY <1>1, <3>1 DEF LeakInv, FilesInv, Find, Excused
  <2> QED BY <2>2, <2>3 DEF FilesInv
<1> QED BY <1>4, <1>6, <1>7 DEF LeakInv

\* Every step of every process.
LEMMA StepLeakInv == IInv /\ LeakInv /\ [Next]_vars => LeakInv'
<1> SUFFICES ASSUME IInv, LeakInv, [Next]_vars
             PROVE  LeakInv'
  OBVIOUS
<1>1. /\ files \subseteq Versions /\ strays \subseteq Versions
      /\ recorder.at = "upsert" => recorder.arg \in Versions
      /\ nodes \in [DOMAIN nodes -> Row] /\ day \in Nat
  BY DEF IInv, RowInv, LeakInv, FilesInv
<1>2. ASSUME gc' = gc, DOMAIN nodes' = DOMAIN nodes,
             \A i \in DOMAIN nodes : nodes'[i].version = nodes[i].version,
             UNCHANGED <<files, recorder, strays>>
      PROVE  LeakInv'
  BY <1>1, <1>2, LeakStands DEF Find, Excused
<1>3. ASSUME NEW i, DeleteNode(i), gc' = gc \/ (gc # None /\ Done),
             UNCHANGED <<files, recorder, strays>>,
             i \in DOMAIN nodes /\ nodes[i].version \in files => Excused(nodes[i].version)
      PROVE  LeakInv'
  <2>1. DOMAIN nodes' = DOMAIN nodes \ {i} /\ \A j \in DOMAIN nodes' : nodes'[j] = nodes[j]
    BY <1>3 DEF DeleteNode, Without
  <2>2. ASSUME NEW v \in files', ~Excused(v)'
        PROVE  v \in files /\ ~Excused(v) /\ Find(v) \subseteq Find(v)'
    BY <1>3, <2>1, <2>2 DEF Find, Excused
  <2> QED BY <1>1, <1>3, <2>1, <2>2, LeakStands
<1>4. CASE Tick
  BY <1>2, <1>4 DEF Tick, database
<1>5. ASSUME NEW v \in Versions, Save(v) PROVE LeakInv'
  <2>1. /\ recorder = Idle /\ files' = files \cup {v} /\ recorder' = [at |-> "upsert", arg |-> v]
        /\ UNCHANGED <<nodes, gc, strays>>
    BY <1>5 DEF Save, database
  <2>2. \A w \in files' : Excused(w)' \/ (w \in files /\ ~Excused(w) /\ Find(w) \subseteq Find(w)')
    BY <2>1 DEF Excused, Idle, Find
  <2> QED BY <1>1, <2>1, <2>2, LeakStands
<1>6. ASSUME NEW v \in Versions, Forget(v) PROVE LeakInv'
  <2>1. /\ files' = files \ {v} /\ strays' = strays \ {v}
        /\ UNCHANGED <<nodes, gc, recorder>>
    BY <1>6 DEF Forget, database
  <2>2. \A w \in files' : Excused(w)' \/ (w \in files /\ ~Excused(w) /\ Find(w) \subseteq Find(w)')
    BY <2>1 DEF Excused, Find
  <2> QED BY <1>1, <2>1, <2>2, LeakStands
<1>7. CASE Upsert
  BY <1>7, UpsertLeaksNot
<1>8. CASE ProducedBy
  <2>1. recorder.at = "edge" /\ UNCHANGED <<nodes, gc, files, strays>>
    BY <1>8 DEF ProducedBy
  <2>2. \A w \in files' : Excused(w)' \/ (w \in files /\ ~Excused(w) /\ Find(w) \subseteq Find(w)')
    BY <2>1 DEF Excused, Find
  <2> QED BY <1>1, <2>1, <2>2, LeakStands
<1>9. CASE RestartRun
  <2>1. /\ strays' = IF recorder.at = "upsert" THEN strays \cup {recorder.arg} ELSE strays
        /\ UNCHANGED <<nodes, gc, files>>
    BY <1>9 DEF RestartRun, database
  <2>2. \A w \in files' : Excused(w)' \/ (w \in files /\ ~Excused(w) /\ Find(w) \subseteq Find(w)')
    BY <2>1 DEF Excused, Find
  <2> QED BY <1>1, <2>1, <2>2, LeakStands
<1>10. ASSUME NEW i \in Ids, NEW x \in Scores, Evaluate(i, x) PROVE LeakInv'
  BY <1>2, <1>10 DEF Evaluate
<1>11. ASSUME NEW i \in Ids, NEW on \in BOOLEAN, Tag(i, on) \/ Pin(i, on) \/ Invalidate(i)
       PROVE  LeakInv'
  <2>1. UNCHANGED <<gc, files, recorder, strays>> /\ i \in DOMAIN nodes
    BY <1>11 DEF Tag, Pin, Invalidate
  <2>2. PICK r \in {[nodes[i] EXCEPT !.tagged = on], [nodes[i] EXCEPT !.pinned = on], Deprecated(nodes[i])} :
          Set(i, r)
    BY <1>11 DEF Tag, Pin, Invalidate
  <2>3. nodes[i] \in Row
    BY <1>1, <2>1
  <2>4. r.version = nodes[i].version
    BY <1>1, <2>2, <2>3, DeprecatedStands DEF Row
  <2> QED BY <1>1, <1>2, <2>1, <2>2, <2>4 DEF Set
<1>12. CASE GcStart
  <2>1. /\ gc' = [snap |-> nodes, todo |-> Doomed, now |-> day, sweeping |-> FALSE]
        /\ UNCHANGED <<nodes, files, recorder, strays>>
    BY <1>12 DEF GcStart, database
  <2>2. OneRowInv' /\ SweepInv'
    BY <2>1 DEF LeakInv, OneRowInv, SweepInv
  <2>3. FilesInv'
    BY <2>1 DEF LeakInv, FilesInv, Find, Excused
  <2> QED BY <2>2, <2>3 DEF LeakInv
<1>13. CASE GcMark \/ GcWait \/ GcEnd
  <2>1. /\ gc' = None \/ (gc # None /\ Done)
        /\ UNCHANGED <<files, recorder, strays>>
    BY <1>13 DEF GcMark, GcWait, GcEnd
  <2>2. DOMAIN nodes' = DOMAIN nodes /\ \A i \in DOMAIN nodes : nodes'[i].version = nodes[i].version
    <3>1. CASE nodes' = nodes
      BY <3>1
    <3>2. CASE Current \in DOMAIN nodes /\ Set(Current, Deprecated(nodes[Current]))
      <4>1. Deprecated(nodes[Current]).version = nodes[Current].version
        BY <1>1, <3>2, DeprecatedStands
      <4> QED BY <1>1, <3>2, <4>1 DEF Set
    <3> QED BY <1>13, <3>1, <3>2 DEF GcMark, GcWait, GcEnd, database
  <2> QED BY <1>1, <2>1, <2>2, LeakStands DEF Find, Excused
<1>14. CASE GcRemoves
  BY <1>14, RemovingLeaksNot
<1>15. CASE GcRemoveRow
  <2>1. /\ gc # None /\ gc.sweeping /\ Done /\ DeleteNode(Current)
        /\ UNCHANGED <<files, recorder, strays>>
    BY <1>15 DEF GcRemoveRow
  <2>2. Current \in DOMAIN nodes /\ nodes[Current].version \in files => Excused(nodes[Current].version)
    BY <2>1 DEF LeakInv, SweepInv
  <2> QED BY <1>3, <2>1, <2>2
<1>16. CASE PruneStart
  BY <1>2, <1>16 DEF PruneStart, database
<1>17. CASE PruneNext
  BY <1>2, <1>3, <1>17 DEF PruneNext
<1>18. CASE UNCHANGED vars
  BY <1>2, <1>18 DEF vars, database
<1> QED BY <1>4, <1>5, <1>6, <1>7, <1>8, <1>9, <1>10, <1>11, <1>12, <1>13, <1>14, <1>15, <1>16, <1>17, <1>18 DEF Next, GcRemoves

\* It holds in every state.
LEMMA LeakInvariance == Spec => []LeakInv
<1>1. Init => LeakInv
  <2> SUFFICES ASSUME Init PROVE LeakInv
    OBVIOUS
  <2>1. DOMAIN nodes = {} /\ gc = None /\ files = {} /\ strays = {}
    BY DEF Init
  <2> QED BY <2>1 DEF LeakInv, OneRowInv, SweepInv, FilesInv
<1> QED BY <1>1, StepLeakInv, Invariance, PTL DEF Spec

\* Files on disk have a row, but for those of a run that died between saving
\* and recording, those it saved again under a row that a collection had on
\* its list, and those rmtree() left (gc_artifacts() removes the files of a row
\* before the row, and deletes the row whether or not they went).
THEOREM FilesAreKnown == Spec => []NothingLeaks
<1>1. IInv /\ LeakInv => NothingLeaks
  <2> SUFFICES ASSUME IInv, LeakInv PROVE NothingLeaks
    OBVIOUS
  <2>1. \A i \in DOMAIN nodes : nodes[i].deprecated \in {None} \cup 0..day
    <3> SUFFICES ASSUME NEW i \in DOMAIN nodes, nodes[i].deprecated # None
                 PROVE  nodes[i].deprecated \in 0..day
      OBVIOUS
    <3>1. nodes[i] \in Row /\ Marked(nodes[i], day) /\ day \in Nat
      BY DEF IInv, RowInv
    <3> QED BY <3>1 DEF Row, Day, Marked
  <2>2. TypeOK
    BY <2>1 DEF TypeOK, IInv, RowInv, LeakInv, OneRowInv, FilesInv
  <2> QED BY <2>2 DEF NothingLeaks, LeakInv, FilesInv, Excused
<1> QED BY <1>1, LeakInvariance, Invariance, PTL

\* A collection deletes the row it read, which was marked on an earlier day and
\* is marked still, whatever everybody else does to the rows while it works: no
\* id is given out twice (AUTOINCREMENT) and nothing takes a mark away.
THEOREM GraceIsGiven == Spec => GraceGiven
<1> DEFINE Given ==
      Collecting => \A i \in Ids : Deleted(i) =>
        LET read == gc.snap[i] IN
          /\ nodes[i].version = read.version
          /\ nodes[i].deprecated # None /\ read.deprecated # None
          /\ nodes[i].deprecated < day \/ nodes[i].deprecated > read.deprecated
<1>1. IInv /\ LeakInv /\ Next => Given
  <2> SUFFICES ASSUME IInv, LeakInv, Next, Collecting, NEW i \in Ids, Deleted(i)
               PROVE  /\ nodes[i].version = gc.snap[i].version
                      /\ nodes[i].deprecated # None /\ gc.snap[i].deprecated # None
                      /\ nodes[i].deprecated < day \/ nodes[i].deprecated > gc.snap[i].deprecated
    OBVIOUS
  <2>1. /\ gc # None /\ i \in gc.todo /\ i \in DOMAIN nodes
        /\ gc.snap[i].deprecated # None /\ nodes[i].deprecated # None
        /\ nodes[i].deprecated < day \/ nodes[i].deprecated > gc.snap[i].deprecated
    BY CollectionDeletes DEF Deleted
  <2>2. nodes[i].version = gc.snap[i].version
    BY <2>1 DEF LeakInv, OneRowInv
  <2> QED BY <2>1, <2>2
<1>2. IInv /\ LeakInv /\ [Next]_vars => [Given]_vars
  BY <1>1
<1> QED BY <1>2, Invariance, LeakInvariance, PTL DEF Spec, GraceGiven
===============================================================================
