---------------------------- MODULE ArtifactPromise ----------------------------
(***************************************************************************)
(* What an artifact store promises to its readers: samples are added, none *)
(* is ever replaced, and the store is complete at most once it holds them  *)
(* all.  Only a store whose index is replaced in one step keeps everything *)
(* it held when a later run over it dies; the others may become unreadable *)
(* and hold again, or nothing.                                             *)
(***************************************************************************)
EXTENDS Functions, FiniteSets

CONSTANTS Samples, Values

VARIABLES
  durable,   \* whether the store's index is replaced in one step
  held,      \* what a reader of the directory finds: sample to value
  complete   \* whether MANIFEST_COMPLETE.json exists

vars == <<durable, held, complete>>

IsContents(h) == DOMAIN h \subseteq Samples /\ Range(h) \subseteq Values
Nothing == [s \in {} |-> {}]

Init == durable \in BOOLEAN /\ held = Nothing /\ complete = FALSE

Keeps(old, new) ==
  \A s \in DOMAIN old : s \in DOMAIN new /\ new[s] = old[s]

Add ==
  /\ ~complete /\ IsContents(held') /\ Keeps(held, held')
  /\ UNCHANGED <<durable, complete>>

\* A store whose index is written with its last sample is read from then on.
Complete ==
  /\ IsContents(held') /\ Keeps(held, held') /\ DOMAIN held' = Samples
  /\ complete' = TRUE /\ UNCHANGED durable

\* A run over a complete store rewrites its index: in between, or for ever
\* when it dies, there is none.
Tear == ~durable /\ held' = Nothing /\ UNCHANGED <<durable, complete>>

Mend == ~durable /\ held = Nothing /\ IsContents(held') /\ UNCHANGED <<durable, complete>>

Next == Add \/ Complete \/ Tear \/ Mend

Spec == Init /\ [][Next]_vars
===============================================================================
