---- MODULE MCEngines ----
(* An adapter that keeps its engine and one that does not, each with or without an engine of its own. *)
EXTENDS Engines, TLC
CONSTANTS t1, t2, keeping, asking
AllThreads == {t1, t2}
AllApps == {keeping, asking}
KeepingApps == {keeping}
Sym == Permutations(AllThreads)
====
