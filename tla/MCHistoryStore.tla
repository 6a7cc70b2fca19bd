-------------------------- MODULE MCHistoryStore --------------------------
EXTENDS HistoryStore, TLC

EngineSymmetry == Permutations(Engines)

(* A tick in which all is well, and one without the namespace in which both
   workloads are broken. *)
MCObs == {[ns |-> {0, 1}, broken |-> {}], [ns |-> {0}, broken |-> {1, 2}]}
===========================================================================
