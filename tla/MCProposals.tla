---------------------------- MODULE MCProposals ----------------------------
(* Model checking Proposals.  Requests, handlers and values are only
   compared, so each may be permuted in the safety runs. *)
EXTENDS Proposals

Symmetry == Permutations(Requests) \cup Permutations(Handlers) \cup Permutations(Values)
=============================================================================
