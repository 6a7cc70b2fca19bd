---------------------------- MODULE MCCoalescer ----------------------------
(* Model checking Coalescer.  The run checks liveness, so it uses no
   symmetry. *)
EXTENDS Coalescer, TLC
=============================================================================
