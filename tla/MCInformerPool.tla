--------------------------- MODULE MCInformerPool ---------------------------
(* Model checking InformerPool: a subscription of two keys, of which one entry
   may be made again. *)
EXTENDS InformerPool
=============================================================================
