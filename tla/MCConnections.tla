--------------------------- MODULE MCConnections ---------------------------
(* Model checking Connections, started with clusters that can be used and
   with none. *)
EXTENDS Connections, TLC

CONSTANT x

MCStarts == {[c \in Clusters |-> x], [c \in Clusters |-> Gone]}
=============================================================================
