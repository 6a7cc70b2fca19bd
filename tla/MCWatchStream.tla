--------------------------- MODULE MCWatchStream ---------------------------
(* Model checking WatchStream: one namespace with objects, one that is empty
   or refused. *)
EXTENDS WatchStream

CONSTANTS n1, n2, a

NamespacesMC == {n1, n2}
NamesMC == (n1 :> {a}) @@ (n2 :> {})
=============================================================================
