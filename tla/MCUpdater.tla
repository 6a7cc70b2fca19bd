----------------------------- MODULE MCUpdater -----------------------------
(* Model checking PortForwards and Updater.  On a server: a forward; another
   one, or somebody who stops the first; and a teardown of its cluster.  In the
   app: a forward is started and stopped, another write is made, and a terminal
   is opened and closed around an install. *)
EXTENDS Updater, TLC

CONSTANTS r1, r2, r3, r4, c1, c2, u1, u2

MCRequests == {r1, r2, r3, r4}
MCOnServer == {r1, r2, r3}
MCInApp    == {r1, r4}
MCClusters == {c1, c2}

A(kind, c, u) == [kind |-> kind, cluster |-> c, user |-> u]

MCAsks ==
  (r1 :> {A("start", c1, u1)}) @@
  (r2 :> {A("start", c1, u2), A("start", c2, u1), A("stop", c1, u1), A("stop", c1, u2)}) @@
  (r3 :> {A("disconnect", c1, u1), A("reload", c1, u1)}) @@
  (r4 :> {A("stop", c1, u1), A("apply", c1, u1)})

=============================================================================
