---------------------------- MODULE PortForwards ----------------------------
(***************************************************************************)
(* The port-forwards of the engine: the manager's table and its lock       *)
(* (engine/internal/httpapi/portforward.go), the requests that start and   *)
(* stop a forward, the teardown of a cluster (cluster_connect.go,          *)
(* clusters/manager.go), and the count of writes in flight (activity.go)   *)
(* that all of these requests are part of.                                 *)
(*                                                                         *)
(* Each request is a goroutine, and so is each forward: client-go's        *)
(* ForwardPorts, external, which dials, listens, closes `ready`, and       *)
(* returns when its `stop` channel is closed or the connection is lost.    *)
(***************************************************************************)
EXTENDS Naturals

CONSTANTS
  Requests,     \* goroutines of requests, and of one reload of the kubeconfig
  Asks,         \* what each of them may be: its kind, cluster and user
  Clusters,
  Local,        \* the one user there is without OIDC
  CoarseClock,  \* two readings of the clock in nanoseconds may be the same
  MaxIds        \* bound of the model: how far the clock goes

Writes == {"start", "stop", "disconnect", "apply"}
NoOne  == "no one"

ASSUME AsksKnown ==
  \A p \in Requests : \A a \in Asks[p] :
    a.kind \in Writes \cup {"reload"} /\ a.cluster \in Clusters
ASSUME NamesApart == NoOne \notin Requests
ASSUME BoundNat == MaxIds \in Nat /\ CoarseClock \in BOOLEAN

VARIABLES
  auth,       \* OIDC is configured
  known,      \* clusters in the manager's table
  connected,  \* those the user is connected to
  clock,      \* the last time an id was made of
  table,      \* PFManager.m: the request that started the forward of each id
  req,        \* what each request is doing
  fwd,        \* what the ForwardPorts of each starting request is doing
  stop        \* requests whose forward's stop channel is closed

vars == <<auth, known, connected, clock, table, req, fwd, stop>>
mgr  == <<auth, known, connected>>
ports == <<clock, table, fwd, stop>>

Resting == [pc |-> "idle", kind |-> "none", cluster |-> NoOne, user |-> NoOne,
            id |-> 0, work |-> {}, hand |-> NoOne, ok |-> TRUE]

(* Requests counted by the middleware: any that is neither GET, HEAD nor
   OPTIONS, from its arrival to its answer. *)
InFlight == {p \in Requests : req[p].kind \in Writes /\ req[p].pc # "answered"}

Init ==
  /\ auth \in BOOLEAN
  /\ known = Clusters
  /\ connected \in {{}, Clusters}
  /\ clock = 0
  /\ table = [id \in {} |-> NoOne]
  /\ req = [p \in Requests |-> Resting]
  /\ fwd = [p \in Requests |-> "none"]
  /\ stop = {}

At(p, pc) == req[p].pc = pc

To(p, pc) == req' = [req EXCEPT ![p].pc = pc]

Answer(p, ok) == req' = [req EXCEPT ![p].pc = "answered", ![p].ok = ok]

With(id, p) == [i \in DOMAIN table \cup {id} |-> IF i = id THEN p ELSE table[i]]

Without(id) == [i \in DOMAIN table \ {id} |-> table[i]]

-----------------------------------------------------------------------------
(* What comes in.  A request to stop names any id a page may have seen. *)

Arrive(p, a) ==
  /\ At(p, "idle")
  /\ a.kind \in Writes
  /\ \E id \in (IF a.kind = "stop" THEN 1 .. clock ELSE {0}) :
       req' = [req EXCEPT ![p] = [Resting EXCEPT !.pc = a.kind, !.kind = a.kind,
                 !.cluster = a.cluster, !.user = IF auth THEN a.user ELSE Local,
                 !.id = id]]
  /\ UNCHANGED <<mgr, ports>>

(* Any other write, an apply or a Helm upgrade, has been handled. *)
Applied(p) ==
  /\ At(p, "apply")
  /\ Answer(p, TRUE)
  /\ UNCHANGED <<mgr, ports>>

-----------------------------------------------------------------------------
(* Start *)

(* The cluster's config is read; the dialers made of it keep it. *)
Config(p) ==
  /\ At(p, "start")
  /\ IF req[p].cluster \in known THEN To(p, "insert") ELSE Answer(p, FALSE)
  /\ UNCHANGED <<mgr, ports>>

(* Under the lock: the id is the time, and ForwardPorts is started. *)
Insert(p) ==
  /\ At(p, "insert")
  /\ \E id \in (IF CoarseClock THEN {clock, clock + 1} ELSE {clock + 1}) :
       /\ id \in 1 .. MaxIds
       /\ clock' = id
       /\ table' = With(id, p)
       /\ req' = [req EXCEPT ![p].pc = "wait", ![p].id = id]
  /\ fwd' = [fwd EXCEPT ![p] = "dialing"]
  /\ UNCHANGED <<mgr, stop>>

(* ForwardPorts closed `ready`, whether or not it has returned since. *)
IsReady(p) == fwd[p] \in {"listening", "returned"}

Ready(p) ==
  /\ At(p, "wait")
  /\ IsReady(p)
  /\ Answer(p, TRUE)
  /\ UNCHANGED <<mgr, ports>>

(* Mutant: the start returns the error and leaves the forward. *)
GiveUp_Leaves(p) ==
  /\ At(p, "wait")
  /\ Answer(p, FALSE)
  /\ UNCHANGED <<mgr, ports>>

(* 15 s are over, or the page that asked is gone: p.stop(id). *)
GiveUp(p) ==
  /\ At(p, "wait")
  /\ req' = [req EXCEPT ![p].pc = "stopping", ![p].work = {req[p].id}, ![p].ok = FALSE]
  /\ UNCHANGED <<mgr, ports>>

-----------------------------------------------------------------------------
(* Stop and StopCluster: which ids to stop, under the lock *)

(* Mutant: without the owner check. *)
Lookup_AnyOwner(p) ==
  /\ At(p, "stop")
  /\ LET id == req[p].id IN
     IF id \in DOMAIN table
     THEN req' = [req EXCEPT ![p].pc = "stopping", ![p].work = {id}]
     ELSE Answer(p, FALSE)
  /\ UNCHANGED <<mgr, ports>>

Lookup(p) ==
  /\ At(p, "stop")
  /\ LET id == req[p].id IN
     IF id \in DOMAIN table /\ req[table[id]].user = req[p].user
     THEN req' = [req EXCEPT ![p].pc = "stopping", ![p].work = {id}]
     ELSE Answer(p, FALSE)
  /\ UNCHANGED <<mgr, ports>>

(* Manager.Disconnect, which OIDC rules out. *)
Disconnect(p) ==
  /\ At(p, "disconnect")
  /\ IF auth \/ req[p].cluster \notin known
     THEN Answer(p, FALSE) /\ UNCHANGED connected
     ELSE To(p, "hooks") /\ connected' = connected \ {req[p].cluster}
  /\ UNCHANGED <<auth, known, ports>>

(* A Load whose kubeconfigs have the cluster no more: its hooks run if the
   user was connected to it. *)
Leaves(p, a) ==
  /\ At(p, "idle")
  /\ a.kind = "reload"
  /\ a.cluster \in known
  /\ known' = known \ {a.cluster}
  /\ connected' = connected \ {a.cluster}
  /\ req' = [req EXCEPT ![p] = [Resting EXCEPT !.kind = "reload", !.cluster = a.cluster,
               !.pc = IF a.cluster \in connected THEN "hooks" ELSE "answered"]]
  /\ UNCHANGED <<auth, ports>>

IdsOf(c) == {id \in DOMAIN table : req[table[id]].cluster = c}

(* The hook: StopCluster reads the table. *)
Collect(p) ==
  /\ At(p, "hooks")
  /\ req' = [req EXCEPT ![p].pc = "stopping", ![p].work = IdsOf(req[p].cluster)]
  /\ UNCHANGED <<mgr, ports>>

-----------------------------------------------------------------------------
(* stop(id), for each of them: out of the table, under the lock; then, after
   it, the channel. *)

Busy(p) == At(p, "stopping") /\ req[p].hand # NoOne

(* Mutant: the entry is deleted, its channel not kept. *)
Take_Forgets(p, id) ==
  /\ At(p, "stopping")
  /\ ~ Busy(p)
  /\ id \in req[p].work
  /\ req' = [req EXCEPT ![p].work = @ \ {id}]
  /\ table' = Without(id)
  /\ UNCHANGED <<mgr, clock, fwd, stop>>

Take(p, id) ==
  /\ At(p, "stopping")
  /\ ~ Busy(p)
  /\ id \in req[p].work
  /\ req' = [req EXCEPT ![p].work = @ \ {id},
               ![p].hand = IF id \in DOMAIN table THEN table[id] ELSE NoOne]
  /\ table' = Without(id)
  /\ UNCHANGED <<mgr, clock, fwd, stop>>

Close(p) ==
  /\ Busy(p)
  /\ stop' = stop \cup {req[p].hand}
  /\ req' = [req EXCEPT ![p].hand = NoOne]
  /\ UNCHANGED <<mgr, clock, table, fwd>>

Stopped(p) ==
  /\ At(p, "stopping")
  /\ ~ Busy(p)
  /\ req[p].work = {}
  /\ Answer(p, req[p].ok)
  /\ UNCHANGED <<mgr, ports>>

-----------------------------------------------------------------------------
(* ForwardPorts *)

Goes(p, from, to) ==
  /\ fwd[p] = from
  /\ fwd' = [fwd EXCEPT ![p] = to]
  /\ UNCHANGED <<mgr, clock, table, req, stop>>

(* It does not look at `stop` while it dials. *)
Listens(p)   == Goes(p, "dialing", "listening")
DialFails(p) == Goes(p, "dialing", "failed")

(* The pod is gone, or the connection to it. *)
Lost(p) == Goes(p, "listening", "returned")

Heeds(p) == p \in stop /\ Goes(p, "listening", "returned")

-----------------------------------------------------------------------------
Arrival == \E p \in Requests : \E a \in Asks[p] : Arrive(p, a) \/ Leaves(p, a)

Serve(p) ==
  \/ Config(p) \/ Insert(p) \/ Ready(p) \/ GiveUp(p) \/ Lookup(p)
  \/ Disconnect(p) \/ Collect(p) \/ Close(p) \/ Stopped(p) \/ Applied(p)
  \/ \E id \in req[p].work : Take(p, id)

Next ==
  \/ Arrival
  \/ \E p \in Requests :
       Serve(p) \/ Listens(p) \/ DialFails(p) \/ Lost(p) \/ Heeds(p)

(* Requests are served, each of them having a timeout where it waits, and a
   forward that listens sees its stop channel.  Nobody has to dial with
   success, or at all. *)
Fairness == \A p \in Requests : WF_vars(Serve(p)) /\ WF_vars(Heeds(p))

Spec == Init /\ [][Next]_vars /\ Fairness

-----------------------------------------------------------------------------
Users == {a.user : a \in UNION {Asks[p] : p \in Requests}}

Doing ==
  [pc : Writes \cup {"idle", "insert", "wait", "hooks", "stopping", "answered"},
   kind : Writes \cup {"none", "reload"}, cluster : Clusters \cup {NoOne},
   user : Users \cup {Local, NoOne}, id : 0 .. MaxIds,
   work : SUBSET (1 .. MaxIds), hand : Requests \cup {NoOne}, ok : BOOLEAN]

(* Every variable has its type. *)
TypeOK ==
  /\ auth \in BOOLEAN
  /\ known \subseteq Clusters
  /\ connected \subseteq Clusters
  /\ clock \in 0 .. MaxIds
  /\ DOMAIN table \subseteq 1 .. clock
  /\ \A id \in DOMAIN table : table[id] \in Requests
  /\ req \in [Requests -> Doing]
  /\ fwd \in [Requests -> {"none", "dialing", "listening", "returned", "failed"}]
  /\ stop \subseteq Requests

(* A forward that may be reachable on this machine can be found and stopped:
   it is in the table under its own id, unless a goroutine has taken it out
   and is about to close its stop channel (portforward.go:103-112, 153-165). *)
StillStoppable ==
  \A p \in Requests :
    fwd[p] \in {"dialing", "listening"} /\ p \notin stop =>
      \/ req[p].id \in DOMAIN table /\ table[req[p].id] = p
      \/ \E q \in Requests : req[q].hand = p

(* Nobody's forward is taken out of the table but by its own failing start, by
   a request of the user who started it, or by a teardown of its cluster,
   though stop(id) is a second lock section after the one that looked
   (portforward.go:140-181). *)
Entitled(q, p) ==
  CASE req[q].kind = "start" -> q = p
    [] req[q].kind = "stop"  -> req[q].user = req[p].user
    [] OTHER                 -> req[q].cluster = req[p].cluster

OnlyTheirOwn ==
  \A q \in Requests : req[q].hand # NoOne => Entitled(q, req[q].hand)

(* Whatever was to end stays ended: the forward of a start that was answered
   with an error, also one whose dial comes through afterwards, and every
   forward that a teardown of its cluster, or a stop, found in the table,
   whoever else is stopping it (portforward.go:116-126, 169-181). *)
Condemned(p) ==
  \/ At(p, "answered") /\ ~ req[p].ok
  \/ \E q \in Requests : At(q, "stopping") /\ req[p].id \in req[q].work

EndsForGood ==
  \A p \in Requests : [](Condemned(p) => <>[](fwd[p] # "listening"))

(* Every request is answered, though ForwardPorts' error is dropped and a
   failed dial never makes `ready` (portforward.go:112-126). *)
Answered == \A p \in Requests : []<>(req[p].pc \in {"idle", "answered"})

-----------------------------------------------------------------------------
(* Expectations the code does not meet; no run checks them. *)

(* "PortForwards are running port-forwards" (activity.go:16): one whose
   connection is lost stays in the table until it is stopped. *)
CountIsRunning ==
  \A id \in DOMAIN table : fwd[table[id]] \in {"dialing", "listening"}

=============================================================================
