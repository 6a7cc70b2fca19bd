--------------------------- MODULE Consolidation ---------------------------
(***************************************************************************)
(* The node consolidation view (lib/consolidation.ts): each node is judged *)
(* alone, "would its pods fit on the rest by requests, and what would stop *)
(* a drain", then nodes are drained on paper one after another, emptiest   *)
(* first, every drained node's pods staying where they landed.  Pods are   *)
(* placed largest first, each on the first node with room.                 *)
(*                                                                         *)
(* One action is one pod placed or one verdict reached.  Pods of the same  *)
(* size are placed in any order.  A pod's requests are added up already,   *)
(* and amounts are as the page reads them (RightSizing!parseMemBytes).     *)
(***************************************************************************)
EXTENDS Naturals, SequencesExt, LabelSelectors

CONSTANTS
  Nodes, Pods, Pdbs, Workloads,
  NodeOf,        \* node |-> [labels, taints, cpu, mem (allocatable)]
  PodOf,         \* pod |-> [ns, labels, owner, mirror, terminal, cpu, mem, selector, terms,
                 \*          tolerations, affinity, hostPort]
  PdbOf,         \* budget |-> [ns, sel]
  WorkloadOf,    \* workload |-> [ns, kind, replicas, template, sel]
  Order, ByName, \* the nodes as the cluster lists them, and by name
  RoleKeys,      \* labels of a control-plane node
  NameField,     \* metadata.name, the field a node affinity may match
  Number,        \* label value |-> the number it is, for those that are one
  Homes,         \* where the pods may be
  Away,          \* nodes that may not be Ready, or be cordoned
  NoNode

ASSUME NodesAreListed == /\ Nodes = {Order[i] : i \in DOMAIN Order}
                         /\ Nodes = {ByName[i] : i \in DOMAIN ByName}
ASSUME NoNodeIsNone   == NoNode \notin Nodes
ASSUME HomesAreNodes  == Homes \subseteq [Pods -> Nodes]

VARIABLES
  home,      \* input: where each pod runs
  ready, cordoned, exhausted, \* input: Ready nodes, cordoned nodes, budgets that allow no disruption
  phase,     \* "each", "greedy" or "done"
  left,      \* nodes still to be judged in this phase
  at,        \* where each pod is on paper
  req,       \* what is requested of each node on paper
  trial,     \* the judgement under way
  rows,      \* node |-> its verdict
  removed    \* nodes drained on paper

input == <<home, ready, cordoned, exhausted>>
vars  == <<input, phase, left, at, req, trial, rows, removed>>

Dims == {"cpu", "mem"}

-----------------------------------------------------------------------------
(* Which node takes a pod *)

Index(seq, n) == CHOOSE i \in DOMAIN seq : seq[i] = n

Tolerates(pod, taint) ==
  \E tol \in pod.tolerations :
    /\ tol.effect \in {"", taint.effect}
    /\ IF tol.key = "" THEN tol.op = "Exists"
       ELSE tol.key = taint.key /\ (tol.op = "Exists" \/ tol.value = taint.value)

(* A node affinity may compare numbers: the label's with the one value given. *)
ExprMatches(labels, e) ==
  IF e.op \notin {"Gt", "Lt"} THEN Matches(labels, [labels |-> <<>>, exprs |-> {e}])
  ELSE /\ e.key \in DOMAIN labels /\ {labels[e.key]} \cup e.values \subseteq DOMAIN Number
       /\ \E v \in e.values : IF e.op = "Gt" THEN Number[labels[e.key]] > Number[v]
                               ELSE Number[labels[e.key]] < Number[v]

(* A term's fields match the node's name. *)
TermMatches(term, n) ==
  /\ \A e \in term.exprs : ExprMatches(NodeOf[n].labels, e)
  /\ \A e \in term.fields : ExprMatches([f \in {NameField} |-> n], e)

FitsOn(p, n) ==
  LET pod == PodOf[p]
  IN  /\ Matches(NodeOf[n].labels, Having(pod.selector))
      /\ pod.terms = {} \/ \E term \in pod.terms : TermMatches(term, n)
      /\ \A t \in NodeOf[n].taints :
           t.effect \in {"NoSchedule", "NoExecute"} => Tolerates(pod, t)

(* Mutant: memory is not looked at. *)
HasRoom_CpuOnly(p, n) == trial.req[n]["cpu"] + PodOf[p]["cpu"] <= NodeOf[n]["cpu"]

HasRoom(p, n) == \A dim \in Dims : trial.req[n][dim] + PodOf[p][dim] <= NodeOf[n][dim]

-----------------------------------------------------------------------------
(* What is on a node, and what stops its drain *)

Counted(p) == ~PodOf[p].terminal
Stays(p)   == PodOf[p].owner = "DaemonSet" \/ PodOf[p].mirror

Movable(n) == {p \in Pods : Counted(p) /\ ~Stays(p) /\ at[p] = n}

SumOf(where, n) ==
  [dim \in Dims |-> MapThenSumSet(LAMBDA p : PodOf[p][dim], {p \in Pods : Counted(p) /\ where[p] = n})]

Receives(n) == n \in ready /\ n \notin cordoned

Skipped(n) == ~Receives(n) \/ RoleKeys \cap DOMAIN NodeOf[n].labels # {}

(* spof.ts: one replica, and no budget over the pods of its template. *)
SingleReplicaNoPdb(w) ==
  /\ WorkloadOf[w].kind \in {"Deployment", "StatefulSet"} /\ WorkloadOf[w].replicas <= 1
  /\ \A b \in Pdbs : ~(PdbOf[b].ns = WorkloadOf[w].ns /\ Matches(WorkloadOf[w].template, PdbOf[b].sel))

Spofs(p) ==
  {w \in Workloads : /\ SingleReplicaNoPdb(w) /\ WorkloadOf[w].ns = PodOf[p].ns
                     /\ Matches(PodOf[p].labels, WorkloadOf[w].sel)}

Budgets(p) == {b \in exhausted : PdbOf[b].ns = PodOf[p].ns /\ Matches(PodOf[p].labels, PdbOf[b].sel)}

Constrained(p) == PodOf[p].affinity \/ PodOf[p].hostPort

Blocks(p) == PodOf[p].owner = "" \/ Budgets(p) # {} \/ Constrained(p)

Outcome ==
  LET pods == Movable(trial.node)
  IN  IF trial.unplaced # {} \/ \E p \in pods : Blocks(p) THEN "blocked"
      ELSE IF \E p \in pods : Spofs(p) # {} THEN "downtime" ELSE "drainable"

-----------------------------------------------------------------------------
(* The simulation *)

None == [node |-> NoNode]

Candidates == {n \in Nodes : ~Skipped(n)}

Init ==
  /\ home \in Homes
  /\ ready \in {Nodes \ away : away \in SUBSET Away} /\ cordoned \in SUBSET Away
  /\ exhausted \in SUBSET Pdbs
  /\ phase = "each" /\ left = Candidates /\ removed = {} /\ trial = None
  /\ at = home /\ req = [n \in Nodes |-> SumOf(home, n)]
  /\ rows = [n \in Nodes |-> "skipped"]

(* Requested over allocatable as a fraction; a node with nothing to give is full. *)
Share(n, dim) ==
  IF NodeOf[n][dim] = 0 THEN <<1, 1>> ELSE <<SumOf(home, n)[dim], NodeOf[n][dim]>>

NoFuller(m, n) ==
  \A d \in Dims : \E e \in Dims : Share(m, d)[1] * Share(n, e)[2] <= Share(n, e)[1] * Share(m, d)[2]

(* By how full they were at the start, then by name. *)
IsNext(n) ==
  IF phase = "each" THEN \A m \in left : Index(Order, n) <= Index(Order, m)
  ELSE \A m \in left : NoFuller(n, m) /\ (NoFuller(m, n) => Index(ByName, n) <= Index(ByName, m))

Judge(n) ==
  /\ trial = None /\ n \in left /\ IsNext(n)
  /\ trial' = [node |-> n, req |-> req, todo |-> {p \in Movable(n) : ~Constrained(p)},
               landed |-> <<>>, unplaced |-> {}]
  /\ UNCHANGED <<input, phase, left, at, req, rows, removed>>

Targets == {n \in Nodes \ {trial.node} : Receives(n) /\ n \notin removed}

Rest(p) == trial.todo \ {p}

Larger(p, q) ==
  \/ PodOf[p]["cpu"] > PodOf[q]["cpu"]
  \/ PodOf[p]["cpu"] = PodOf[q]["cpu"] /\ PodOf[p]["mem"] > PodOf[q]["mem"]

Room(p) == {n \in Targets : HasRoom(p, n) /\ FitsOn(p, n)}

(* What is requested of a node when p is on it too. *)
With(r, p) == [dim \in Dims |-> r[dim] + PodOf[p][dim]]

Place(p) ==
  /\ trial # None /\ p \in trial.todo /\ \A q \in trial.todo : ~Larger(q, p)
  /\ \E n \in Room(p) :
       /\ \A m \in Room(p) : Index(Order, n) <= Index(Order, m)
       /\ trial' = [trial EXCEPT
            !.todo = Rest(p),
            !.req[n] = With(@, p),
            !.landed = [q \in DOMAIN @ \cup {p} |-> IF q = p THEN n ELSE @[q]]]
  /\ UNCHANGED <<input, phase, left, at, req, rows, removed>>

NoRoom(p) ==
  /\ trial # None /\ p \in trial.todo /\ \A q \in trial.todo : ~Larger(q, p)
  /\ Room(p) = {}
  /\ trial' = [trial EXCEPT !.todo = Rest(p), !.unplaced = @ \cup {p}]
  /\ UNCHANGED <<input, phase, left, at, req, rows, removed>>

(* Mutant: a trial adds to the totals themselves, not to a copy of them. *)
Kept_Shared == req' = trial.req

(* A trial that ends in no drain leaves no trace. *)
Kept == req' = req

(* A row of the table. *)
Row ==
  /\ trial # None /\ trial.todo = {} /\ phase = "each"
  /\ rows' = [rows EXCEPT ![trial.node] = Outcome]
  /\ left' = left \ {trial.node} /\ trial' = None
  /\ Kept
  /\ UNCHANGED <<input, phase, at, removed>>

PassOver ==
  /\ trial # None /\ trial.todo = {} /\ phase = "greedy" /\ Outcome # "drainable"
  /\ left' = left \ {trial.node} /\ trial' = None
  /\ Kept
  /\ UNCHANGED <<input, phase, at, rows, removed>>

Drain ==
  /\ trial # None /\ trial.todo = {} /\ phase = "greedy" /\ Outcome = "drainable"
  /\ removed' = removed \cup {trial.node}
  /\ req' = trial.req
  /\ at' = [p \in Pods |-> IF p \in DOMAIN trial.landed THEN trial.landed[p] ELSE at[p]]
  /\ left' = left \ {trial.node} /\ trial' = None
  /\ UNCHANGED <<input, phase, rows>>

Greedy ==
  /\ phase = "each" /\ left = {}
  /\ phase' = "greedy" /\ left' = Candidates
  /\ UNCHANGED <<input, at, req, trial, rows, removed>>

Finish ==
  /\ phase = "greedy" /\ left = {}
  /\ phase' = "done"
  /\ UNCHANGED <<input, left, at, req, trial, rows, removed>>

Next ==
  \/ \E n \in Nodes : Judge(n)
  \/ \E p \in Pods : Place(p) \/ NoRoom(p)
  \/ Row \/ PassOver \/ Drain \/ Greedy \/ Finish

Spec == Init /\ [][Next]_vars

-----------------------------------------------------------------------------
(* Properties *)

(* The type invariant: a trial is of a node still to be judged, and what it has
   placed, could not place and has still to place are apart. *)
TrialOK ==
  \/ trial = None
  \/ /\ trial.node \in left
     /\ DOMAIN trial.req = Nodes /\ \A n \in Nodes : DOMAIN trial.req[n] = Dims
     /\ trial.todo \subseteq Movable(trial.node) /\ trial.unplaced \subseteq Movable(trial.node)
     /\ DOMAIN trial.landed \subseteq Movable(trial.node)
     /\ \A p \in DOMAIN trial.landed : trial.landed[p] \in Nodes
     /\ trial.todo \cap (DOMAIN trial.landed \cup trial.unplaced) = {}

TypeOK ==
  /\ home \in [Pods -> Nodes] /\ at \in [Pods -> Nodes]
  /\ ready \subseteq Nodes /\ exhausted \subseteq Pdbs
  /\ phase \in {"each", "greedy", "done"}
  /\ left \subseteq Candidates /\ removed \subseteq Candidates \ left
  /\ DOMAIN req = Nodes /\ \A n \in Nodes : DOMAIN req[n] = Dims
  /\ rows \in [Nodes -> {"skipped", "drainable", "downtime", "blocked"}]
  /\ phase = "each" => removed = {} /\ at = home
  /\ TrialOK

(* What is requested of a node that still takes pods is exactly what its pods ask
   for: a trial that came to nothing leaves no trace, one that drained a node leaves
   all of it ("the next candidate is judged against that fuller cluster"). *)
ReqExact ==
  \A n \in Nodes \ removed : Receives(n) => req[n] = SumOf(at, n)

(* No node is filled beyond what it can give; one that was beyond it at the start
   gets nothing more. *)
NeverOverfull ==
  \A n \in Nodes : \A dim \in Dims :
    req[n][dim] <= NodeOf[n][dim] \/ req[n][dim] = SumOf(home, n)[dim]

(* A pod that was moved, however often, is one a drain may move: something makes it
   again, no budget over it is used up, nothing of it is left out of the simulation,
   and its workload survives it.  It is on a node that takes pods and that it fits. *)
MovedSafely ==
  \A p \in Pods : at[p] # home[p] =>
    /\ PodOf[p].owner \notin {"", "DaemonSet"} /\ ~PodOf[p].affinity /\ ~PodOf[p].hostPort
    /\ \A b \in exhausted : PdbOf[b].ns = PodOf[p].ns => ~Matches(PodOf[p].labels, PdbOf[b].sel)
    /\ Spofs(p) = {}
    /\ at[p] \in ready \ cordoned /\ FitsOn(p, at[p])

(* A drained node is a candidate whose pods are all gone, and it gets none back from
   the nodes drained after it. *)
DrainedStayEmpty ==
  \A n \in removed : ~Skipped(n) /\ Movable(n) = {}

(* However the trials went, the totals the next node is judged against and the places
   of the pods it would have to move tell the same story. *)
TrialsLeaveNoTrace == ReqExact /\ DrainedStayEmpty

=============================================================================
