----------------------------- MODULE MCCapacity -----------------------------
(* Model checking the two pages about what a cluster's nodes and requests could
   be: the consolidation card, and right-sizing.  A page that is not shown is
   not mounted and keeps nothing, so a behaviour has one of them open. *)
EXTENDS Consolidation

CONSTANTS
  Clusters, Resizable, Kinds, Containers, Vpa, Bytes, Used, Replicas, Sizes, MayScale, All,
  CpuFloor, MemFloor, MaxCalls, MaxTicks

VARIABLES page, requests, hpa, shown, got, sampled, selection, preview, calls, asked, done

-----------------------------------------------------------------------------
(* Right-sizing *)

W(kind, name) == [kind |-> kind, name |-> name]
Dep == W("Deployment", "db")
Sts == W("StatefulSet", "db")

KindsMC      == <<"Deployment", "StatefulSet", "DaemonSet">>
ResizableMC  == {Dep, Sts}
ContainersMC == (Dep :> {"x", "y"}) @@ (Sts :> {"x"})
ReplicasMC   == (Dep :> 2) @@ (Sts :> 2)

BytesMC == ("" :> 1) @@ ("k" :> 1000) @@ ("Ki" :> 1024) @@ ("M" :> 1000000) @@ ("Mi" :> 1048576)

Mem(n, suffix) == [n |-> n, suffix |-> suffix]
Size(cpu, mem) == [cpu |-> cpu, mem |-> mem]
SizesMC == (1 :> {Size(100, Mem(400, "M"))}) @@ (2 :> {Size(0, Mem(102400, "Ki"))})

MayScaleMC == (1 :> {Dep}) @@ (2 :> {})

NoTarget == <<>>
VpaMC ==
  (1 :> ((Dep :> ("x" :> [mem |-> Mem(115343360, "")])) @@ (Sts :> NoTarget))) @@
  (2 :> ((Dep :> ("x" :> Size(50, Mem(300, "Mi")))) @@
         (Sts :> ("x" :> [mem |-> Mem(262144, "k")]))))

(* The Deployment uses just what it requests at first. *)
UsedMC ==
  (1 :> ((Dep :> Size(100, 400000000)) @@ (Sts :> Size(40, 56 * 1048576)))) @@
  (2 :> ((Dep :> Size(0, 104857600)) @@ (Sts :> Size(40, 16 * 1048576))))

rightSizing == <<requests, hpa, shown, got, sampled, selection, preview, calls, asked, done>>

RightSizing == INSTANCE RightSizing

-----------------------------------------------------------------------------
(* Consolidation *)

On(key, value) == key :> value
In(key, value) == [key |-> key, op |-> "In", values |-> {value}]
Taint(key, effect) == [key |-> key, value |-> "", effect |-> effect]

More(key, value) == [key |-> key, op |-> "Gt", values |-> {value}]
NumberMC == ("2" :> 2) @@ ("4" :> 4)

Node(labels, taints, cpu, mem) == [labels |-> labels, taints |-> taints, cpu |-> cpu, mem |-> mem]
NodeMC ==
  "a" :> Node(On("zone", "z1"), {}, 4, 4) @@
  "b" :> Node(On("zone", "z2") @@ On("cores", "4"), {Taint("spot", "PreferNoSchedule")}, 4, 3) @@
  "c" :> Node(On("zone", "z2") @@ On("cores", "4"), {Taint("gpu", "NoSchedule")}, 5, 5) @@
  "m" :> Node(On("master", ""), {}, 2, 0)

Plain == [ns |-> "n", labels |-> On("app", "web"), owner |-> "ReplicaSet", mirror |-> FALSE,
          terminal |-> FALSE, cpu |-> 1, mem |-> 1, selector |-> <<>>, terms |-> {},
          tolerations |-> {}, affinity |-> FALSE, hostPort |-> FALSE]
Gpu == [key |-> "gpu", op |-> "Exists", value |-> "", effect |-> "NoSchedule"]
PodMC ==
  "web"  :> Plain @@
  "big"  :> [Plain EXCEPT !.cpu = 3, !.mem = 1, !.tolerations = {Gpu}] @@
  "mem"  :> [Plain EXCEPT !.mem = 3, !.labels = On("app", "db"), !.tolerations = {Gpu},
                          !.terms = {[exprs |-> {In("zone", "z2"), More("cores", "2")}, fields |-> {}],
                                     [exprs |-> {}, fields |-> {In("name", "a")}]}] @@
  "solo" :> [Plain EXCEPT !.labels = On("app", "solo")] @@
  "ds"   :> [Plain EXCEPT !.owner = "DaemonSet"] @@
  "bare" :> [Plain EXCEPT !.owner = ""]

PdbMC == "db" :> [ns |-> "n", sel |-> Having(On("app", "db"))]
WorkloadMC ==
  "solo" :> [ns |-> "n", kind |-> "Deployment", replicas |-> 1, template |-> On("app", "solo"),
             sel |-> Having(On("app", "solo"))] @@
  "db"   :> [ns |-> "n", kind |-> "StatefulSet", replicas |-> 1, template |-> On("app", "db"),
             sel |-> Having(On("app", "db"))]

(* The DaemonSet's pod is on b, the bare pod on b or on the control plane. *)
HomesMC ==
  {h \in [DOMAIN PodMC -> DOMAIN NodeMC] :
     h["ds"] = "b" /\ h["bare"] \in {"b", "m"} /\ \A p \in DOMAIN PodMC \ {"bare"} : h[p] # "m"}
ListedMC == <<"c", "b", "m", "a">>
NamesMC  == <<"a", "b", "c", "m">>

-----------------------------------------------------------------------------
(* Either page.  The other one stays at one of its initial states. *)

NoInput ==
  /\ home = CHOOSE h \in Homes : TRUE
  /\ ready = Nodes
  /\ cordoned = {}
  /\ exhausted = {}

NoRows ==
  /\ shown = 1
  /\ hpa = [k \in Clusters |-> {}]

CapacityInit ==
  /\ Init
  /\ RightSizing!Init
  /\ \/ page = "consolidation" /\ NoRows
     \/ page = "right-sizing" /\ NoInput

CapacityNext ==
  /\ UNCHANGED page
  /\ \/ page = "consolidation" /\ Next /\ UNCHANGED rightSizing
     \/ page = "right-sizing" /\ RightSizing!Next /\ UNCHANGED vars

CapacitySpec == CapacityInit /\ [][CapacityNext]_<<page, vars, rightSizing>>

(* RightSizing's: what the user ticked or unticked stays so (RightSizing.tsx:136). *)
ChoicesStand == RightSizing!ChoicesStand

(* RightSizing's: an apply changes requests only to what the page reads in that
   cluster's own VPA for that container, as it writes it (rightsizing.ts:387). *)
OnlyRecommended == RightSizing!OnlyRecommended

=============================================================================
