-------------------------- MODULE MCPolicyBuilder --------------------------
EXTENDS PolicyBuilder, TLC

Sym == Permutations(Clusters)

AppFirst == <<"app", "k8s-app">>

(* Two namespaces; the second is that of kube-dns too. *)
NsLabels == [a |-> [team |-> "x"], b |-> [team |-> "y"]]
KubeDns  == [ns |-> "b", pods |-> Having([app |-> "dns"])]

Http == [name |-> "http", protocol |-> "TCP", port |-> 80]
Pod(i, ns, labels, ports) == [at |-> i, ns |-> ns, name |-> i, labels |-> labels, ip |-> 8 + i, ports |-> ports]

PodsMC ==
  {Pod(1, "a", [app |-> "web"], {Http}),
   Pod(2, "a", [app |-> "web", tier |-> "x"], {}),
   Pod(3, "b", [app |-> "dns"], {Http})}

PortsMC == {[protocol |-> "TCP", port |-> 80], [protocol |-> "TCP", port |-> 81],
            [protocol |-> "UDP", port |-> 53]}

Tcp(n)   == [protocol |-> "TCP", name |-> {}, any |-> FALSE, first |-> n, last |-> 0]
HttpName == [protocol |-> "TCP", name |-> {"http"}, any |-> FALSE, first |-> 0, last |-> 0]

FromPods(ns, labels) == [kind |-> "pods", ns |-> ns, labels |-> labels, cidr |-> [base |-> 0, size |-> 0]]
FromNs(n) == [kind |-> "namespace", ns |-> {n}, labels |-> <<>>, cidr |-> [base |-> 0, size |-> 0]]
FromCidr  == [kind |-> "cidr", ns |-> {}, labels |-> <<>>, cidr |-> [base |-> 8, size |-> 4]]
Rule(peer, ports) == [peer |-> peer, ports |-> ports]

Form(ns, labels, ingress, egress) ==
  [reads |-> TRUE, ns |-> ns, name |-> "np", podLabels |-> labels, ingress |-> ingress,
   egress |-> egress, allowDns |-> TRUE]

DraftsMC ==
  {Form("a", [tier |-> "x"], {{}}, {}),
   Form("a", [app |-> "web"], {{Rule(FromNs("b"), {Tcp(80)})}}, {{}}),
   Form("b", <<>>, {{Rule(FromPods({"a"}, [tier |-> "x"]), {})}}, {{Rule(FromCidr, {Tcp(81)})}}),
   [Form("a", <<>>, {{}}, {}) EXCEPT !.reads = FALSE]}

(* Policies of another tool: no types named, a named port, two rules, expressions. *)
Raw(ns, name, pods, types, ingress, egress) ==
  [ns |-> ns, name |-> name, pods |-> pods, types |-> types, ingress |-> ingress, egress |-> egress]
Peer(nss, pods) == [block |-> {}, nss |-> nss, pods |-> pods]

ForeignMC ==
  {Raw("b", "ext", Everything, {},
       {{[peers |-> {Peer({Having([team |-> "x"])}, {}), Peer({}, {Everything})}, ports |-> {HttpName}]}}, {}),
   Raw("a", "np", [labels |-> <<>>, exprs |-> {[key |-> "tier", op |-> "DoesNotExist", values |-> {}]}],
       {}, {}, {{[peers |-> {}, ports |-> {Tcp(80)}]}})}
=============================================================================
