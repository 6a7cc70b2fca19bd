----------------------------- MODULE MCRbacPage -----------------------------
EXTENDS RbacPage, TLC

AppKeysMC == <<"app", "app.kubernetes.io/name", "k8s-app">>
NameKeyMC == "kubernetes.io/metadata.name"
L(k, v) == k :> v

(* gw runs the ingress controller and the Gateway's proxy. *)
NamespacesMC == "a" :> L(NameKeyMC, "a") @@
                "b" :> (L(NameKeyMC, "b") @@ L("team", "b")) @@
                "gw" :> (L(NameKeyMC, "gw") @@ L("edge", "yes") @@ L("policy.sigstore.dev/include", "true"))
DnsMC == [ns |-> "kube-system", pods |-> Everything]

-----------------------------------------------------------------------------
(* Pods *)

Plain == [labels |-> <<>>, ports |-> {}, owner |-> {}, account |-> "default", automount |-> {},
          escapes |-> {}, containers |-> {"c"}, env |-> {}, refs |-> {}, node |-> {"n1"}]
Pod(i, ns, name) == [at |-> i, ns |-> ns, name |-> name, ip |-> 8 + i] @@ Plain
Rs(name) == {[kind |-> "ReplicaSet", name |-> name, of |-> {"web"}]}

Web1 == [Pod(1, "a", "web1") EXCEPT !.labels = L("app", "web"), !.owner = Rs("web-1"), !.account = "deployer",
                                    !.env = {"key"}]
Web2 == [Pod(2, "a", "web2") EXCEPT !.labels = L("app", "web") @@ L("canary", "yes"), !.owner = Rs("web-2"),
                                    !.account = "deployer", !.automount = {FALSE}, !.env = {"tls"}]
Db   == [Pod(3, "b", "db") EXCEPT !.labels = L("k8s-app", "db"), !.node = {"n2"}, !.refs = {"disk"}]
Ctl  == [Pod(4, "gw", "ctl") EXCEPT !.labels = L("app.kubernetes.io/name", "ingress-nginx")]
Ctl2 == [Pod(5, "b", "ctl2") EXCEPT !.labels = L("app", "traefik"), !.ip = 0]
Gw   == [Pod(6, "gw", "proxy") EXCEPT !.labels = L("gateway.networking.k8s.io/gateway-name", "edge"),
                                      !.escapes = {"privileged c"}]

-----------------------------------------------------------------------------
(* NetworkPolicies *)

Sel(k, v) == Having(L(k, v))
From(nss, pods) == [block |-> {}, nss |-> nss, pods |-> pods]
FromBlock(base, size) == [block |-> {[cidr |-> [base |-> base, size |-> size], except |-> {}]}, nss |-> {}, pods |-> {}]
Np(name, pods, peers) ==
  [ns |-> "a", name |-> name, pods |-> pods, types |-> {"Ingress"}, egress |-> {},
   ingress |-> {{[peers |-> {p}, ports |-> {}] : p \in peers}}]

Edge    == Np("edge", Sel("app", "web"), {From({Sel("edge", "yes")}, {})})
OnlyDb  == Np("only-db", Sel("app", "web"), {From({Sel(NameKeyMC, "b")}, {Sel("k8s-app", "db")})})
Canary  == Np("canary", Sel("canary", "yes"), {From({}, {Everything})})
Low     == Np("low", Sel("app", "web"), {FromBlock(8, 4)})
High    == Np("high", Sel("app", "web"), {FromBlock(16, 4)})

-----------------------------------------------------------------------------
(* Roles *)

Rule(verbs, groups, resources, names) ==
  [verbs |-> verbs, groups |-> groups, resources |-> resources, names |-> names]
Account(ns, name) == [kind |-> "ServiceAccount", ns |-> ns, name |-> name]
GroupOf(name) == [kind |-> "Group", ns |-> "", name |-> name]
Role(ns, name, rules) == [ns |-> ns, name |-> name, rules |-> rules]
Bind(ns, kind, role, subjects) == [ns |-> ns, name |-> role, ref |-> [kind |-> kind, name |-> role], subjects |-> subjects]

Reader == Role("", "reader", {Rule({"get", "list"}, {""}, {"secrets"}, {})})
Admin  == Role("", "cluster-admin", {Rule({"*"}, {"*"}, {"*"}, {})})
Team   == Role("", "team", {Rule({"list"}, {""}, {"nodes"}, {})})
Colon  == Role("", "team:reader", {Rule({"list"}, {""}, {"secrets"}, {})})
CutMC  == "team:reader" :> "team"
Lister == Role("a", "lister", {Rule({"list"}, {""}, {"secrets"}, {}), Rule({"create"}, {""}, {"pods"}, {})})
OneKey == Role("b", "one", {Rule({"get"}, {""}, {"secrets"}, {"key"})})

Rbac0(bindings, clusterBindings) ==
  [roles |-> {Lister, OneKey}, clusterRoles |-> {Reader, Admin, Team, Colon}, bindings |-> bindings,
   clusterBindings |-> clusterBindings]
Roles1 == Rbac0({Bind("a", "Role", "lister", {Account("a", "deployer")})},
                {Bind("", "ClusterRole", "cluster-admin", {Account("gw", "gone")})})
Roles2 == Rbac0({Bind("b", "Role", "one", {GroupOf("system:serviceaccounts:a")}),
                 Bind("a", "ClusterRole", "reader", {Account("b", "default")})},
                {Bind("", "ClusterRole", "team:reader", {GroupOf("ops")})})
Roles3 == Rbac0({}, {Bind("", "ClusterRole", "reader", {Account("a", "deployer"), GroupOf("devs")})})

-----------------------------------------------------------------------------
(* The rest *)

Sa(ns, name, automount) == [ns |-> ns, name |-> name, automount |-> automount, secrets |-> {}, owned |-> FALSE]
Workload(ns, name, replicas, template, account) ==
  [ns |-> ns, name |-> name, replicas |-> replicas, template |-> template, spread |-> FALSE,
   account |-> account, env |-> {}, refs |-> {}]
Svc(type) == [ns |-> "a", name |-> "web", type |-> type, selector |-> L("app", "web")]
Secret(ns, name) == [ns |-> ns, name |-> name, managed |-> FALSE]
Filter(names) == [resources |-> TRUE, pods |-> TRUE, names |-> names, nss |-> {}]
NoBlock == [any |-> {}, all |-> {}, own |-> {}]
Kyverno(names, action) ==
  [ns |-> "", action |-> action,
   rules |-> {[actions |-> {""}, match |-> [NoBlock EXCEPT !.any = {Filter(names)}], exclude |-> NoBlock]}]

Usual == [
  pods |-> {Web1, Web2, Db, Ctl}, namespaces |-> {[name |-> n, labels |-> NamespacesMC[n]] : n \in {"a", "b", "gw"}},
  serviceaccounts |-> {Sa("a", "deployer", {}), Sa("a", "idle", {}), Sa("b", "default", {}), Sa("gw", "default", {FALSE})},
  deployments |-> {Workload("a", "web", 2, L("app", "web"), "deployer")},
  statefulsets |-> {Workload("b", "db", 1, L("k8s-app", "db"), "default")},
  cronjobs |-> {}, daemonsets |-> {Workload("b", "agent", 1, L("app", "agent"), "agent")},
  services |-> {Svc("ClusterIP")}, ingresses |-> {[ns |-> "a", name |-> "web", backends |-> {"web"}, tls |-> {"tls"}]},
  networkpolicies |-> {}, webhooks |-> {},
  clusterpolicies |-> {Kyverno({"b"}, "enforce")}, policies |-> {},
  imagepolicies |-> {[mode |-> "enforce"]},
  constraints |-> {[action |-> "dryrun", pods |-> TRUE, included |-> {"a"}, excluded |-> {}, nss |-> {}]},
  httproutes |-> {}, vulnreports |-> {[owner |-> <<"ReplicaSet", "web-1">>, ns |-> "a", container |-> "c",
                                       vulns |-> {[id |-> "v1", severity |-> "CRITICAL"]}]},
  secrets |-> {Secret("a", "key"), Secret("a", "tls"), Secret("b", "old")},
  poddisruptionbudgets |-> {[ns |-> "b", sel |-> Sel("k8s-app", "db")]},
  endpointslices |-> {[ns |-> "a", service |-> "web", name |-> "web-x",
                       endpoints |-> {[pod |-> 1, addresses |-> 1, ready |-> TRUE], [pod |-> 2, addresses |-> 1, ready |-> FALSE]}]},
  rbac |-> Roles1, crds |-> OfCrds, minor |-> 24, served |-> {"policy/v1beta1"}]

Routed == [Usual EXCEPT
  !.pods = @ \cup {Gw}, !.ingresses = {}, !.networkpolicies = {Edge}, !.rbac = Roles3,
  !.httproutes = {[ns |-> "gw", name |-> "web", parents |-> {[ns |-> "", name |-> "edge", gateway |-> TRUE]},
                   backends |-> {[ns |-> "a", name |-> "web", service |-> TRUE]}]}]

HoldsMC == {
  Usual,
  [Usual EXCEPT !.networkpolicies = {OnlyDb}, !.rbac = Roles2],
  [Usual EXCEPT !.networkpolicies = {Canary, Low}, !.services = {Svc("NodePort")}, !.rbac = Roles2],
  [Usual EXCEPT !.networkpolicies = {Canary}],
  [Usual EXCEPT !.networkpolicies = {High}, !.rbac = Roles3, !.crds = {"vulnreports"},
               !.clusterpolicies = {}, !.imagepolicies = {}, !.constraints = {},
               !.webhooks = {[connaisseur |-> TRUE, hooks |-> {{}}]}],
  [Usual EXCEPT !.networkpolicies = {Edge}, !.pods = @ \cup {Ctl2}],
  Routed,
  [Routed EXCEPT !.networkpolicies = {OnlyDb}]}

(* B is one of two. *)
WorldsMC == {w \in [Clusters -> HoldsMC] : w["B"] \in {Usual, Routed}}

Q(resource, scoped, ns) == [verb |-> "list", group |-> "", resource |-> resource, scoped |-> scoped, ns |-> ns]
AskedMC == {Q("secrets", TRUE, {}), Q("secrets", TRUE, {"b"}), Q("nodes", FALSE, {})}

DeprecatedMC == {[api |-> "policy/v1beta1", removed |-> 25], [api |-> "discovery.k8s.io/v1beta1", removed |-> 25]}

(* One late source, or one that others wait for and one more. *)
SlowMC == {{s} : s \in Streams} \cup {{"crds", s} : s \in {"pods", "rbac"}} \cup {{"namespaces", "networkpolicies"}}
=============================================================================
