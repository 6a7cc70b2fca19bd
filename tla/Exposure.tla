------------------------------ MODULE Exposure ------------------------------
(***************************************************************************)
(* Attack paths (lib/attackPaths.ts): chains that start where traffic from *)
(* outside lands, with what NetworkPolicies say of it, a foothold (critical *)
(* or high CVEs in the pods' images) and a payoff (what the mounted token   *)
(* or the node gives).  "in" holds the page's rows, stream by stream.      *)
(*                                                                         *)
(* A pod is [at, ns, name, labels, ip, ports, owner, account, automount,   *)
(* escapes, containers, ...]: its owner a set of at most one [kind, name,  *)
(* of], "of" what is left of a ReplicaSet's name without the pod template's *)
(* hash.  An ip of 0 is none, or no IPv4 address.                          *)
(***************************************************************************)
EXTENDS NetworkPolicies, Rbac

CONSTANT Controllers  \* INGRESS_CONTROLLERS, as label values

(* The controller of a pod; Trivy names its reports after it. *)
Owner(pod) ==
  IF pod.owner = {} THEN <<"Pod", pod.name>>
  ELSE LET o == CHOOSE o \in pod.owner : TRUE IN <<o.kind, o.name>>

WorkloadOf(pod) ==
  LET cut == UNION {o.of : o \in {o \in pod.owner : o.kind = "ReplicaSet"}}
  IN  IF cut # {} THEN <<"Deployment", CHOOSE n \in cut : TRUE>> ELSE Owner(pod)

-----------------------------------------------------------------------------
(* Entries *)

ServicesOf(pod, in) ==
  {s \in in.services : s.selector # <<>> /\ s.ns = pod.ns /\ Matches(pod.labels, Having(s.selector))}

Entry(via, name, gateway) == [via |-> via, name |-> name, gateway |-> gateway]
NoGateway == <<"", "">>

(* A parent that names no namespace is in the route's, and so is a backend. *)
In(ref, ns) == IF ref.ns = "" THEN ns ELSE ref.ns

EntriesFor(pod, in) ==
  LET names == {s.name : s \in ServicesOf(pod, in)}
  IN  {Entry(s.type, s.name, NoGateway) : s \in {s \in ServicesOf(pod, in) : s.type \in {"LoadBalancer", "NodePort"}}}
      \cup
      {Entry("Ingress", i.name, NoGateway) : i \in {i \in in.ingresses : i.ns = pod.ns /\ i.backends \cap names # {}}}
      \cup
      UNION {{Entry("Gateway", r.name, <<In(g, r.ns), g.name>>) : g \in {g \in r.parents : g.gateway}} :
               r \in {r \in in.httproutes :
                        \E b \in r.backends : b.service /\ In(b, r.ns) = pod.ns /\ b.name \in names}}

-----------------------------------------------------------------------------
(* What NetworkPolicies say of an entry.  Ports are not looked at. *)

SelectingPolicies(pod, policies) ==
  {p \in policies : /\ p.ns = pod.ns /\ Matches(pod.labels, p.pods)
                    /\ "Ingress" \in IF p.types = {} THEN {"Ingress"} ELSE p.types}

Label(pod, key) == IF key \in DOMAIN pod.labels THEN pod.labels[key] ELSE ""

ControllerPods(pods) ==
  {p \in pods : {Label(p, "app.kubernetes.io/name"), Label(p, "app")} \cap Controllers # {}}

GatewayPods(pods, gateway) ==
  {p \in pods :
     \/ Label(p, "gateway.networking.k8s.io/gateway-name") = gateway[2] /\ p.ns = gateway[1]
     \/ /\ Label(p, "gateway.envoyproxy.io/owning-gateway-name") = gateway[2]
        /\ Label(p, "gateway.envoyproxy.io/owning-gateway-namespace") = gateway[1]}

Sources(e, pods) == IF e.via = "Ingress" THEN ControllerPods(pods) ELSE GatewayPods(pods, e.gateway)

(* A namespace's own label is known without the namespaces' stream. *)
NsLabels(ns, in) ==
  LET own == UNION {{n.labels} : n \in {n \in in.namespaces : n.name = ns}}
  IN  IF own = {} THEN [k \in {NameKey} |-> ns]
      ELSE LET l == CHOOSE l \in own : TRUE
           IN  [k \in DOMAIN l \cup {NameKey} |-> IF k \in DOMAIN l THEN l[k] ELSE ns]

(* An address that is not known, or a block that does not parse, rules nothing out. *)
PeerAdmitsPod(peer, policyNs, src, in) ==
  IF peer.block # {}
    THEN \A b \in peer.block : /\ src.ip = 0 \/ b.cidr.size = 0 \/ InCidr(src.ip, b.cidr)
                               /\ \A x \in b.except : src.ip = 0 \/ ~InCidr(src.ip, x)
    ELSE /\ \A s \in peer.nss : Matches(NsLabels(src.ns, in), s)
         /\ peer.nss = {} => src.ns = policyNs
         /\ \A s \in peer.pods : Matches(src.labels, s)

Admission(policy, e, in) ==
  LET peers == UNION {r.peers : r \in UNION policy.ingress}
      from  == Sources(e, in.pods)
  IN  IF \E r \in UNION policy.ingress : r.peers = {} THEN "admits"
      ELSE IF e.via \in {"LoadBalancer", "NodePort"}
        THEN IF \E p \in peers : p.block # {} THEN "admits" ELSE "denies"
      ELSE IF from = {} THEN IF UNION policy.ingress = {} THEN "denies" ELSE "unknown"
      ELSE IF \E p \in peers, src \in from : PeerAdmitsPod(p, policy.ns, src, in) THEN "admits" ELSE "denies"

(* Worst first. *)
IsolationOrder == <<"open", "admits", "unknown", "restricted">>

Rank(isolation) == CHOOSE i \in DOMAIN IsolationOrder : IsolationOrder[i] = isolation

PodIsolation(pod, in) ==
  LET policies == SelectingPolicies(pod, in.networkpolicies)
      verdicts == {{Admission(p, e, in) : p \in policies} : e \in EntriesFor(pod, in)}
  IN  IF policies = {} THEN "open"
      ELSE IF \E v \in verdicts : "admits" \in v THEN "admits"
      ELSE IF \E v \in verdicts : "unknown" \in v THEN "unknown" ELSE "restricted"

-----------------------------------------------------------------------------
(* Foothold and payoff *)

(* vulnFindings.ts: by the labels Trivy writes on its reports. *)
FindingsForPod(pod, reports) ==
  UNION {{[container |-> r.container, id |-> v.id, severity |-> v.severity] : v \in r.vulns} :
           r \in {r \in reports : r.owner = Owner(pod) /\ r.ns = pod.ns /\ r.container \in pod.containers}}

(* What one workload's pods give together, under one ServiceAccount. *)
KeyOf(pod) == <<pod.ns, WorkloadOf(pod), pod.account>>

EntryWeight(e) == IF e.via = "NodePort" THEN 1 ELSE 2

Mounted(pods) == \E p \in pods : FALSE \notin p.automount

Privileges(account, pods, in) ==
  {[title |-> f.title, severity |-> f.severity] :
     f \in {f \in in.findings : /\ Mounted(pods) /\ f.title # "missing-account"
                                /\ f.subject.kind = "ServiceAccount"
                                /\ <<f.subject.ns, f.subject.name>> = account}}

(* Mutant: of a workload's pods, the least exposed one counts. *)
Worst_Best(isolations) == IsolationOrder[Max({Rank(i) : i \in isolations})]

Worst(isolations) == IsolationOrder[Min({Rank(i) : i \in isolations})]

Path(key, in) ==
  LET pods     == {p \in in.pods : KeyOf(p) = key /\ EntriesFor(p, in) # {}}
      account  == <<key[1], key[3]>>
      entries  == UNION {EntriesFor(p, in) : p \in pods}
      cves     == UNION {FindingsForPod(p, in.vulnreports) : p \in pods}
      critical == Cardinality({c \in cves : c.severity = "CRITICAL"})
      high     == Cardinality({c \in cves : c.severity = "HIGH"})
      privs    == Privileges(account, pods, in)
      escapes  == UNION {p.escapes : p \in pods}
      secrets  == UNION {SecretAccess(account, r) : r \in {r \in in.rbac : Mounted(pods)}}
      foothold == critical + high > 0
      payoff   == privs # {} \/ escapes # {} \/ secrets # {}
      severe   == escapes # {} \/ Everywhere \in secrets \/ \E p \in privs : p.severity = "high"
      worst    == Worst({PodIsolation(p, in) : p \in pods})
  IN  [key |-> key, entries |-> entries, isolation |-> worst,
       critical |-> critical, high |-> high, privileges |-> privs, escapes |-> escapes,
       secrets |-> secrets, listed |-> foothold \/ payoff, complete |-> foothold /\ payoff,
       score |-> Max({EntryWeight(e) : e \in entries})
                 + (IF worst = "restricted" THEN 0 ELSE 1)
                 + (IF critical > 0 THEN 3 ELSE IF high > 0 THEN 2 ELSE 0)
                 + (IF severe THEN 3 ELSE IF payoff THEN 1 ELSE 0)]

FindAttackPaths(in) ==
  LET keys == {KeyOf(p) : p \in {p \in in.pods : EntriesFor(p, in) # {}}}
  IN  {path \in {Path(k, in) : k \in keys} : path.listed}
=============================================================================
