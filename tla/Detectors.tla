----------------------------- MODULE Detectors -----------------------------
(***************************************************************************)
(* The RBAC page's other detectors, each over the rows of some streams:    *)
(* single points of failure (lib/spof.ts), default ServiceAccount tokens   *)
(* (serviceAccountAutomount.ts), Secrets in the environment                *)
(* (secretExposure.ts), who enforces image signatures (imageSignature.ts), *)
(* ServiceAccounts nothing runs as (unusedServiceAccounts.ts), Secrets     *)
(* nothing refers to (orphanedSecrets.ts) and APIs about to go             *)
(* (upgradeReadiness.ts).                                                  *)
(*                                                                         *)
(* A workload is [ns, name, replicas, template, spread, account, env,      *)
(* refs]: env the Secrets its containers' environment reads, refs those it *)
(* refers to in any other way.  A pod has the last three too.              *)
(***************************************************************************)
EXTENDS NetworkPolicies

CONSTANTS
  SystemNamespaces,   \* kube-*, and those of the engines that verify signatures
  OptIn,              \* policy.sigstore.dev/include
  Deprecated,         \* APIs with the minor release that removes them
  HorizonMinors       \* how many releases ahead a removal is told

ASSUME HorizonIsNat == HorizonMinors \in Nat

-----------------------------------------------------------------------------
(* spof.ts *)

SpofWorkloads(in) ==
  {<<"Deployment", w>> : w \in in.deployments} \cup {<<"StatefulSet", w>> : w \in in.statefulsets}

Spof(kind, wkind, o) == [kind |-> kind, of |-> wkind, ns |-> o.ns, name |-> o.name]

Covered(w, pdbs) == \E b \in pdbs : b.ns = w.ns /\ Matches(w.template, b.sel)

OwnPods(w, pods) == {p \in pods : p.ns = w.ns /\ Matches(p.labels, Having(w.template))}

Clustered(w, pods) ==
  /\ w.replicas > 1 /\ ~w.spread /\ Cardinality(OwnPods(w, pods)) >= 2
  /\ Cardinality(UNION {p.node : p \in OwnPods(w, pods)}) <= 1

(* Endpoints that do not say they are not ready; one without addresses counts. *)
ReadyBackends(s, slices) ==
  LET own == {x \in slices : x.ns = s.ns /\ x.service = s.name}
      up  == UNION {{<<x.name, e>> : e \in {e \in x.endpoints : e.ready}} : x \in own}
  IN  MapThenSumSet(LAMBDA u : Max({u[2].addresses, 1}), up)

SpofFindings(in) ==
  {Spof("no-pdb", w[1], w[2]) :
     w \in {w \in SpofWorkloads(in) : w[2].replicas <= 1 /\ ~Covered(w[2], in.poddisruptionbudgets)}}
  \cup
  {Spof("no-spread", w[1], w[2]) : w \in {w \in SpofWorkloads(in) : Clustered(w[2], in.pods)}}
  \cup
  {Spof("single-backend", "Service", s) :
     s \in {s \in in.services : ReadyBackends(s, in.endpointslices) = 1}}

-----------------------------------------------------------------------------
(* Pods by namespace and app label *)

AppName(group) ==
  LET app == UNION {AppLabel(q.labels) : q \in group}
  IN  IF app = {} THEN "(unlabelled)" ELSE CHOOSE a \in app : TRUE

Groups(pods) == {{q \in pods : <<q.ns, AppName({q})>> = <<p.ns, AppName({p})>>} : p \in pods}

(* Groups are found by namespace and app. *)
OfGroup(group, secrets) ==
  [ns |-> (CHOOSE q \in group : TRUE).ns, app |-> AppName(group), pods |-> Cardinality(group),
   secrets |-> secrets]

(* The pod says, else its ServiceAccount, else it is mounted. *)
MountsDefault(pod, accounts) ==
  LET said == UNION {a.automount : a \in {a \in accounts : a.ns = pod.ns /\ a.name = "default"}}
  IN  /\ pod.account = "default"
      /\ IF pod.automount # {} THEN TRUE \in pod.automount ELSE FALSE \notin said

AutomountFindings(in) ==
  {OfGroup(g, {}) :
     g \in Groups({p \in in.pods : MountsDefault(p, in.serviceaccounts)})}

EnvOf(group) == UNION {p.env : p \in group}

SecretEnvFindings(in) ==
  {OfGroup(g, EnvOf(g)) :
     g \in Groups({p \in in.pods : p.env # {}})}

-----------------------------------------------------------------------------
(* imageSignature.ts: the strongest mode that covers a namespace.  Globs are
   the set of the namespaces they match, an absent list is {}. *)

FilterMatches(f, ns) ==
  f.resources => /\ f.pods
                 /\ f.names = {} \/ ns.name \in f.names
                 /\ \A s \in f.nss : Matches(ns.labels, s)

(* Only what names resources counts in an exclude. *)
BlockMatches(block, ns, empty, onlyResources) ==
  LET usable(fs) == {f \in fs : onlyResources => f.resources}
  IN  IF usable(block.any) # {} THEN \E f \in usable(block.any) : FilterMatches(f, ns)
      ELSE IF usable(block.all) # {} THEN \A f \in usable(block.all) : FilterMatches(f, ns)
      ELSE IF block.own # {} THEN \A f \in block.own : FilterMatches(f, ns)
      ELSE empty

RuleMode(rule, p) ==
  IF \E a \in rule.actions : (IF a = "" THEN p.action ELSE a) = "enforce" THEN "enforce" ELSE "audit"

KyvernoModes(p, ns) ==
  {RuleMode(r, p) : r \in {r \in p.rules :
     /\ r.actions # {} /\ p.ns \in {"", ns.name}
     /\ BlockMatches(r.match, ns, TRUE, FALSE)
     /\ ~BlockMatches(r.exclude, ns, FALSE, TRUE)}}

RatifyModes(c, ns) ==
  IF /\ c.pods
     /\ c.included = {} \/ ns.name \in c.included
     /\ ns.name \notin c.excluded /\ \A s \in c.nss : Matches(ns.labels, s)
    THEN {IF c.action \in {"", "deny"} THEN "enforce" ELSE "audit"} ELSE {}

SigstoreModes(p, ns) ==
  IF OptIn \in DOMAIN ns.labels /\ ns.labels[OptIn] = "true"
    THEN {IF p.mode = "warn" THEN "audit" ELSE "enforce"} ELSE {}

ConnaisseurModes(hook, ns) ==
  IF hook.connaisseur /\ \E h \in hook.hooks : \A s \in h : Matches(ns.labels, s)
    THEN {"enforce"} ELSE {}

ModesOf(ns, in) ==
  UNION {KyvernoModes(p, ns) : p \in in.clusterpolicies \cup in.policies}
  \cup UNION {SigstoreModes(p, ns) : p \in in.imagepolicies}
  \cup UNION {RatifyModes(c, ns) : c \in in.constraints}
  \cup UNION {ConnaisseurModes(h, ns) : h \in in.webhooks}

Unenforced(in) ==
  {n.name : n \in {n \in in.namespaces :
     n.name \notin SystemNamespaces /\ "enforce" \notin ModesOf(n, in)}}

-----------------------------------------------------------------------------
(* Lists to review *)

Templates(in) == in.deployments \cup in.statefulsets \cup in.cronjobs

RunsAs(in) ==
  {<<p.ns, p.account>> : p \in in.pods}
  \cup {<<w.ns, w.account>> : w \in Templates(in) \cup in.daemonsets}

UnusedAccounts(in) ==
  {<<a.ns, a.name>> : a \in {a \in in.serviceaccounts :
     a.name # "default" /\ a.ns \notin {"kube-system", "kube-public", "kube-node-lease"} /\ ~a.owned}}
  \ RunsAs(in)

Referred(in) ==
  UNION {{<<p.ns, n>> : n \in p.env \cup p.refs} : p \in in.pods}
  \cup UNION {{<<w.ns, n>> : n \in w.env \cup w.refs} : w \in Templates(in)}
  \cup UNION {{<<a.ns, n>> : n \in a.secrets} : a \in in.serviceaccounts}
  \cup UNION {{<<i.ns, n>> : n \in i.tls} : i \in in.ingresses}

OrphanedSecrets(in) ==
  {<<s.ns, s.name>> : s \in {s \in in.secrets : ~s.managed}} \ Referred(in)

-----------------------------------------------------------------------------
(* upgradeReadiness.ts *)

UpgradeFindings(minor, served) ==
  {[api |-> d.api, away |-> d.removed - minor] :
     d \in {d \in Deprecated : d.api \in served /\ d.removed - minor <= HorizonMinors}}
=============================================================================
