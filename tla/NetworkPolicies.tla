-------------------------- MODULE NetworkPolicies --------------------------
(***************************************************************************)
(* What the shell works out about NetworkPolicies: whether a pod reaches   *)
(* another (lib/netpolEval.ts), the connectivity matrix (lib/netpolMatrix), *)
(* the policy a form draft stands for and the preview of what applying it  *)
(* would change (lib/netpolBuilder.ts), and the pod groups no policy       *)
(* selects (lib/networkPolicyCoverage.ts).  Nothing here has state.        *)
(*                                                                         *)
(* A selector is [labels, exprs], a field that may be absent is a set of   *)
(* at most one value, lists whose order is never used are sets, and text   *)
(* of a draft is either read as what it should be or not at all.           *)
(***************************************************************************)
EXTENDS Naturals, FiniteSetsExt, LabelSelectors

CONSTANTS
  Namespaces,  \* namespace |-> its labels
  NameKey,     \* the label every namespace has: kubernetes.io/metadata.name
  AppKeys,     \* app labels, first choice first: app, app.kubernetes.io/name, k8s-app
  Dns,         \* the namespace of kube-dns, and the selector of its pods
  MaxPairs     \* connections a preview compares (20000)

ASSUME MaxPairsIsPos == MaxPairs \in Nat \ {0}

Directions  == {"Ingress", "Egress"}

(* A block no address is in stands for one that does not parse. *)
InCidr(ip, c) == c.size > 0 /\ ip \div c.size = c.base \div c.size

PolicyTypes(p) ==
  IF p.types # {} THEN p.types
  ELSE IF p.egress # {} THEN Directions ELSE {"Ingress"}

(* The rules of a direction; an absent list is an empty one. *)
Rules(p, dir) == UNION (IF dir = "Ingress" THEN p.ingress ELSE p.egress)

LabelsOfNs(ns) ==
  LET own == IF ns \in DOMAIN Namespaces THEN Namespaces[ns] ELSE <<>>
  IN  [k \in DOMAIN own \cup {NameKey} |-> IF k = NameKey THEN ns ELSE own[k]]

-----------------------------------------------------------------------------
(* evaluateConnection.  "ask" is the port asked about, or {} for any. *)

Selecting(dir, self, policies) ==
  {p \in policies : /\ p.ns = self.ns /\ dir \in PolicyTypes(p)
                    /\ Matches(self.labels, p.pods)}

PeerMatches(peer, policyNs, pod) ==
  IF peer.block # {}
    THEN \A b \in peer.block : /\ pod.ip # 0 /\ InCidr(pod.ip, b.cidr)
                               /\ \A x \in b.except : ~InCidr(pod.ip, x)
    ELSE /\ \A s \in peer.nss : Matches(LabelsOfNs(pod.ns), s)
         /\ peer.nss = {} => pod.ns = policyNs
         /\ \A s \in peer.pods : Matches(pod.labels, s)

(* Where a rule's port starts: a named one where the destination's port is. *)
Start(port, dst) ==
  IF port.name = {} THEN {port.first}
  ELSE {q.port : q \in {r \in dst.ports : r.name \in port.name /\ r.protocol = port.protocol}}

PortMatches(port, dst, ask) ==
  \A q \in ask :
    /\ port.protocol = q.protocol
    /\ \/ port.any
       \/ \E first \in Start(port, dst) :
            q.port \in first .. (IF port.last = 0 THEN first ELSE port.last)

Admits(rule, policyNs, peer, dst, ask) ==
  /\ rule.peers = {} \/ \E e \in rule.peers : PeerMatches(e, policyNs, peer)
  /\ rule.ports = {} \/ \E q \in rule.ports : PortMatches(q, dst, ask)

Admitting(dir, p, peer, dst, ask) ==
  {rule \in Rules(p, dir) : Admits(rule, p.ns, peer, dst, ask)}

(* One side of a connection. *)
Side(dir, src, dst, ask, policies) ==
  LET self      == IF dir = "Ingress" THEN dst ELSE src
      peer      == IF dir = "Ingress" THEN src ELSE dst
      selecting == Selecting(dir, self, policies)
      allowing  == {p \in selecting : Admitting(dir, p, peer, dst, ask) # {}}
      admitted  == UNION {Admitting(dir, p, peer, dst, ask) : p \in allowing}
      isolated  == selecting # {}
  IN  [isolated |-> isolated, allowed |-> ~isolated \/ allowing # {},
       selecting |-> selecting, allowing |-> allowing,
       ports |-> IF ask = {} /\ isolated /\ \A r \in admitted : r.ports # {}
                   THEN UNION {r.ports : r \in admitted} ELSE {}]

EvaluateConnection(src, dst, ask, policies) ==
  LET egress  == Side("Egress", src, dst, ask, policies)
      ingress == Side("Ingress", src, dst, ask, policies)
  IN  [allowed |-> egress.allowed /\ ingress.allowed, Egress |-> egress, Ingress |-> ingress]

Allowed(src, dst, ask, policies) == EvaluateConnection(src, dst, ask, policies).allowed

(* Mutant: a cell is blocked only where both sides block. *)
MatrixCell_BothBlock(src, dst, policies) ==
  LET v == EvaluateConnection(src, dst, {}, policies) IN
  [status |-> IF ~v.Egress.isolated /\ ~v.Ingress.isolated THEN "open"
              ELSE IF v.Egress.allowed \/ v.Ingress.allowed THEN "allowed" ELSE "blocked",
   ports |-> v.Egress.ports \cup v.Ingress.ports]

MatrixCell(src, dst, policies) ==
  LET v == EvaluateConnection(src, dst, {}, policies) IN
  [status |-> IF ~v.Egress.isolated /\ ~v.Ingress.isolated THEN "open"
              ELSE IF v.allowed THEN "allowed" ELSE "blocked",
   ports |-> IF v.allowed THEN v.Egress.ports \cup v.Ingress.ports ELSE {}]

-----------------------------------------------------------------------------
(* The builder: a draft's policy.  A direction that is not restricted is {}. *)

PeerEntry(peer, policyNs) ==
  [block |-> IF peer.kind = "cidr" THEN {[cidr |-> peer.cidr, except |-> {}]} ELSE {},
   nss   |-> IF peer.kind = "namespace" \/ (peer.kind = "pods" /\ ~(peer.ns \subseteq {policyNs}))
               THEN {Having([k \in {NameKey} |-> n]) : n \in peer.ns} ELSE {},
   pods  |-> IF peer.kind = "pods" THEN {Having(peer.labels)} ELSE {}]

BuildRules(rules, policyNs) ==
  {[peers |-> {PeerEntry(r.peer, policyNs)}, ports |-> r.ports] : r \in rules}

DnsRule(d) ==
  IF ~d.allowDns THEN {}
  ELSE {[peers |-> {[block |-> {}, nss |-> {Having([k \in {NameKey} |-> Dns.ns])},
                     pods |-> {Dns.pods}]},
         ports |-> {[protocol |-> t, name |-> {}, any |-> FALSE, first |-> 53, last |-> 0]
                      : t \in {"UDP", "TCP"}}]}

DraftOk(d) == d.reads /\ d.ns \in DOMAIN Namespaces /\ (d.ingress # {} \/ d.egress # {})

DraftToPolicy(d) ==
  [ns |-> d.ns, name |-> d.name, pods |-> Having(d.podLabels),
   types |-> {t \in Directions : IF t = "Ingress" THEN d.ingress # {} ELSE d.egress # {}},
   ingress |-> {BuildRules(rs, d.ns) : rs \in d.ingress},
   egress  |-> {BuildRules(rs, d.ns) \cup DnsRule(d) : rs \in d.egress}]

-----------------------------------------------------------------------------
(* The preview.  Applying a policy replaces the one of its name. *)

Named(policy, policies) == {p \in policies : p.ns = policy.ns /\ p.name = policy.name}

After(policy, policies) == (policies \ Named(policy, policies)) \cup {policy}

Selects(policy, dir, pod) ==
  /\ dir \in PolicyTypes(policy) /\ pod.ns = policy.ns
  /\ Matches(pod.labels, policy.pods)

Newly(policy, pods, policies) ==
  {side \in pods \X Directions :
     Selects(policy, side[2], side[1]) /\ Selecting(side[2], side[1], policies) = {}}

(* The sides a policy makes the preview compare a pair for. *)
Touched(policy, pair) ==
  {dir \in Directions : Selects(policy, dir, IF dir = "Ingress" THEN pair[2] ELSE pair[1])}

(* Mutant: what the replaced policy let through is not looked at. *)
Looked_NotReplaced(policy, policies) == {policy}

Looked(policy, policies) == {policy} \cup Named(policy, policies)

Pairs(policy, pods, policies) ==
  {pair \in pods \X pods : /\ pair[1] # pair[2]
                           /\ \E p \in Looked(policy, policies) : Touched(p, pair) # {}}

(* A pair is compared once, for the side it came up for first: the new policy's
   before the replaced one's, and of two pods it selects the one listed first. *)
FirstSide(policy, policies, pair) ==
  LET by    == IF Touched(policy, pair) # {} THEN {policy} ELSE Named(policy, policies)
      sides == UNION {Touched(p, pair) : p \in by}
  IN  IF sides # Directions THEN CHOOSE d \in sides : TRUE
      ELSE IF pair[2].at < pair[1].at THEN "Ingress" ELSE "Egress"

PolicyImpact(policy, pods, policies) ==
  LET pairs     == Pairs(policy, pods, policies)
      truncated == Cardinality(pairs) > MaxPairs
      compared  == IF truncated THEN CHOOSE s \in kSubset(MaxPairs, pairs) : TRUE ELSE pairs
      was(pair) == EvaluateConnection(pair[1], pair[2], {}, policies)
      now(pair) == EvaluateConnection(pair[1], pair[2], {}, After(policy, policies))
  IN  [isolated  |-> Newly(policy, pods, policies),
       blocked   |-> {q \in compared : was(q).allowed /\ ~now(q).allowed},
       allowed   |-> {q \in compared : ~was(q).allowed /\ now(q).allowed},
       narrowed  |-> {q \in compared :
                        LET side == FirstSide(policy, policies, q) IN
                        /\ was(q).allowed /\ now(q).allowed /\ now(q)[side].ports # {}
                        /\ now(q)[side].ports # was(q)[side].ports},
       truncated |-> truncated]

-----------------------------------------------------------------------------
(* Coverage: pods grouped by namespace and app label, one finding for a group
   whose labels, all its pods' put together, no policy of the namespace selects. *)

AppLabel(labels) ==
  LET has == {i \in DOMAIN AppKeys : AppKeys[i] \in DOMAIN labels}
  IN  IF has = {} THEN {} ELSE {labels[AppKeys[Min(has)]]}

Group(pod, pods) ==
  {q \in pods : q.ns = pod.ns /\ AppLabel(q.labels) = AppLabel(pod.labels)}

GroupLabels(group) ==
  [k \in UNION {DOMAIN q.labels : q \in group} |->
     LET with == {q \in group : k \in DOMAIN q.labels}
     IN  (CHOOSE q \in with : \A r \in with : r.at <= q.at).labels[k]]

Uncovered(group, policies) ==
  \A p \in policies : p.ns \in {q.ns : q \in group} => ~Matches(GroupLabels(group), p.pods)

CoverageGaps(pods, policies) ==
  {g \in {Group(q, pods) : q \in pods} : Uncovered(g, policies)}
=============================================================================
