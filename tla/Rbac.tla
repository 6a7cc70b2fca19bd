-------------------------------- MODULE Rbac --------------------------------
(***************************************************************************)
(* Three readings of the same roles and bindings: the engine's advisor     *)
(* (httpapi/rbacadvisor.go), the page's "Who can" query (pages/Rbac.tsx)   *)
(* and the Secrets a token can read (lib/attackPaths.ts).  No state.       *)
(*                                                                         *)
(* An rbac snapshot is [roles, clusterRoles, bindings, clusterBindings]:   *)
(* roles are [ns, name, rules], rules [verbs, groups, resources, names],   *)
(* bindings [ns, name, ref, subjects] with ref = [kind, name].  A subject  *)
(* is [kind, ns, name], its name the parts between the colons.             *)
(***************************************************************************)
EXTENDS Naturals, Sequences

CONSTANT Cut   \* of a role's name with a colon in it, what precedes the first

ReadVerbs == {"get", "list", "watch"}

(* The rules of a binding's role: a Role of the binding's own namespace. *)
RulesOf(rbac, b) ==
  UNION {r.rules : r \in IF b.ref.kind = "ClusterRole"
                           THEN {r \in rbac.clusterRoles : r.name = b.ref.name}
                           ELSE {r \in rbac.roles : r.name = b.ref.name /\ r.ns = b.ns}}

(* The page has kind and name in one string and splits it at every colon. *)
RefName(name) == IF name \in DOMAIN Cut THEN Cut[name] ELSE name
PageRulesOf(rbac, b) == RulesOf(rbac, [b EXCEPT !.ref.name = RefName(@)])

-----------------------------------------------------------------------------
(* The engine's advisor *)

Risk(severity, title, hint) == [severity |-> severity, title |-> title, hint |-> hint]
NoHint == <<>>

RisksOf(rule, clusterRole, admin) ==
  LET anyVerb  == "*" \in rule.verbs
      anyRes   == "*" \in rule.resources
      anyGroup == "*" \in rule.groups
      wide     == clusterRole /\ rule.names = {}
  IN  IF anyVerb /\ anyRes /\ anyGroup
        THEN {Risk("high", IF clusterRole /\ admin THEN "cluster-admin-binding"
                           ELSE "cluster-admin-equivalent", NoHint)}
      ELSE {r \in {Risk("high", "wildcard-verb", NoHint)} : anyVerb}
      \cup {r \in {Risk("high", "wildcard-resource", NoHint)} : anyRes}
      \cup {r \in {Risk("medium", "wildcard-group", NoHint)} : anyGroup}
      \cup {r \in {Risk("high", "escalation-verb", NoHint)} :
              rule.verbs \cap {"escalate", "bind", "impersonate"} # {}}
      \cup {r \in {Risk("high", "cluster-secret-read", <<"get", "", "secrets">>)} :
              /\ wide /\ ~anyVerb /\ rule.verbs \cap ReadVerbs # {}
              /\ "secrets" \in rule.resources \/ anyRes}
      \cup {r \in {Risk("high", "cluster-pod-exec", <<"create", "", "pods/exec">>)} :
              /\ wide /\ ("create" \in rule.verbs \/ anyVerb)
              /\ "pods/exec" \in rule.resources \/ anyRes}

Missing(s, accounts) == s.kind = "ServiceAccount" /\ <<s.ns, s.name>> \notin accounts

(* A role's risks become findings of every subject of a binding to it, whatever
   the namespace of the binding. *)
Analyze(rbac, accounts) ==
  UNION {
    {[subject |-> s, ref |-> b.ref, severity |-> r.severity, title |-> r.title, hint |-> r.hint] :
       s \in b.subjects,
       r \in UNION {RisksOf(rule, b.ref.kind = "ClusterRole", b.ref.name = "cluster-admin")
                      : rule \in RulesOf(rbac, b)}}
    \cup
    {[subject |-> s, ref |-> b.ref, severity |-> "medium", title |-> "missing-account", hint |-> NoHint] :
       s \in {x \in b.subjects : Missing(x, accounts)}}
    : b \in rbac.bindings \cup rbac.clusterBindings}

-----------------------------------------------------------------------------
(* "Who can" *)

(* The part before a slash: pods for pods/exec. *)
BaseOf(resource) == IF resource = "pods/exec" THEN "pods" ELSE resource

RuleAllows(rule, verb, group, resource) ==
  /\ {"*", verb} \cap rule.verbs # {}
  /\ {"*", group} \cap rule.groups # {}
  /\ rule.resources = {} \/ {"*", resource, BaseOf(resource)} \cap rule.resources # {}

(* Cluster-scoped kinds are granted by cluster bindings only, namespaced ones by a
   binding of the namespace asked about, or of any when none is. *)
Considered(rbac, scoped, ns) ==
  rbac.clusterBindings \cup {b \in rbac.bindings : scoped /\ ns \subseteq {b.ns}}

(* q = [verb, group, resource, scoped, ns], ns a set of at most one. *)
WhoCan(rbac, q) ==
  UNION {b.subjects : b \in {c \in Considered(rbac, q.scoped, q.ns) :
    \E rule \in PageRulesOf(rbac, c) : RuleAllows(rule, q.verb, q.group, q.resource)}}

(* What "who else can do this" asks for a finding that carries a hint. *)
FindingQuery(f) ==
  [verb |-> f.hint[1], group |-> f.hint[2], resource |-> f.hint[3], scoped |-> TRUE, ns |-> {}]

-----------------------------------------------------------------------------
(* The Secrets a ServiceAccount's token can read *)

IsMe(s, account, bindingNs) ==
  \/ /\ s.kind = "ServiceAccount" /\ s.name = account[2]
     /\ (IF s.ns = "" THEN bindingNs ELSE s.ns) = account[1]
  \/ s.kind = "User" /\ s.name = "system:serviceaccount:" \o account[1] \o ":" \o account[2]
  \/ s.kind = "Group" /\ s.name \in {"system:serviceaccounts", "system:authenticated",
                                      "system:serviceaccounts:" \o account[1]}

ReadsSecrets(rule) ==
  /\ rule.verbs \cap (ReadVerbs \cup {"*"}) # {}
  /\ rule.groups \cap {"", "*"} # {} /\ rule.resources \cap {"secrets", "*"} # {}

Everywhere == [ns |-> {}, name |-> {}]

(* Every namespace, a whole one, or one Secret of one. *)
SecretAccess(account, rbac) ==
  LET mine(bs) == {b \in bs : \E s \in b.subjects : IsMe(s, account, b.ns)}
      reads(b) == {rule \in PageRulesOf(rbac, b) : ReadsSecrets(rule)}
  IN  IF \E b \in mine(rbac.clusterBindings) : reads(b) # {} THEN {Everywhere}
      ELSE UNION {UNION {IF rule.names = {} THEN {[ns |-> {b.ns}, name |-> {}]}
                         ELSE {[ns |-> {b.ns}, name |-> {n}] : n \in rule.names}
                           : rule \in reads(b)}
                    : b \in mine(rbac.bindings)}
=============================================================================
