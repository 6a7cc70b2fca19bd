------------------------------ MODULE RbacPage ------------------------------
(***************************************************************************)
(* The RBAC page (pages/Rbac.tsx) and the report it saves                  *)
(* (components/FindingsExport.tsx over lib/findingsReport.ts).  Some twenty *)
(* streams and three queries arrive in any order; every detector works on  *)
(* what has arrived; a report may be saved once those it waits for have.   *)
(* The user turns to other clusters, whose answered queries are kept.      *)
(*                                                                         *)
(* The clusters do not change.  A stream's rows appear all at once, when   *)
(* it has synced (WatchStream).                                            *)
(***************************************************************************)
EXTENDS Exposure, Detectors

CONSTANTS
  Clusters,
  Worlds,        \* what the clusters may hold: cluster |-> stream |-> objects, and rbac, crds,
                 \*   minor, served
  SystemRoles,   \* roles whose names start with system:
  Asked,         \* the "Who can" queries the user makes
  SlowSets,      \* sources that arrive one by one; the others arrive together
  MaxActs        \* bound of the model: what the user does

ASSUME MaxActsIsNat == MaxActs \in Nat

(* What the API server sees to: there is a namespace for each pod, which carries its
   own name, cluster bindings have none, and a rule that is about no resource is about
   no API group. *)
IsCluster(w) ==
  /\ IsFiniteSet(w.pods) /\ IsFiniteSet(w.vulnreports) /\ \A r \in w.vulnreports : IsFiniteSet(r.vulns)
  /\ \A p \in w.pods : \E n \in w.namespaces : n.name = p.ns
  /\ \A n \in w.namespaces :
       /\ n.name \in DOMAIN Namespaces /\ n.labels = Namespaces[n.name]
       /\ NameKey \in DOMAIN n.labels => n.labels[NameKey] = n.name
  /\ \A b \in w.rbac.clusterBindings : b.ns = ""
  /\ \A r \in w.rbac.roles \cup w.rbac.clusterRoles : \A rule \in r.rules :
       rule.resources = {} => rule.groups = {}

ASSUME WorldsAreClusters == \A w \in Worlds : \A c \in Clusters : IsCluster(w[c])

(* A query says all of what WhoCan reads. *)
ASSUME AskedAreQueries == \A q \in Asked : DOMAIN q = {"verb", "group", "resource", "scoped", "ns"}

VARIABLES
  world,    \* cluster |-> what it holds
  slow,     \* the sources that arrive one by one
  shown,    \* the page's cluster
  got,      \* the sources of it that have arrived
  kept,     \* cluster |-> its answered queries
  open,     \* the dialog
  failed,   \* its query for the API versions served has failed
  known,    \* the clusters whose version the list of clusters knows
  answer,   \* the last "Who can" answer, as a set of at most one
  saved,    \* the last report saved, likewise
  acts      \* bound: what the user did

rbacVars == <<world, slow, shown, got, kept, open, failed, known, answer, saved, acts>>

Queries == {"rbac", "crds", "apiversions"}
Awaited == {"pods", "serviceaccounts", "deployments", "statefulsets", "services", "networkpolicies",
            "namespaces", "ingresses", "webhooks"}
OfCrds  == {"clusterpolicies", "policies", "imagepolicies", "constraints", "httproutes", "vulnreports"}
OnOpen  == {"poddisruptionbudgets", "endpointslices"}
Streams == Awaited \cup OfCrds \cup OnOpen \cup {"secrets", "cronjobs", "daemonsets"}

-----------------------------------------------------------------------------
(* What is found *)

Accounts(w) == {<<a.ns, a.name>> : a \in w.serviceaccounts}

(* The rows of a cluster's sources, and the engine's answer about its roles. *)
RowsOf(w, sources) ==
  [s \in Streams \cup {"rbac", "findings"} |->
     CASE s \in Streams  -> IF s \in sources THEN w[s] ELSE {}
       [] s = "rbac"     -> IF s \in sources THEN {w.rbac} ELSE {}
       [] s = "findings" -> IF "rbac" \in sources THEN Analyze(w.rbac, Accounts(w)) ELSE {}]

Rows == RowsOf(world[shown], got)

IsSystemFinding(f) == f.ref.name \in SystemRoles

(* Removed APIs are those of the cluster's version that it serves. *)
Found(in, w, told) ==
  [attackPaths |-> FindAttackPaths(in),
   rbac        |-> {f \in in.findings : ~IsSystemFinding(f)},
   upgrade     |-> IF told THEN UpgradeFindings(w.minor, w.served) ELSE {},
   spof        |-> SpofFindings(in),
   netpolGaps  |-> CoverageGaps(in.pods, in.networkpolicies),
   secretEnv   |-> SecretEnvFindings(in),
   automount   |-> AutomountFindings(in),
   unenforced  |-> Unenforced(in)]

Line(rule, high, kind, ns, name) ==
  [rule |-> rule, severity |-> IF high THEN "high" ELSE "medium", resource |-> <<kind, ns, name>>]

(* buildFindingsReport, without its wording and order. *)
Report(f) ==
  {Line("attack-path", p.complete, p.key[2][1], p.key[1], p.key[2][2]) : p \in f.attackPaths}
  \cup {Line(r.title, r.severity = "high", r.subject.kind, r.subject.ns, r.subject.name) : r \in f.rbac}
  \cup {Line("removed-api", u.away <= 1, "", "", u.api) : u \in f.upgrade}
  \cup {Line(s.kind, FALSE, s.of, s.ns, s.name) : s \in f.spof}
  \cup {Line("uncovered", FALSE, "App", OfGroup(g, {}).ns, OfGroup(g, {}).app) : g \in f.netpolGaps}
  \cup {Line("secret-env", FALSE, "App", s.ns, s.app) : s \in f.secretEnv}
  \cup {Line("automount", FALSE, "App", a.ns, a.app) : a \in f.automount}
  \cup {Line("unenforced", FALSE, "Namespace", "", n) : n \in f.unenforced}

-----------------------------------------------------------------------------
(* Arrivals *)

RbacInit ==
  /\ world \in Worlds /\ slow \in SlowSets
  /\ shown \in Clusters /\ got = {} /\ kept = [c \in Clusters |-> {}]
  /\ open = FALSE /\ failed = FALSE /\ known = {}
  /\ answer = {} /\ saved = {} /\ acts = 0

(* A signature engine's or add-on's stream starts once its CRD is known to be served. *)
Started ==
  (Streams \ (OfCrds \cup OnOpen)) \cup {"rbac", "crds"}
  \cup (IF "crds" \in got THEN world[shown].crds ELSE {})
  \cup (IF open THEN OnOpen \cup {"apiversions"} ELSE {})

Arrive(batch) ==
  /\ batch \cap (Started \ got) # {}
  /\ got' = got \cup (batch \cap Started)
  /\ kept' = [kept EXCEPT ![shown] = @ \cup (batch \cap Started \cap Queries)]
  /\ failed' = (failed /\ "apiversions" \notin got')
  /\ UNCHANGED <<world, slow, shown, open, known, answer, saved, acts>>

(* The query is not tried again, but when the dialog opens, or by itself later. *)
VersionsFail ==
  /\ open /\ "apiversions" \notin got /\ ~failed
  /\ failed' = TRUE
  /\ UNCHANGED <<world, slow, shown, got, kept, open, known, answer, saved, acts>>

(* The list of clusters has a version once a cluster has been probed, which makes a
   difference to an open dialog only. *)
Probed ==
  /\ open /\ shown \notin known
  /\ known' = known \cup {shown}
  /\ UNCHANGED <<world, slow, shown, got, kept, open, failed, answer, saved, acts>>

Batches == {{s} : s \in slow} \cup {(Streams \cup Queries) \ slow}

-----------------------------------------------------------------------------
(* The user *)

Act == acts < MaxActs /\ acts' = acts + 1

(* Streams start over; rows the tab still has of the cluster are there at once, which is
   an arrival right after.  The page is a loader until the cluster's roles are there,
   and the dialog with it; a "Who can" answer stays. *)
Switch(c) ==
  /\ Act /\ c # shown
  /\ shown' = c /\ open' = (open /\ "rbac" \in kept[c])
  /\ got' = IF open' THEN kept[c] ELSE kept[c] \ {"apiversions"}
  /\ failed' = FALSE
  /\ UNCHANGED <<world, slow, kept, known, answer, saved>>

Open ==
  /\ Act /\ ~open /\ "rbac" \in got
  /\ open' = TRUE /\ got' = got \cup (kept[shown] \cap {"apiversions"})
  /\ UNCHANGED <<world, slow, shown, kept, failed, known, answer, saved>>

Close ==
  /\ Act /\ open
  /\ open' = FALSE /\ got' = got \ (OnOpen \cup {"apiversions"}) /\ failed' = FALSE
  /\ UNCHANGED <<world, slow, shown, kept, known, answer, saved>>

Ask(q) ==
  /\ Act /\ "rbac" \in got
  /\ answer' = {[of |-> shown, query |-> q, who |-> WhoCan(world[shown].rbac, q)]}
  /\ UNCHANGED <<world, slow, shown, got, kept, open, failed, known, saved>>

(* "Who else can do this", from a finding's row. *)
AskElse(f) ==
  /\ f.hint # NoHint
  /\ Ask(FindingQuery(f))

(* Mutants: what one of the detectors reads is not waited for. *)
Ready_NotPods == "rbac" \in got /\ Awaited \ {"pods"} \subseteq got
Ready_NotPolicies == "rbac" \in got /\ Awaited \ {"networkpolicies", "namespaces"} \subseteq got

Ready == "rbac" \in got /\ Awaited \subseteq got

(* The API versions are waited for until they are there or have failed; the cluster's
   version is not waited for. *)
Gathering == ~Ready \/ ~(OnOpen \subseteq got) \/ ~("apiversions" \in got \/ failed)

SaveReport ==
  /\ Act /\ open /\ ~Gathering
  /\ LET found == Found(Rows, world[shown], shown \in known /\ "apiversions" \in got)
     IN  saved' = {[of |-> shown, found |-> found, report |-> Report(found),
                    warned |-> failed, versioned |-> shown \in known]}
  /\ UNCHANGED <<world, slow, shown, got, kept, open, failed, known, answer>>

RbacNext ==
  \/ \E b \in Batches : Arrive(b)
  \/ \E c \in Clusters : Switch(c)
  \/ VersionsFail \/ Probed
  \/ Open \/ Close \/ SaveReport
  \/ \E q \in Asked : Ask(q)
  \/ \E f \in Rows.findings : AskElse(f)

RbacSpec == RbacInit /\ [][RbacNext]_rbacVars

-----------------------------------------------------------------------------
(* Properties *)

Truth(c) == RowsOf(world[c], Streams \cup {"rbac"})

(* What a saved report says of roles, single points of failure, pods no policy
   selects, Secrets in environments and default tokens is what the whole cluster
   gives, whatever order its streams came in and whichever cluster was looked at
   before.  So is what it says of removed APIs, unless the dialog warned that they
   are missing or the cluster's version was not known: then it says nothing. *)
SavedAsFound ==
  \A s \in saved : LET whole == Found(Truth(s.of), world[s.of], TRUE) IN
    /\ \A d \in {"rbac", "spof", "netpolGaps", "secretEnv", "automount"} : s.found[d] = whole[d]
    /\ s.found.upgrade = IF s.warned \/ ~s.versioned THEN {} ELSE whole.upgrade

(* A saved attack path is one of the cluster's, no better connected and no worse
   than it is: what the report does not wait for can only make it say less.  A
   workload it calls a high finding has a path that is complete, under one of the
   accounts its pods run as. *)
NothingOverstated ==
  \A s \in saved : \A p \in s.found.attackPaths :
    \E q \in FindAttackPaths(Truth(s.of)) :
      /\ q.key = p.key /\ p.entries \subseteq q.entries
      /\ Rank(q.isolation) <= Rank(p.isolation) /\ p.score <= q.score
      /\ p.complete => q.complete
      /\ Line("attack-path", TRUE, p.key[2][1], p.key[1], p.key[2][2]) \in s.report =>
           \E r \in s.found.attackPaths : r.complete /\ r.key[1] = p.key[1] /\ r.key[2] = p.key[2]

(* "Ingress is restricted by NetworkPolicy": the evaluator of the NetworkPolicy page
   denies every pod the path's traffic comes from, to every pod of the workload. *)
RestrictedIsShut ==
  \A s \in saved : \A p \in s.found.attackPaths : p.isolation = "restricted" =>
    LET pods == world[s.of].pods IN
    \A pod \in {x \in pods : KeyOf(x) = p.key} :
      \A e \in p.entries \cap EntriesFor(pod, Truth(s.of)) :
        e.via \in {"Ingress", "Gateway"} =>
          \A src \in Sources(e, pods) :
            ~Side("Ingress", src, pod, {}, world[s.of].networkpolicies).allowed

(* "Who can" and the attack paths read the same roles the same way: a token reads
   Secrets of the namespace asked about exactly if some subject it acts as can get,
   list or watch them.  Where a RoleBinding leaves out a ServiceAccount's namespace,
   the paths alone take it to be the binding's. *)
Reaches(account, rbac, ns) ==
  \E a \in SecretAccess(account, rbac) : a.ns = {} \/ ns = {} \/ a.ns = ns

SubjectsSayWhere(rbac) ==
  \A b \in rbac.bindings : \A s \in b.subjects : s.kind = "ServiceAccount" => s.ns # ""

OfSecrets(q) == q.group = "" /\ q.resource = "secrets" /\ q.scoped

AnswersAgree ==
  \A a \in {a \in answer : OfSecrets(a.query) /\ SubjectsSayWhere(world[a.of].rbac)} :
    LET w == world[a.of] IN
    \A account \in Accounts(w) :
      Reaches(account, w.rbac, a.query.ns) <=>
        \E v \in ReadVerbs : \E s \in WhoCan(w.rbac, [a.query EXCEPT !.verb = v]) : IsMe(s, account, "")

(* Two evaluators of the same objects never contradict each other: the attack paths
   and the NetworkPolicy page, the attack paths and "Who can" (attackPaths.ts:234,
   Rbac.tsx:243). *)
EvaluatorsAgree == RestrictedIsShut /\ AnswersAgree

(* The page's cards agree at every moment: an account "nothing runs as" is on no
   attack path and mounts no default token, and a Secret "nothing references" is
   in no pod's environment. *)
CardsAgree ==
  /\ \A u \in UnusedAccounts(Rows) : \A p \in FindAttackPaths(Rows) : <<p.key[1], p.key[3]>> # u
  /\ \A o \in OrphanedSecrets(Rows) : \A f \in SecretEnvFindings(Rows) :
       f.ns = o[1] => o[2] \notin f.secrets

-----------------------------------------------------------------------------
(* Expectations the code does not meet *)

(* "Nothing enforces image signatures in namespace X" (findingsReport.ts:173) is
   said of namespaces nothing enforces them in.  The report does not wait for the
   engines' policies. *)
UnenforcedIsTrue ==
  \A s \in saved : s.found.unenforced \subseteq Unenforced(Truth(s.of))

(* "Who can" names everyone the bindings let do it.  A role whose name has a colon is
   looked up by what precedes it (Rbac.tsx:251). *)
NobodyLeftOut ==
  \A a \in answer :
    LET rbac == world[a.of].rbac IN
    \A b \in Considered(rbac, a.query.scoped, a.query.ns) :
      (\E rule \in RulesOf(rbac, b) : RuleAllows(rule, a.query.verb, a.query.group, a.query.resource))
        => b.subjects \subseteq a.who

(* "can read every Secret in every namespace, not just specific ones"
   (rbacadvisor.go): the finding is made of a ClusterRole bound in one namespace too. *)
ClusterWideIsEverywhere ==
  \A s \in saved : \A f \in s.found.rbac :
    (f.title = "cluster-secret-read" /\ f.subject.kind = "ServiceAccount") =>
      Everywhere \in SecretAccess(<<f.subject.ns, f.subject.name>>, world[s.of].rbac)

(* "Every finding Kubebay's detectors have for this cluster: ... upgrade readiness"
   (FindingsExport.tsx:95), but for what the dialog warns of: a report saved before the
   cluster's version is known leaves removed APIs out without a word. *)
UpgradeIsTold ==
  \A s \in saved : ~s.warned => s.found.upgrade = UpgradeFindings(world[s.of].minor, world[s.of].served)

(* The answer on the page is about the page's cluster. *)
AnswerIsShown == \A a \in answer : a.of = shown
=============================================================================
