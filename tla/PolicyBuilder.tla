--------------------------- MODULE PolicyBuilder ---------------------------
(***************************************************************************)
(* The NetworkPolicy page's builder (components/NetpolEditor.tsx in        *)
(* pages/NetworkPolicy.tsx): a form, the preview of its effect on the      *)
(* policies streamed from the cluster on show, a dry run, and a create the *)
(* page offers once a dry run of the policy passed.  Others change the     *)
(* clusters' policies meanwhile, and the user edits, or turns to another   *)
(* cluster, while a request is under way.                                  *)
(*                                                                         *)
(* The streamed policies are taken to be the cluster's: WatchStream and    *)
(* WsClient are about how they get there.                                  *)
(***************************************************************************)
EXTENDS NetworkPolicies

CONSTANTS
  Clusters,
  Pods,       \* the pods of every cluster
  Drafts,     \* what the user may make of the form
  Foreign,    \* policies another tool manages
  Ports,      \* connections the properties ask about
  MaxPolicies,\* bound of the model: policies of a cluster
  MaxMade    \* bound of the model: requests made

ASSUME BoundsAreNat == {MaxPolicies, MaxMade} \subseteq Nat
ASSUME DraftsRead   == \A d \in Drafts : d.reads \in BOOLEAN
ASSUME PodsAreList  == IsFiniteSet(Pods) /\ \A q \in Pods : q.at \in Nat
ASSUME ForeignTypes == \A p \in Foreign : p.types \subseteq Directions

VARIABLES
  stored,   \* cluster |-> its policies
  shown,    \* the cluster the page shows
  draft,    \* the form
  dryOkFor, \* the policy a dry run passed for, or {}
  calls,    \* requests under way
  made,     \* bound: requests made, and changes by others
  tried     \* history: policies and the clusters that accepted a dry run of them

page == <<shown, draft, dryOkFor>>
builderVars == <<stored, page, calls, made, tried>>

Text(d) == IF DraftOk(d) THEN {DraftToPolicy(d)} ELSE {}
Policy  == UNION {Text(d) : d \in Drafts}

(* Policies there are, made earlier or by another tool, no two of one name. *)
BuilderInit ==
  /\ shown \in Clusters /\ draft \in Drafts
  /\ \E ps \in SUBSET (Policy \cup Foreign) :
       /\ Cardinality(ps) <= MaxPolicies /\ \A p \in ps : Named(p, ps) = {p}
       /\ stored = [c \in Clusters |-> IF c = shown THEN ps ELSE {}]
  /\ dryOkFor = {} /\ calls = {} /\ made = 0 /\ tried = {}

(* Every field edits the form at any time; nothing else is reset. *)
Edit(d) ==
  /\ draft' = d
  /\ UNCHANGED <<stored, shown, dryOkFor, calls, made, tried>>

(* Another cluster.  Where the page has its rows at hand the builder stays as it
   is; else the page shows that it loads, and the builder starts over. *)
Switch(c) ==
  /\ c # shown /\ shown' = c
  /\ UNCHANGED <<stored, draft, dryOkFor, calls, made, tried>>

SwitchCold(c, d) ==
  /\ c # shown /\ shown' = c
  /\ draft' = d /\ dryOkFor' = {}
  /\ calls' = {[q EXCEPT !.heard = FALSE] : q \in calls}
  /\ UNCHANGED <<stored, made, tried>>

Busy == \E q \in calls : q.heard

(* run(dryRun): with the policy and the cluster of the form as it was shown. *)
Call(dryRun) ==
  /\ ~Busy /\ made < MaxMade /\ Text(draft) # {}
  /\ dryRun \/ dryOkFor = Text(draft)
  /\ calls' = calls \cup {[cluster |-> shown, text |-> Text(draft), dryRun |-> dryRun, heard |-> TRUE]}
  /\ made' = made + 1
  /\ UNCHANGED <<stored, page, tried>>

(* The API server: a policy another tool manages is not replaced. *)
Refused(q) == \E p \in q.text : Named(p, stored[q.cluster]) \cap Foreign # {}

(* Mutant: a dry run that passed is taken to be of what the form says now. *)
Passed_Now(q) == Text(draft)

Passed(q) == q.text

(* The answer of a dry run; nothing hears the answer of an earlier builder. *)
DryRun(q) ==
  /\ q \in calls /\ q.dryRun
  /\ calls' = calls \ {q}
  /\ tried' = IF Refused(q) THEN tried ELSE tried \cup {<<q.cluster, q.text>>}
  /\ dryOkFor' = IF ~q.heard THEN dryOkFor ELSE IF Refused(q) THEN {} ELSE Passed(q)
  /\ UNCHANGED <<stored, shown, draft, made>>

Create(q) ==
  /\ q \in calls /\ ~q.dryRun
  /\ calls' = calls \ {q}
  /\ stored' = IF Refused(q) THEN stored
               ELSE [stored EXCEPT ![q.cluster] = UNION {After(p, @) : p \in q.text}]
  /\ Cardinality(stored'[q.cluster]) <= MaxPolicies
  /\ dryOkFor' = IF q.heard THEN {} ELSE dryOkFor
  /\ UNCHANGED <<shown, draft, made, tried>>

Fail(q) ==
  /\ q \in calls
  /\ calls' = calls \ {q}
  /\ dryOkFor' = IF q.heard THEN {} ELSE dryOkFor
  /\ UNCHANGED <<stored, shown, draft, made, tried>>

(* Someone else changes the cluster's policies. *)
Others(c) ==
  /\ made < MaxMade /\ made' = made + 1
  /\ \E p \in Foreign : stored' = [stored EXCEPT ![c] = IF p \in @ THEN @ \ {p} ELSE After(p, @)]
  /\ Cardinality(stored'[c]) <= MaxPolicies
  /\ UNCHANGED <<page, calls, tried>>

BuilderNext ==
  \/ \E d \in Drafts : Edit(d)
  \/ \E c \in Clusters : Switch(c) \/ (\E d \in Drafts : SwitchCold(c, d)) \/ Others(c)
  \/ \E b \in BOOLEAN : Call(b)
  \/ \E q \in calls : DryRun(q) \/ Create(q) \/ Fail(q)

BuilderSpec == BuilderInit /\ [][BuilderNext]_builderVars

-----------------------------------------------------------------------------
(* Properties *)

(* The type invariant. *)
BuilderTypeOK ==
  /\ stored \in [Clusters -> SUBSET (Policy \cup Foreign)] /\ shown \in Clusters
  /\ draft \in Drafts /\ dryOkFor \subseteq Policy /\ made \in 0 .. MaxMade
  /\ \A q \in calls : q.cluster \in Clusters /\ q.text \subseteq Policy
  /\ \A c \in Clusters : \A p \in stored[c] : Named(p, stored[c]) = {p}

(* A policy is only created after a dry run of exactly this policy passed, edits
   under way or not (NetpolEditor.tsx:111); on which cluster is TriedThere. *)
TriedFirst == \A q \in calls : q.dryRun \/ q.text \in {t[2] : t \in tried}

(* The preview names every connection that creating the policy would block or
   open, and none besides, whatever is stored, replaced or already isolated. *)
PreviewIsExact ==
  \A p \in Text(draft) :
    LET impact == PolicyImpact(p, Pods, stored[shown])
        open(policies) == {q \in Pods \X Pods : q[1] # q[2] /\ Allowed(q[1], q[2], {}, policies)}
        now  == open(stored[shown])
        then == open(After(p, stored[shown]))
    IN  ~impact.truncated => impact.blocked = now \ then /\ impact.allowed = then \ now

(* Both: while the form, the policies and the cluster on show change under a dry run
   or a create, the preview is exact, and what is created is a policy whose own dry
   run passed. *)
PreviewedAndTried == PreviewIsExact /\ TriedFirst

(* A cell of the matrix speaks for every port: nothing passes where it says
   blocked, all where it says open or allowed on no particular ports, and nothing
   but the ports it names where it names some. *)
MatrixIsSound ==
  \A src, dst \in Pods :
    LET cell == MatrixCell(src, dst, stored[shown]) IN
    \A port \in Ports :
      LET passes == Allowed(src, dst, {port}, stored[shown])
      IN  /\ cell.status = "blocked" => ~passes
          /\ (cell.status # "blocked" /\ cell.ports = {}) => passes
          /\ (cell.ports # {} /\ passes) => \E q \in cell.ports : PortMatches(q, dst, {port})

(* Pods that carry the same labels are not a gap exactly when a policy selects
   each of them. *)
GapsAreExact ==
  \A pod \in Pods :
    LET group == Group(pod, Pods) IN
    (\A q \in group : q.labels = pod.labels) =>
      (group \in CoverageGaps(Pods, stored[shown])
         <=> \A dir \in Directions : Selecting(dir, pod, stored[shown]) = {})

-----------------------------------------------------------------------------
(* Expectations the code does not meet *)

(* The dry run that passed was the API server's of the cluster the policy is then
   created on: "dry-run it on the API server, then create it" (NetpolEditor.tsx:110). *)
TriedThere == \A q \in calls : q.dryRun \/ <<q.cluster, q.text>> \in tried

(* netpolEval.ts: both sides "must allow the connection": a pair the matrix shows
   as allowed has a port that passes. *)
AllowedHasAPort ==
  \A src, dst \in Pods :
    LET cell == MatrixCell(src, dst, stored[shown]) IN
    (cell.status = "allowed" /\ cell.ports # {}) =>
      \E port \in Ports : Allowed(src, dst, {port}, stored[shown])
=============================================================================
