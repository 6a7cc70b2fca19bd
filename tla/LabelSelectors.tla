--------------------------- MODULE LabelSelectors ---------------------------
(***************************************************************************)
(* Kubernetes label selectors as every page of the shell reads them        *)
(* (lib/labelSelector.ts).  A selector is [labels, exprs]: labels that must *)
(* be there, and expressions that must hold.                               *)
(***************************************************************************)

(* matchesSelector.  An expression with an operator it does not know fails. *)
Matches(labels, sel) ==
  /\ \A k \in DOMAIN sel.labels : k \in DOMAIN labels /\ labels[k] = sel.labels[k]
  /\ \A e \in sel.exprs :
       LET has    == e.key \in DOMAIN labels
           listed == has /\ labels[e.key] \in e.values
       IN  \/ e.op = "In" /\ listed
           \/ e.op = "NotIn" /\ ~listed
           \/ e.op = "Exists" /\ has
           \/ e.op = "DoesNotExist" /\ ~has

Everything == [labels |-> <<>>, exprs |-> {}]
Having(f)  == [labels |-> f, exprs |-> {}]
=============================================================================
