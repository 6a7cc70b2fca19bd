--------------------------- MODULE CapacityProofs ---------------------------
(***************************************************************************)
(* Theorems about the two pages about capacity.  Consolidation's are for   *)
(* any nodes, pods, budgets and workloads, any requests and any order of   *)
(* the lists; RightSizing's, at the end, for any clusters, workloads,      *)
(* recommendations, usage and floors, and any number of calls and ticks.   *)
(***************************************************************************)
EXTENDS MCCapacity, TLAPS

-----------------------------------------------------------------------------
(* The inductive invariant *)

(* A node has what it can give requested of it at most, or what it started with. *)
Within(r) ==
  \A n \in Nodes : \A dim \in Dims : r[n][dim] <= NodeOf[n][dim] \/ r[n][dim] = SumOf(home, n)[dim]

(* A pod that may be taken from its node: the checks that Outcome makes of it. *)
Free(p) ==
  /\ PodOf[p].owner \notin {"", "DaemonSet"} /\ ~Constrained(p)
  /\ Budgets(p) = {} /\ Spofs(p) = {}

Dom(r) == DOMAIN r = Nodes /\ \A n \in Nodes : DOMAIN r[n] = Dims

(* A judgement under way: what it has placed fits where it is and is on a node that
   may take pods, and every pod it is about is placed, given up or still to come,
   or cannot be simulated. *)
Judged ==
  /\ DOMAIN trial = {"node", "req", "todo", "landed", "unplaced"}
  /\ trial.node \in left
  /\ Dom(trial.req) /\ Within(trial.req)
  /\ trial.todo \subseteq Movable(trial.node)
  /\ trial.unplaced \subseteq Movable(trial.node)
  /\ DOMAIN trial.landed \subseteq Movable(trial.node)
  /\ trial.todo \cap (DOMAIN trial.landed \cup trial.unplaced) = {}
  /\ \A p \in DOMAIN trial.landed :
       trial.landed[p] \in Targets /\ FitsOn(p, trial.landed[p])
  /\ \A p \in Movable(trial.node) :
       Constrained(p) \/ p \in trial.todo \cup DOMAIN trial.landed \cup trial.unplaced

Types ==
  /\ home \in [Pods -> Nodes] /\ at \in [Pods -> Nodes]
  /\ ready \subseteq Nodes /\ exhausted \subseteq Pdbs
  /\ phase \in {"each", "greedy", "done"}
  /\ left \subseteq Candidates /\ removed \subseteq Candidates \ left
  /\ rows \in [Nodes -> {"skipped", "drainable", "downtime", "blocked"}]
  /\ phase = "each" => removed = {} /\ at = home
  /\ Dom(req)

Moved ==
  \A p \in Pods : at[p] # home[p] => Free(p) /\ at[p] \in ready \ cordoned /\ FitsOn(p, at[p])

Emptied == \A n \in removed : Movable(n) = {}

Inv == Types /\ (trial = None \/ Judged) /\ Within(req) /\ Moved /\ Emptied

LEMMA InitInv == Init => Inv
<1> SUFFICES ASSUME Init PROVE Inv
  OBVIOUS
<1>1. home \in [Pods -> Nodes]
  BY HomesAreNodes DEF Init
<1>2. \A n \in Nodes : DOMAIN SumOf(home, n) = Dims
  BY DEF SumOf
<1>3. Types
  BY <1>1, <1>2 DEF Init, Types, Dom, Candidates
<1>4. Within(req)
  BY DEF Init, Within
<1>5. Moved /\ Emptied
  BY DEF Init, Moved, Emptied
<1> QED BY <1>3, <1>4, <1>5 DEF Init, Inv

(* The node to be judged starts with the requests as they are, and all its pods
   that can be simulated are still to be placed. *)
LEMMA JudgeInv ==
  ASSUME Inv, NEW n \in Nodes, Judge(n)
  PROVE  Inv'
<1>1. Types'
  BY DEF Inv, Types, Judge, input, Candidates, Skipped, Receives, Dom
<1>2. Movable(n) = Movable(n)'
  BY DEF Judge, Movable, input
<1>3. Judged'
  BY <1>2 DEF Inv, Types, Judge, Judged, input, Dom, Within
<1>4. Within(req)' /\ Emptied'
  BY DEF Inv, Judge, input, Within, Emptied, Movable
<1>5. Moved'
  BY DEF Inv, Judge, input, Moved, Free, Budgets
<1> QED BY <1>1, <1>3, <1>4, <1>5 DEF Inv

(* While a pod of the node is dealt with, nothing but the trial changes. *)
LEMMA TrialStep ==
  ASSUME Inv, UNCHANGED <<input, phase, left, at, req, rows, removed>>
  PROVE  Types' /\ Within(req)' /\ Moved' /\ Emptied'
<1>1. Types'
  BY DEF Inv, Types, input, Candidates, Skipped, Receives, Dom
<1>2. Within(req)' /\ Emptied'
  BY DEF Inv, input, Within, Emptied, Movable
<1>3. Moved'
  BY DEF Inv, input, Moved, Free, Budgets
<1> QED BY <1>1, <1>2, <1>3

(* The pod lands on a node that takes it and has room for it. *)
LEMMA PlaceInv ==
  ASSUME Inv, NEW p \in Pods, Place(p)
  PROVE  Inv'
<1>1. Judged
  BY DEF Inv, Place
<1>2. PICK n \in Room(p) :
        trial' = [trial EXCEPT
          !.todo = Rest(p),
          !.req[n] = With(@, p),
          !.landed = [q \in DOMAIN @ \cup {p} |-> IF q = p THEN n ELSE @[q]]]
  BY DEF Place
<1>3. n \in Targets /\ n \in Nodes /\ HasRoom(p, n) /\ FitsOn(p, n) /\ p \in trial.todo
  BY <1>2 DEF Room, Targets, Place
<1>a. DOMAIN trial = {"node", "req", "todo", "landed", "unplaced"}
  BY <1>1 DEF Judged
<1>4. /\ DOMAIN trial' = DOMAIN trial
      /\ trial'.node = trial.node /\ trial'.unplaced = trial.unplaced
      /\ trial'.todo = trial.todo \ {p}
      /\ trial'.landed = [q \in DOMAIN trial.landed \cup {p} |-> IF q = p THEN n ELSE trial.landed[q]]
      /\ DOMAIN trial'.req = Nodes /\ DOMAIN trial'.req[n] = Dims
      /\ \A m \in Nodes \ {n} : trial'.req[m] = trial.req[m]
      /\ \A dim \in Dims : trial'.req[n][dim] = trial.req[n][dim] + PodOf[p][dim]
  <2>1. DOMAIN trial' = DOMAIN trial
    BY <1>a, <1>2
  <2>2. trial'.node = trial.node
    BY <1>a, <1>2
  <2>3. trial'.unplaced = trial.unplaced
    BY <1>a, <1>2
  <2>4. trial'.todo = trial.todo \ {p}
    BY <1>a, <1>2 DEF Rest
  <2>5. trial'.landed = [q \in DOMAIN trial.landed \cup {p} |-> IF q = p THEN n ELSE trial.landed[q]]
    BY <1>a, <1>2
  <2>6. DOMAIN trial'.req = Nodes /\ \A m \in Nodes \ {n} : trial'.req[m] = trial.req[m]
    BY <1>a, <1>1, <1>2 DEF Judged, Dom
  <2>7. trial'.req[n] = With(trial.req[n], p)
    BY <1>a, <1>1, <1>2, <1>3 DEF Judged, Dom
  <2> QED BY <1>1, <2>1, <2>2, <2>3, <2>4, <2>5, <2>6, <2>7 DEF Judged, Dom, With
<1>5. Targets' = Targets /\ Movable(trial.node)' = Movable(trial.node)
  BY <1>4 DEF Place, input, Targets, Receives, Movable
<1>6. trial.node \in left /\ trial.node \in Nodes
  BY <1>1 DEF Judged, Inv, Types, Candidates
<1>7. Dom(trial.req)'
  BY <1>1, <1>4 DEF Judged, Dom
<1>8. Within(trial.req)'
  <2> SUFFICES ASSUME NEW m \in Nodes, NEW dim \in Dims
               PROVE  \/ trial'.req[m][dim] <= NodeOf[m][dim]
                      \/ trial'.req[m][dim] = SumOf(home, m)[dim]
    BY DEF Within, Place, input
  <2>1. CASE m = n
    <3>1. trial'.req[m][dim] = trial.req[n][dim] + PodOf[p][dim]
      BY <1>1, <1>3, <1>4, <2>1 DEF Judged, Dom
    <3> QED BY <1>3, <2>1, <3>1 DEF HasRoom
  <2>2. CASE m # n
    BY <1>1, <1>4, <2>2 DEF Judged, Dom, Within
  <2> QED BY <2>1, <2>2
<1>9. \A q \in DOMAIN trial'.landed : trial'.landed[q] \in Targets' /\ FitsOn(q, trial'.landed[q])
  BY <1>1, <1>3, <1>4, <1>5 DEF Judged
<1>10. Judged'
  <2>1. trial.todo \subseteq Movable(trial.node) /\ DOMAIN trial'.landed = DOMAIN trial.landed \cup {p}
    BY <1>1, <1>4 DEF Judged
  <2>2. DOMAIN trial'.landed \subseteq Movable(trial.node)'
    BY <1>1, <1>3, <1>4, <1>5, <1>6, <2>1 DEF Judged
  <2>3. \A q \in Movable(trial.node)' :
          Constrained(q) \/ q \in trial'.todo \cup DOMAIN trial'.landed \cup trial'.unplaced
    BY <1>1, <1>4, <1>5, <1>6, <2>1 DEF Judged
  <2>4. trial'.todo \cap (DOMAIN trial'.landed \cup trial'.unplaced) = {}
    BY <1>1, <1>4, <2>1 DEF Judged
  <2>5. trial'.node \in left' /\ trial'.todo \subseteq Movable(trial.node)' /\ trial'.unplaced \subseteq Movable(trial.node)'
    BY <1>1, <1>4, <1>5, <1>6 DEF Judged, Place
  <2> QED BY <1>a, <1>4, <1>7, <1>8, <1>9, <2>2, <2>3, <2>4, <2>5 DEF Judged
<1> QED BY <1>10, TrialStep DEF Inv, Place

(* The pod is given up. *)
LEMMA NoRoomInv ==
  ASSUME Inv, NEW p \in Pods, NoRoom(p)
  PROVE  Inv'
<1>1. Judged /\ p \in trial.todo
  BY DEF Inv, NoRoom
<1>a. DOMAIN trial = {"node", "req", "todo", "landed", "unplaced"}
  BY <1>1 DEF Judged
<1>b. trial' = [trial EXCEPT !.todo = trial.todo \ {p}, !.unplaced = trial.unplaced \cup {p}]
  BY <1>a DEF NoRoom, Rest
<1>2. /\ DOMAIN trial' = DOMAIN trial
      /\ trial'.node = trial.node /\ trial'.landed = trial.landed /\ trial'.req = trial.req
      /\ trial'.todo = trial.todo \ {p} /\ trial'.unplaced = trial.unplaced \cup {p}
  BY <1>a, <1>b
<1>3. Targets' = Targets /\ Movable(trial.node)' = Movable(trial.node)
  BY <1>2 DEF NoRoom, input, Targets, Receives, Movable
<1>4. trial.node \in Nodes
  BY <1>1 DEF Judged, Inv, Types, Candidates
<1>5. Within(trial.req)' /\ Dom(trial.req)'
  BY <1>1, <1>2 DEF Judged, NoRoom, input, Within, Dom
<1>6. Judged'
  <2>1. /\ trial'.todo \subseteq Movable(trial.node)' /\ trial'.unplaced \subseteq Movable(trial.node)'
        /\ DOMAIN trial'.landed \subseteq Movable(trial.node)'
    BY <1>1, <1>2, <1>3, <1>4 DEF Judged
  <2>2. \A q \in Movable(trial.node)' :
          Constrained(q) \/ q \in trial'.todo \cup DOMAIN trial'.landed \cup trial'.unplaced
    BY <1>1, <1>2, <1>3, <1>4 DEF Judged
  <2>3. trial'.todo \cap (DOMAIN trial'.landed \cup trial'.unplaced) = {}
    BY <1>1, <1>2 DEF Judged
  <2> QED BY <1>1, <1>2, <1>3, <1>5, <2>1, <2>2, <2>3 DEF Judged, NoRoom
<1> QED BY <1>6, TrialStep DEF Inv, NoRoom

(* A verdict leaves what is on paper as it was. *)
LEMMA VerdictInv ==
  ASSUME Inv, Row \/ PassOver
  PROVE  Inv'
<1>1. Judged /\ trial.node \in left /\ trial' = None
  BY DEF Inv, Row, PassOver, Judged
<1>2. Outcome \in {"drainable", "downtime", "blocked"}
  BY DEF Outcome
<1>3. Types'
  BY <1>1, <1>2 DEF Inv, Types, Row, PassOver, Kept, input, Candidates, Skipped, Receives, Dom
<1>4. Within(req)' /\ Emptied'
  BY DEF Inv, Row, PassOver, Kept, input, Within, Emptied, Movable
<1>5. Moved'
  BY DEF Inv, Row, PassOver, input, Moved, Free, Budgets
<1> QED BY <1>1, <1>3, <1>4, <1>5 DEF Inv

(* The node is drained: each of its pods has landed, for one that could not be
   simulated blocks. *)
LEMMA DrainInv ==
  ASSUME Inv, Drain
  PROVE  Inv'
<1>1. /\ Judged /\ trial' = None /\ trial.todo = {} /\ trial.unplaced = {}
      /\ \A p \in Movable(trial.node) : ~Blocks(p) /\ Spofs(p) = {}
  BY DEF Inv, Drain, Judged, Outcome
<1>2. Movable(trial.node) = DOMAIN trial.landed
  BY <1>1 DEF Judged, Blocks
<1>3. \A p \in DOMAIN trial.landed :
        /\ p \in Pods /\ Free(p) /\ FitsOn(p, trial.landed[p])
        /\ trial.landed[p] \in (ready \cap Nodes) \ (cordoned \cup removed \cup {trial.node})
  BY <1>1, <1>2 DEF Judged, Targets, Receives, Movable, Stays, Blocks, Free
<1>4. /\ trial.node \in left /\ left \subseteq Candidates
      /\ at \in [Pods -> Nodes] /\ removed \subseteq Candidates
  BY <1>1 DEF Judged, Inv, Types
<1>5. /\ at' \in [Pods -> Nodes]
      /\ \A p \in Pods : at'[p] = IF p \in DOMAIN trial.landed THEN trial.landed[p] ELSE at[p]
  BY <1>3, <1>4 DEF Drain
<1>6. Types'
  BY <1>1, <1>4, <1>5 DEF Inv, Types, Drain, Judged, input, Candidates, Skipped, Receives, Dom
<1>7. Within(req)'
  BY <1>1 DEF Inv, Drain, Judged, input, Within
<1>8. Moved'
  BY <1>3, <1>5 DEF Inv, Moved, Drain, input, Free, Budgets
<1>9. Emptied'
  <2> SUFFICES ASSUME NEW n \in removed \cup {trial.node}, NEW p \in Pods,
                      Counted(p), ~Stays(p), at'[p] = n
               PROVE  FALSE
    BY DEF Emptied, Drain, Movable
  <2>1. CASE p \in DOMAIN trial.landed
    BY <1>3, <1>5, <2>1
  <2>2. CASE p \notin DOMAIN trial.landed
    BY <1>2, <1>5, <2>2 DEF Inv, Emptied, Movable
  <2> QED BY <2>1, <2>2
<1> QED BY <1>1, <1>6, <1>7, <1>8, <1>9 DEF Inv

LEMMA PhaseInv ==
  ASSUME Inv, Greedy \/ Finish
  PROVE  Inv'
<1>1. trial = None
  BY DEF Inv, Greedy, Finish, Judged
<1>2. Types'
  BY DEF Inv, Types, Greedy, Finish, input, Candidates, Skipped, Receives, Dom
<1>3. Within(req)' /\ Emptied'
  BY DEF Inv, Greedy, Finish, input, Within, Emptied, Movable
<1>4. Moved'
  BY DEF Inv, Greedy, Finish, input, Moved, Free, Budgets
<1> QED BY <1>1, <1>2, <1>3, <1>4 DEF Inv, Greedy, Finish

LEMMA StutterInv ==
  ASSUME Inv, UNCHANGED vars
  PROVE  Inv'
<1>1. Types' /\ Within(req)' /\ Moved' /\ Emptied'
  BY TrialStep DEF vars
<1>2. (trial = None \/ Judged)'
  BY DEF Inv, vars, input, Judged, Dom, Within, Movable, Targets, Receives
<1> QED BY <1>1, <1>2 DEF Inv

LEMMA NextInv == Inv /\ [Next]_vars => Inv'
BY JudgeInv, PlaceInv, NoRoomInv, VerdictInv, DrainInv, PhaseInv, StutterInv DEF Next

THEOREM Invariance == Spec => []Inv
BY InitInv, NextInv, PTL DEF Spec

-----------------------------------------------------------------------------
(* What follows from it *)

(* The type invariant. *)
THEOREM TypeCorrect == Spec => []TypeOK
<1>1. Inv => TypeOK
  BY DEF Inv, Types, Dom, Judged, Targets, TypeOK, TrialOK
<1> QED BY <1>1, Invariance, PTL

(* No sequence of drains fills a node beyond what it can give. *)
THEOREM NeverFilledOver == Spec => []NeverOverfull
<1>1. Inv => NeverOverfull
  BY DEF Inv, Within, NeverOverfull
<1> QED BY <1>1, Invariance, PTL

(* Every pod a drain moved may be moved, and is where it fits. *)
THEOREM MovesAreSafe == Spec => []MovedSafely
<1>1. Inv => MovedSafely
  BY DEF Inv, Moved, Free, Constrained, Budgets, MovedSafely, Types
<1> QED BY <1>1, Invariance, PTL

(* A drained node gets no pod back. *)
THEOREM DrainsStand == Spec => []DrainedStayEmpty
<1>1. Inv => DrainedStayEmpty
  BY DEF Inv, Types, Emptied, Candidates, DrainedStayEmpty
<1> QED BY <1>1, Invariance, PTL

-----------------------------------------------------------------------------
(* Right-sizing: the inductive invariant *)

(* Ticks the user made are ticks the page has, and are as the user made them. *)
Chosen == DOMAIN asked \subseteq DOMAIN selection /\ ChoicesStand

(* What is written for what the VPA of a cluster says. *)
Writes(k, w, c) == RightSizing!Written(RightSizing!Parsed(Vpa[k][w][c]))

(* What a patch names, the VPA of the cluster it was asked for recommends. *)
Recommended(q) ==
  \A c \in DOMAIN q.patch :
    /\ c \in DOMAIN Vpa[q.cluster][q.w]
    /\ \A dim \in DOMAIN q.patch[c] : q.patch[c][dim] = Writes(q.cluster, q.w, c)[dim]

Shaped ==
  /\ DOMAIN requests = Clusters
  /\ \A k \in Clusters : DOMAIN requests[k] = Resizable
  /\ \A k \in Clusters, w \in Resizable : DOMAIN requests[k][w] = Containers[w]

RightInv == Chosen /\ Shaped /\ \A q \in calls : Recommended(q)

LEMMA RightInitInv == RightSizing!Init => RightInv
BY DEF RightSizing!Init, RightInv, Chosen, ChoicesStand, RightSizing!ChoicesStand, Shaped

(* Rows that come tick what was not there before, and nothing else. *)
LEMMA SeededKeeps ==
  ASSUME Chosen, selection' = RightSizing!Seeded, asked' = asked
  PROVE  Chosen'
BY DEF RightSizing!Seeded, Chosen, ChoicesStand, RightSizing!ChoicesStand

(* A workload with a row of its VPA's has no other rows: what is planned is what
   the VPA recommends. *)
LEMMA PlanIsRecommended ==
  ASSUME NEW w \in Resizable, NEW c \in DOMAIN RightSizing!Plan(w)
  PROVE  /\ c \in DOMAIN Vpa[shown][w]
         /\ \A dim \in DOMAIN RightSizing!Plan(w)[c] :
              RightSizing!Plan(w)[c][dim] = Writes(shown, w, c)[dim]
<1>1. PICK s \in RightSizing!Rows : s.w = w /\ s.c = c /\ s.source = "vpa"
  BY DEF RightSizing!Plan
<1>2. s \in RightSizing!VpaRows
  <2>1. ASSUME s \in RightSizing!EngineRows PROVE FALSE
    <3>1. PICK v \in RightSizing!Listed :
            s = RightSizing!Row(v, All, RightSizing!Total(v, [d \in Containers[v] |->
                                                                        RightSizing!Meant(sampled[shown][v][d])]),
                  RightSizing!Total(v, [d \in Containers[v] |-> Used[shown][v]]), "engine")
      BY <2>1 DEF RightSizing!EngineRows
    <3> QED BY <1>1, <3>1 DEF RightSizing!Row
  <2> QED BY <1>1, <2>1 DEF RightSizing!Rows
<1>3. \A r \in RightSizing!Rows : r.w = w => r \in RightSizing!VpaRows
  BY <1>1, <1>2 DEF RightSizing!Rows
<1>4. \A r \in RightSizing!VpaRows : r.c \in DOMAIN Vpa[shown][r.w]
                                      /\ r.target = RightSizing!Parsed(Vpa[shown][r.w][r.c])
  BY DEF RightSizing!VpaRows, RightSizing!Row
<1> DEFINE r == CHOOSE r \in RightSizing!Rows : r.w = w /\ r.c = c
<1>5. r \in RightSizing!Rows /\ r.w = w /\ r.c = c
  BY <1>1
<1>6. c \in DOMAIN Vpa[shown][w] /\ r.target = RightSizing!Parsed(Vpa[shown][w][c])
  BY <1>3, <1>4, <1>5
<1>7. RightSizing!Plan(w)[c] = [dim \in selection[<<w, c>>] |-> RightSizing!Written(r.target)[dim]]
  BY DEF RightSizing!Plan
<1> HIDE DEF r
<1> QED BY <1>6, <1>7 DEF Writes

LEMMA AskRecommends ==
  ASSUME RightInv, NEW w \in Resizable, NEW kind, RightSizing!Ask(kind, w), UNCHANGED shown
  PROVE  \A q \in calls' : Recommended(q)
BY PlanIsRecommended DEF RightInv, RightSizing!Ask, Recommended

LEMMA ToggleInv ==
  ASSUME RightInv, NEW r, NEW dim, RightSizing!Toggle(r, dim)
  PROVE  RightInv'
<1> DEFINE k == RightSizing!Key(r)
           flipped == IF dim \in selection[k] THEN selection[k] \ {dim} ELSE selection[k] \cup {dim}
<1>1. /\ k \in DOMAIN selection
      /\ selection' = [selection EXCEPT ![k] = flipped]
      /\ asked' = [q \in DOMAIN asked \cup {k} |->
           IF q # k THEN asked[q]
           ELSE [d \in {dim} \cup (IF k \in DOMAIN asked THEN DOMAIN asked[k] ELSE {}) |-> d \in flipped]]
      /\ UNCHANGED <<requests, calls>>
  BY DEF RightSizing!Toggle, RightSizing!cluster
<1>2. DOMAIN asked' = DOMAIN asked \cup {k} /\ DOMAIN selection' = DOMAIN selection
  BY <1>1
<1>3. ChoicesStand'
  <2> SUFFICES ASSUME NEW q \in DOMAIN asked', NEW d \in DOMAIN asked'[q]
               PROVE  (d \in selection'[q]) = asked'[q][d]
    BY DEF ChoicesStand, RightSizing!ChoicesStand
  <2>1. CASE q = k
    BY <1>1, <2>1
  <2>2. CASE q # k
    <3>1. q \in DOMAIN asked /\ asked'[q] = asked[q] /\ selection'[q] = selection[q]
      BY <1>1, <1>2, <2>2 DEF RightInv, Chosen
    <3> QED BY <3>1 DEF RightInv, Chosen, ChoicesStand, RightSizing!ChoicesStand
  <2> QED BY <2>1, <2>2
<1>4. Chosen'
  BY <1>1, <1>2, <1>3 DEF RightInv, Chosen
<1> QED BY <1>1, <1>4 DEF RightInv, Shaped, Recommended

(* What an answer changes, the VPA recommends. *)
LEMMA AnswerStep ==
  ASSUME RightInv, NEW q \in calls, RightSizing!Answer(q)
  PROVE  /\ RightInv'
         /\ \A k \in Clusters, w \in Resizable : \A c \in Containers[w] : \A dim \in RightSizing!Dims :
              requests'[k][w][c][dim] # requests[k][w][c][dim] =>
                /\ c \in DOMAIN Vpa[k][w] /\ requests'[k][w][c][dim] = Writes(k, w, c)[dim]
                /\ q.kind = "apply" /\ q.w = w /\ q.cluster = k
<1>1. /\ calls' = calls \ {q} /\ selection' = RightSizing!Seeded /\ asked' = asked
      /\ requests' = IF q.kind = "apply"
                     THEN [requests EXCEPT ![q.cluster][q.w] = RightSizing!Patched(@, q.patch)]
                     ELSE requests
  BY DEF RightSizing!Answer, RightSizing!Where
<1>2. Chosen'
  BY <1>1, SeededKeeps DEF RightInv
<1>3. \A p \in calls' : Recommended(p)
  BY <1>1 DEF RightInv
<1>4. Shaped'
  BY <1>1 DEF RightInv, Shaped, RightSizing!Patched
<1>5. ASSUME NEW k \in Clusters, NEW w \in Resizable, NEW c \in Containers[w], NEW dim \in RightSizing!Dims,
             requests'[k][w][c][dim] # requests[k][w][c][dim]
      PROVE  /\ c \in DOMAIN Vpa[k][w] /\ requests'[k][w][c][dim] = Writes(k, w, c)[dim]
             /\ q.kind = "apply" /\ q.w = w /\ q.cluster = k
  <2>1. q.kind = "apply" /\ q.w = w /\ q.cluster = k
    BY <1>1, <1>5 DEF RightInv, Shaped
  <2>2. requests'[k][w] = RightSizing!Patched(requests[k][w], q.patch)
    BY <1>1, <2>1 DEF RightInv, Shaped
  <2>3. c \in DOMAIN q.patch /\ dim \in DOMAIN q.patch[c] /\ requests'[k][w][c][dim] = q.patch[c][dim]
    BY <1>5, <2>2 DEF RightSizing!Patched, RightInv, Shaped
  <2> QED BY <2>1, <2>3 DEF RightInv, Recommended
<1> QED BY <1>2, <1>3, <1>4, <1>5 DEF RightInv

(* A step changes requests only to what is recommended. *)
RightStep ==
  \A k \in Clusters, w \in Resizable : \A c \in Containers[w] : \A dim \in RightSizing!Dims :
    requests'[k][w][c][dim] # requests[k][w][c][dim] =>
      /\ c \in DOMAIN Vpa[k][w] /\ requests'[k][w][c][dim] = Writes(k, w, c)[dim]
      /\ \E q \in calls : q.kind = "apply" /\ q.w = w /\ q.cluster = k

LEMMA RightNextInv ==
  ASSUME RightInv, RightSizing!Next
  PROVE  RightInv' /\ RightStep
<1>1. ASSUME NEW s, RightSizing!Arrive(s) PROVE RightInv' /\ RightStep
  <2>1. Chosen'
    BY <1>1, SeededKeeps DEF RightInv, RightSizing!Arrive
  <2> QED BY <1>1, <2>1 DEF RightInv, Shaped, Recommended, RightStep, RightSizing!Arrive, RightSizing!cluster
<1>2. ASSUME NEW k, RightSizing!Switch(k) PROVE RightInv' /\ RightStep
  <2>1. Chosen'
    BY <1>2, SeededKeeps DEF RightInv, RightSizing!Switch
  <2> QED BY <1>2, <2>1 DEF RightInv, Shaped, Recommended, RightStep, RightSizing!Switch, RightSizing!cluster
<1>3. ASSUME NEW r, NEW dim, RightSizing!Toggle(r, dim) PROVE RightInv' /\ RightStep
  BY <1>3, ToggleInv DEF RightStep, RightSizing!Toggle, RightSizing!cluster
<1>4. ASSUME NEW w \in Resizable, RightSizing!Preview(w) \/ RightSizing!Apply(w) PROVE RightInv' /\ RightStep
  <2>1. \A q \in calls' : Recommended(q)
    BY <1>4, AskRecommends DEF RightSizing!Preview, RightSizing!Apply
  <2>2. UNCHANGED <<requests, selection, asked>>
    BY <1>4 DEF RightSizing!Preview, RightSizing!Apply, RightSizing!cluster
  <2> QED BY <2>1, <2>2 DEF RightInv, Chosen, ChoicesStand, RightSizing!ChoicesStand, Shaped, Recommended, RightStep
<1>5. ASSUME NEW q \in calls, RightSizing!Answer(q) PROVE RightInv' /\ RightStep
  BY <1>5, AnswerStep DEF RightStep
<1>6. ASSUME NEW q \in calls, RightSizing!Fail(q) PROVE RightInv' /\ RightStep
  BY <1>6 DEF RightInv, Chosen, ChoicesStand, RightSizing!ChoicesStand, Shaped, Recommended, RightStep,
              RightSizing!Fail, RightSizing!cluster
<1> QED BY <1>1, <1>2, <1>3, <1>4, <1>5, <1>6 DEF RightSizing!Next

LEMMA RightStutterInv ==
  ASSUME RightInv, UNCHANGED rightSizing
  PROVE  RightInv' /\ RightStep
BY DEF RightInv, Chosen, ChoicesStand, RightSizing!ChoicesStand, Shaped, Recommended, RightStep, rightSizing

-----------------------------------------------------------------------------
(* How near what is written is to what is recommended *)

(* Of a memory target whose suffix is none or one the page knows, what is written is
   at most half a MiB off.  Nothing like it holds of another suffix. *)
THEOREM NearWhatIsMeant ==
  ASSUME NEW q, q.n \in Nat,
         q.suffix \in DOMAIN Bytes, Bytes[q.suffix] \in Nat,
         q.suffix \in RightSizing!MemSuffixes \/ Bytes[q.suffix] = 1,
         "Mi" \in DOMAIN Bytes, Bytes["Mi"] = RightSizing!Mebi
  PROVE  LET all     == DOMAIN Bytes
             said    == RightSizing!MemBytes(q, all)
             written == RightSizing!memQuantityString(RightSizing!parseMemBytes(q))
             became  == RightSizing!MemBytes(written, all)
         IN  became <= said + RightSizing!Mebi \div 2 /\ said <= became + RightSizing!Mebi \div 2
<1> DEFINE bytes == q.n * Bytes[q.suffix]
           written == RightSizing!memQuantityString(bytes)
           half == RightSizing!Mebi \div 2
           mebi == (bytes + half) \div RightSizing!Mebi
<1>1. bytes \in Nat
  OBVIOUS
<1>2. RightSizing!parseMemBytes(q) = bytes /\ RightSizing!MemBytes(q, DOMAIN Bytes) = bytes
  BY DEF RightSizing!parseMemBytes, RightSizing!MemBytes
<1>3. RightSizing!MemBytes(written, DOMAIN Bytes) = mebi * RightSizing!Mebi
  BY SMT DEF RightSizing!MemBytes, RightSizing!memQuantityString
<1> HIDE DEF bytes
<1>4. RightSizing!Mebi = 1048576 /\ half = 524288
  BY SMT DEF RightSizing!Mebi
<1>5. /\ mebi \in Nat
      /\ 1048576 * mebi <= bytes + 524288 /\ bytes + 524288 < 1048576 * mebi + 1048576
  BY <1>1, <1>4, SMT
<1> HIDE DEF mebi
<1>6. mebi * 1048576 <= bytes + 524288 /\ bytes <= mebi * 1048576 + 524288
  BY <1>1, <1>5, SMT
<1> QED BY <1>2, <1>3, <1>4, <1>6, SMT

-----------------------------------------------------------------------------
(* Of either page, whatever is done on it *)

LEMMA CapacityStep ==
  ASSUME [CapacityNext]_<<page, vars, rightSizing>>
  PROVE  /\ [Next]_vars
         /\ RightSizing!Next \/ UNCHANGED rightSizing
BY DEF CapacityNext, vars, rightSizing

LEMMA CapacityInvariance == CapacitySpec => [](Inv /\ RightInv)
<1>1. CapacityInit => Inv /\ RightInv
  BY InitInv, RightInitInv DEF CapacityInit
<1>2. Inv /\ RightInv /\ [CapacityNext]_<<page, vars, rightSizing>> => (Inv /\ RightInv)'
  BY NextInv, CapacityStep, RightNextInv, RightStutterInv
<1> QED BY <1>1, <1>2, PTL DEF CapacitySpec

(* What the user ticked or unticked stays so (RightSizing.tsx:136). *)
THEOREM TicksStand == CapacitySpec => []ChoicesStand
<1>1. RightInv => ChoicesStand
  BY DEF RightInv, Chosen
<1> QED BY <1>1, CapacityInvariance, PTL

(* An apply changes requests only to what the page reads in that cluster's own VPA
   for that container, as it writes it, wherever the user has turned to meanwhile.
   How near that is to what the VPA says is NearWhatIsMeant. *)
THEOREM AppliesOnlyRecommended == CapacitySpec => OnlyRecommended
<1>1. RightInv /\ [CapacityNext]_<<page, vars, rightSizing>> => [RightStep]_(RightSizing!vars)
  BY CapacityStep, RightNextInv, RightStutterInv
<1> QED BY <1>1, CapacityInvariance, PTL
        DEF CapacitySpec, OnlyRecommended, RightSizing!OnlyRecommended, RightStep, Writes

(* The consolidation card's, whichever page is open. *)
THEOREM CapacityIsSafe == CapacitySpec => [](NeverOverfull /\ MovedSafely /\ DrainedStayEmpty)
<1>1. Inv => NeverOverfull /\ MovedSafely
  BY DEF Inv, Within, NeverOverfull, Moved, Free, Constrained, Budgets, MovedSafely, Types
<1>2. Inv => DrainedStayEmpty
  BY DEF Inv, Types, Emptied, Candidates, DrainedStayEmpty
<1> QED BY <1>1, <1>2, CapacityInvariance, PTL
=============================================================================
