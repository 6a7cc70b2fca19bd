------------------------- MODULE PortForwardsProofs -------------------------
(***************************************************************************)
(* Theorems about PortForwards, for any number of requests of any kinds,   *)
(* clusters and users, where the clock moves between two starts; and about *)
(* Updater, which adds the desktop app to them, whatever the clock does.   *)
(***************************************************************************)
EXTENDS Updater, FiniteSetTheorems, TLAPS

-----------------------------------------------------------------------------
(* The inductive invariant of PortForwards *)

Started(p) == fwd[p] # "none"

(* A started forward has an id of its own for good, and the table has it under
   no other. *)
Ids ==
  /\ \A p \in Requests :
       Started(p) => /\ req[p].kind = "start"
                     /\ req[p].pc \in {"wait", "stopping", "answered"}
                     /\ req[p].id \in 1 .. clock
  /\ \A p, q \in Requests :
       Started(p) /\ Started(q) /\ req[p].id = req[q].id => p = q
  /\ \A id \in DOMAIN table : Started(table[id]) /\ req[table[id]].id = id

(* What a request is, by where it is; only one that stops has something in its
   hand, or left to stop. *)
Phases ==
  \A p \in Requests :
    /\ req[p].hand # NoOne => req[p].pc = "stopping" /\ Started(req[p].hand)
    /\ req[p].work # {} => req[p].pc = "stopping"
    /\ req[p].pc \in {"start", "insert"} => req[p].kind = "start" /\ ~ Started(p)
    /\ req[p].pc = "wait" => Started(p)
    /\ req[p].pc = "stop" => req[p].kind = "stop"
    /\ req[p].pc \in {"disconnect", "hooks"} => req[p].kind \in {"disconnect", "reload"}

(* What a request has still to stop is no id that a later start may get. *)
Claims ==
  \A q \in Requests : \A id \in req[q].work :
    id \in 1 .. clock /\ (id \in DOMAIN table => Entitled(q, table[id]))

Inv ==
  /\ TypeOK /\ Ids /\ Phases /\ Claims
  /\ StillStoppable /\ OnlyTheirOwn

LEMMA InitInv == Init => Inv
  BY AsksKnown, NamesApart, BoundNat
  DEF Init, Inv, TypeOK, Ids, Started, Phases, Claims, StillStoppable, OnlyTheirOwn, Resting, Doing

LEMMA DoingExcept ==
  ASSUME NEW r \in Doing, NEW ok \in BOOLEAN, NEW work \in SUBSET (1 .. MaxIds),
         NEW id \in 0 .. MaxIds, NEW hand \in Requests \cup {NoOne},
         NEW pc \in {"wait", "hooks", "insert", "stopping", "answered"}
  PROVE  /\ [r EXCEPT !.pc = pc] \in Doing
         /\ [r EXCEPT !.pc = pc, !.ok = ok] \in Doing
         /\ [r EXCEPT !.pc = pc, !.id = id] \in Doing
         /\ [r EXCEPT !.pc = pc, !.work = work] \in Doing
         /\ [r EXCEPT !.pc = pc, !.work = work, !.ok = ok] \in Doing
         /\ [r EXCEPT !.work = work, !.hand = hand] \in Doing
         /\ [r EXCEPT !.hand = hand] \in Doing
<1>1. [r EXCEPT !.pc = pc] \in Doing
  BY DEF Doing
<1>2. [r EXCEPT !.pc = pc, !.ok = ok] \in Doing
  BY DEF Doing
<1>3. [r EXCEPT !.pc = pc, !.id = id] \in Doing
  BY DEF Doing
<1>4. [r EXCEPT !.pc = pc, !.work = work] \in Doing
  BY DEF Doing
<1>5. [r EXCEPT !.pc = pc, !.work = work, !.ok = ok] \in Doing
  BY DEF Doing
<1>6. [r EXCEPT !.work = work, !.hand = hand] \in Doing
  BY DEF Doing
<1>7. [r EXCEPT !.hand = hand] \in Doing
  BY DEF Doing
<1> QED
  BY <1>1, <1>2, <1>3, <1>4, <1>5, <1>6, <1>7

LEMMA AnswerInv ==
  ASSUME Inv, NEW p \in Requests, NEW ok \in BOOLEAN, Answer(p, ok),
         req[p].hand = NoOne, req[p].work = {}, UNCHANGED <<mgr, ports>>
  PROVE  Inv'
<1> USE DEF Answer, mgr, ports
<1> TypeOK /\ Ids /\ Phases /\ Claims /\ StillStoppable /\ OnlyTheirOwn
  BY DEF Inv
<1>1. TypeOK'
  <2>1. req' \in [Requests -> Doing]
    BY DoingExcept DEF TypeOK
  <2> QED
    BY <2>1 DEF TypeOK
<1>2. Ids'
  BY DEF TypeOK, Doing, Ids, Phases, Started
<1>3. Phases'
  BY DEF TypeOK, Doing, Ids, Phases, Started
<1>4. Claims'
  BY DEF TypeOK, Doing, Ids, Phases, Claims, Started, Entitled
<1>5. StillStoppable'
  BY DEF TypeOK, Doing, Ids, Phases, Started, StillStoppable
<1>6. OnlyTheirOwn'
  BY DEF TypeOK, Doing, Ids, Phases, Claims, Started, OnlyTheirOwn, Entitled
<1> QED
  BY <1>1, <1>2, <1>3, <1>4, <1>5, <1>6 DEF Inv

LEMMA ToInv ==
  ASSUME Inv, NEW p \in Requests, NEW pc \in {"insert", "hooks"}, To(p, pc),
         pc = "insert" => At(p, "start"), pc = "hooks" => At(p, "disconnect"),
         known' = known, auth' = auth, connected' \subseteq connected, UNCHANGED ports
  PROVE  Inv'
<1> USE DEF To, At, ports
<1> TypeOK /\ Ids /\ Phases /\ Claims /\ StillStoppable /\ OnlyTheirOwn
  BY DEF Inv
<1>1. TypeOK'
  <2>1. req' \in [Requests -> Doing]
    BY DoingExcept DEF TypeOK
  <2> QED
    BY <2>1 DEF TypeOK
<1>2. Ids'
  BY DEF TypeOK, Doing, Ids, Phases, Started
<1>3. Phases'
  BY DEF TypeOK, Doing, Ids, Phases, Started
<1>4. Claims'
  BY DEF TypeOK, Doing, Ids, Phases, Claims, Started, Entitled
<1>5. StillStoppable'
  BY DEF TypeOK, Doing, Ids, Phases, Started, StillStoppable
<1>6. OnlyTheirOwn'
  BY DEF TypeOK, Doing, Ids, Phases, Claims, Started, OnlyTheirOwn, Entitled
<1> QED
  BY <1>1, <1>2, <1>3, <1>4, <1>5, <1>6 DEF Inv

LEMMA FoundInv ==
  ASSUME Inv, NEW p \in Requests, At(p, "stop"), req[p].id \in DOMAIN table,
         req[table[req[p].id]].user = req[p].user,
         req' = [req EXCEPT ![p].pc = "stopping", ![p].work = {req[p].id}],
         UNCHANGED <<mgr, ports>>
  PROVE  Inv'
<1> USE DEF At, mgr, ports
<1> TypeOK /\ Ids /\ Phases /\ Claims /\ StillStoppable /\ OnlyTheirOwn
  BY DEF Inv
<1>1. TypeOK'
  <2>1. {req[p].id} \in SUBSET (1 .. MaxIds)
    BY BoundNat DEF TypeOK
  <2>2. req' \in [Requests -> Doing]
    BY <2>1, DoingExcept DEF TypeOK
  <2> QED
    BY <2>2 DEF TypeOK
<1>2. Ids'
  BY DEF TypeOK, Doing, Ids, Phases, Started
<1>3. Phases'
  BY DEF TypeOK, Doing, Ids, Phases, Started
<1>4. Claims'
  BY DEF TypeOK, Doing, Ids, Phases, Claims, Started, Entitled
<1>5. StillStoppable'
  BY DEF TypeOK, Doing, Ids, Phases, Started, StillStoppable
<1>6. OnlyTheirOwn'
  BY DEF TypeOK, Doing, Ids, Phases, Claims, Started, OnlyTheirOwn, Entitled
<1> QED
  BY <1>1, <1>2, <1>3, <1>4, <1>5, <1>6 DEF Inv

LEMMA ArriveInv ==
  ASSUME Inv, NEW p \in Requests, NEW a \in Asks[p], Arrive(p, a)
  PROVE  Inv'
<1> USE DEF Arrive, mgr, ports, At, Resting, Writes
<1> TypeOK /\ Ids /\ Phases /\ Claims /\ StillStoppable /\ OnlyTheirOwn
  BY DEF Inv
<1>1. TypeOK'
  <2>1. PICK id \in (IF a.kind = "stop" THEN 1 .. clock ELSE {0}) :
          req' = [req EXCEPT ![p] = [Resting EXCEPT !.pc = a.kind, !.kind = a.kind,
                   !.cluster = a.cluster, !.user = IF auth THEN a.user ELSE Local, !.id = id]]
    OBVIOUS
  <2>2. id \in 0 .. MaxIds
    BY <2>1, BoundNat DEF TypeOK
  <2>3. a.kind \in Writes /\ a.cluster \in Clusters /\ a.user \in Users
    BY AsksKnown DEF Users
  <2>4. [Resting EXCEPT !.pc = a.kind, !.kind = a.kind, !.cluster = a.cluster,
          !.user = IF auth THEN a.user ELSE Local, !.id = id] \in Doing
    BY <2>2, <2>3 DEF Doing
  <2>5. req' \in [Requests -> Doing]
    BY <2>1, <2>4 DEF TypeOK
  <2> QED
    BY <2>5 DEF TypeOK
<1>2. Ids'
  BY DEF TypeOK, Doing, Ids, Phases, Started
<1>3. Phases'
  BY NamesApart DEF TypeOK, Doing, Ids, Phases, Started
<1>4. Claims'
  BY DEF TypeOK, Doing, Ids, Phases, Claims, Started, Entitled
<1>5. StillStoppable'
  BY NamesApart DEF TypeOK, Doing, Ids, Phases, Started, StillStoppable
<1>6. OnlyTheirOwn'
  BY NamesApart DEF TypeOK, Doing, Ids, Phases, Claims, Started, OnlyTheirOwn, Entitled
<1> QED
  BY <1>1, <1>2, <1>3, <1>4, <1>5, <1>6 DEF Inv

LEMMA LeavesInv ==
  ASSUME Inv, NEW p \in Requests, NEW a \in Asks[p], Leaves(p, a)
  PROVE  Inv'
<1> USE DEF Leaves, mgr, ports, At, Resting
<1> TypeOK /\ Ids /\ Phases /\ Claims /\ StillStoppable /\ OnlyTheirOwn
  BY DEF Inv
<1>1. TypeOK'
  <2>1. a.cluster \in Clusters
    BY AsksKnown
  <2>2. ASSUME NEW pc \in {"hooks", "answered"}
        PROVE  [Resting EXCEPT !.kind = "reload", !.cluster = a.cluster, !.pc = pc] \in Doing
    <3>1. Resting \in Doing
      BY BoundNat DEF Doing
    <3>2. \A r \in Doing : [r EXCEPT !.kind = "reload", !.cluster = a.cluster, !.pc = pc] \in Doing
      BY <2>1 DEF Doing
    <3> QED
      BY <3>1, <3>2
  <2>3. PICK pc \in {"hooks", "answered"} :
          req' = [req EXCEPT ![p] =
                   [Resting EXCEPT !.kind = "reload", !.cluster = a.cluster, !.pc = pc]]
    OBVIOUS
  <2>4. [Resting EXCEPT !.kind = "reload", !.cluster = a.cluster, !.pc = pc] \in Doing
    BY <2>2
  <2>5. req' \in [Requests -> Doing]
    BY <2>3, <2>4 DEF TypeOK
  <2> QED
    BY <2>5 DEF TypeOK
<1>2. Ids'
  BY DEF TypeOK, Doing, Ids, Phases, Started
<1>3. Phases'
  BY NamesApart DEF TypeOK, Doing, Ids, Phases, Started
<1>4. Claims'
  BY DEF TypeOK, Doing, Ids, Phases, Claims, Started, Entitled
<1>5. StillStoppable'
  BY NamesApart DEF TypeOK, Doing, Ids, Phases, Started, StillStoppable
<1>6. OnlyTheirOwn'
  BY NamesApart DEF TypeOK, Doing, Ids, Phases, Claims, Started, OnlyTheirOwn, Entitled
<1> QED
  BY <1>1, <1>2, <1>3, <1>4, <1>5, <1>6 DEF Inv

LEMMA InsertInv ==
  ASSUME Inv, CoarseClock = FALSE, NEW p \in Requests, Insert(p)
  PROVE  Inv'
<1> USE DEF Insert, mgr, ports, At, With
<1> TypeOK /\ Ids /\ Phases /\ Claims /\ StillStoppable /\ OnlyTheirOwn
  BY DEF Inv
<1>1. TypeOK'
  <2>1. PICK id \in {clock + 1} :
          /\ id \in 1 .. MaxIds /\ clock' = id /\ table' = With(id, p)
          /\ req' = [req EXCEPT ![p].pc = "wait", ![p].id = id]
    OBVIOUS
  <2>2. id \in 0 .. MaxIds
    BY <2>1, BoundNat DEF TypeOK
  <2>3. [req[p] EXCEPT !.pc = "wait", !.id = id] \in Doing
    BY <2>2, DoingExcept DEF TypeOK
  <2>4. req' \in [Requests -> Doing]
    BY <2>1, <2>3 DEF TypeOK
  <2> QED
    BY <2>1, <2>4 DEF TypeOK
<1>2. Ids'
  BY DEF TypeOK, Doing, Ids, Phases, Started
<1>3. Phases'
  BY NamesApart DEF TypeOK, Doing, Ids, Phases, Started
<1>4. Claims'
  BY DEF TypeOK, Doing, Ids, Phases, Claims, Started, Entitled
<1>5. StillStoppable'
  BY NamesApart DEF TypeOK, Doing, Ids, Phases, Started, StillStoppable
<1>6. OnlyTheirOwn'
  BY NamesApart DEF TypeOK, Doing, Ids, Phases, Claims, Started, OnlyTheirOwn, Entitled
<1> QED
  BY <1>1, <1>2, <1>3, <1>4, <1>5, <1>6 DEF Inv

LEMMA GiveUpInv ==
  ASSUME Inv, NEW p \in Requests, GiveUp(p)
  PROVE  Inv'
<1> USE DEF GiveUp, mgr, ports, At
<1> TypeOK /\ Ids /\ Phases /\ Claims /\ StillStoppable /\ OnlyTheirOwn
  BY DEF Inv
<1>1. TypeOK'
  <2>1. {req[p].id} \in SUBSET (1 .. MaxIds)
    BY BoundNat DEF TypeOK, Ids, Phases
  <2>2. req' \in [Requests -> Doing]
    BY <2>1, DoingExcept DEF TypeOK
  <2> QED
    BY <2>2 DEF TypeOK
<1>2. Ids'
  BY DEF TypeOK, Doing, Ids, Phases, Started
<1>3. Phases'
  BY NamesApart DEF TypeOK, Doing, Ids, Phases, Started
<1>4. Claims'
  BY DEF TypeOK, Doing, Ids, Phases, Claims, Started, Entitled
<1>5. StillStoppable'
  BY NamesApart DEF TypeOK, Doing, Ids, Phases, Started, StillStoppable
<1>6. OnlyTheirOwn'
  BY NamesApart DEF TypeOK, Doing, Ids, Phases, Claims, Started, OnlyTheirOwn, Entitled
<1> QED
  BY <1>1, <1>2, <1>3, <1>4, <1>5, <1>6 DEF Inv

LEMMA CollectInv ==
  ASSUME Inv, NEW p \in Requests, Collect(p)
  PROVE  Inv'
<1> USE DEF Collect, mgr, ports, At, IdsOf
<1> TypeOK /\ Ids /\ Phases /\ Claims /\ StillStoppable /\ OnlyTheirOwn
  BY DEF Inv
<1>1. TypeOK'
  <2>1. IdsOf(req[p].cluster) \in SUBSET (1 .. MaxIds)
    BY BoundNat DEF TypeOK
  <2>2. req' \in [Requests -> Doing]
    BY <2>1, DoingExcept DEF TypeOK
  <2> QED
    BY <2>2 DEF TypeOK
<1>2. Ids'
  BY DEF TypeOK, Doing, Ids, Phases, Started
<1>3. Phases'
  BY NamesApart DEF TypeOK, Doing, Ids, Phases, Started
<1>4. Claims'
  BY DEF TypeOK, Doing, Ids, Phases, Claims, Started, Entitled
<1>5. StillStoppable'
  BY NamesApart DEF TypeOK, Doing, Ids, Phases, Started, StillStoppable
<1>6. OnlyTheirOwn'
  BY NamesApart DEF TypeOK, Doing, Ids, Phases, Claims, Started, OnlyTheirOwn, Entitled
<1> QED
  BY <1>1, <1>2, <1>3, <1>4, <1>5, <1>6 DEF Inv

LEMMA TakeInv ==
  ASSUME Inv, NEW p \in Requests, NEW id \in req[p].work, Take(p, id)
  PROVE  Inv'
<1> USE DEF Take, mgr, ports, At, Busy, Without
<1> TypeOK /\ Ids /\ Phases /\ Claims /\ StillStoppable /\ OnlyTheirOwn
  BY DEF Inv
<1>1. TypeOK'
  <2>1. /\ req[p].work \ {id} \in SUBSET (1 .. MaxIds)
        /\ (IF id \in DOMAIN table THEN table[id] ELSE NoOne) \in Requests \cup {NoOne}
    BY DEF TypeOK, Doing
  <2>2. req' \in [Requests -> Doing]
    BY <2>1, DoingExcept, ZenonT(60) DEF TypeOK
  <2> QED
    BY <2>2 DEF TypeOK
<1>2. Ids'
  BY DEF TypeOK, Doing, Ids, Phases, Started
<1>3. Phases'
  BY NamesApart DEF TypeOK, Doing, Ids, Phases, Started
<1>4. Claims'
  BY DEF TypeOK, Doing, Ids, Phases, Claims, Started, Entitled
<1>5. StillStoppable'
  BY NamesApart DEF TypeOK, Doing, Ids, Phases, Started, StillStoppable
<1>6. OnlyTheirOwn'
  BY NamesApart DEF TypeOK, Doing, Ids, Phases, Claims, Started, OnlyTheirOwn, Entitled
<1> QED
  BY <1>1, <1>2, <1>3, <1>4, <1>5, <1>6 DEF Inv

LEMMA CloseInv ==
  ASSUME Inv, NEW p \in Requests, Close(p)
  PROVE  Inv'
<1> USE DEF Close, mgr, ports, At, Busy
<1> TypeOK /\ Ids /\ Phases /\ Claims /\ StillStoppable /\ OnlyTheirOwn
  BY DEF Inv
<1>1. TypeOK'
  <2>1. req' \in [Requests -> Doing]
    BY DoingExcept DEF TypeOK
  <2>2. req[p].hand \in Requests
    BY DEF TypeOK, Doing
  <2> QED
    BY <2>1, <2>2 DEF TypeOK
<1>2. Ids'
  BY DEF TypeOK, Doing, Ids, Phases, Started
<1>3. Phases'
  BY NamesApart DEF TypeOK, Doing, Ids, Phases, Started
<1>4. Claims'
  BY DEF TypeOK, Doing, Ids, Phases, Claims, Started, Entitled
<1>5. StillStoppable'
  BY NamesApart DEF TypeOK, Doing, Ids, Phases, Started, StillStoppable
<1>6. OnlyTheirOwn'
  BY NamesApart DEF TypeOK, Doing, Ids, Phases, Claims, Started, OnlyTheirOwn, Entitled
<1> QED
  BY <1>1, <1>2, <1>3, <1>4, <1>5, <1>6 DEF Inv

LEMMA GoesInv ==
  ASSUME Inv, NEW p \in Requests, NEW from \in {"dialing", "listening"},
         NEW to \in {"listening", "returned", "failed"}, from = "listening" => to # "failed", Goes(p, from, to)
  PROVE  Inv'
<1> USE DEF Goes, mgr, ports
<1> TypeOK /\ Ids /\ Phases /\ Claims /\ StillStoppable /\ OnlyTheirOwn
  BY DEF Inv
<1>1. TypeOK'
  <2>1. req' \in [Requests -> Doing]
    BY AsksKnown, BoundNat, DoingExcept DEF TypeOK
  <2> QED
    BY <2>1, NamesApart, BoundNat DEF TypeOK
<1>2. Ids'
  BY DEF TypeOK, Doing, Ids, Phases, Started
<1>3. Phases'
  BY NamesApart DEF TypeOK, Doing, Ids, Phases, Started
<1>4. Claims'
  BY DEF TypeOK, Doing, Ids, Phases, Claims, Started, Entitled
<1>5. StillStoppable'
  BY NamesApart DEF TypeOK, Doing, Ids, Phases, Started, StillStoppable
<1>6. OnlyTheirOwn'
  BY NamesApart DEF TypeOK, Doing, Ids, Phases, Claims, Started, OnlyTheirOwn, Entitled
<1> QED
  BY <1>1, <1>2, <1>3, <1>4, <1>5, <1>6 DEF Inv

LEMMA ServeInv ==
  ASSUME Inv, CoarseClock = FALSE, NEW p \in Requests, Serve(p)
  PROVE  Inv'
<1> TypeOK /\ Ids /\ Phases
  BY DEF Inv
<1>0. req[p].pc # "stopping" => req[p].hand = NoOne /\ req[p].work = {}
  BY DEF Phases
<1>1. CASE Config(p)
  <2>1. CASE req[p].cluster \in known
    BY <1>1, <2>1, ToInv DEF Config, mgr
  <2>2. CASE req[p].cluster \notin known
    BY <1>0, <1>1, <2>2, AnswerInv DEF Config, At
  <2> QED
    BY <2>1, <2>2
<1>2. CASE Insert(p)
  BY <1>2, InsertInv
<1>3. CASE Ready(p)
  BY <1>0, <1>3, AnswerInv DEF Ready, At
<1>4. CASE GiveUp(p)
  BY <1>4, GiveUpInv
<1>5. CASE Lookup(p)
  <2>1. CASE req[p].id \in DOMAIN table /\ req[table[req[p].id]].user = req[p].user
    BY <1>5, <2>1, FoundInv DEF Lookup
  <2>2. CASE ~ (req[p].id \in DOMAIN table /\ req[table[req[p].id]].user = req[p].user)
    BY <1>0, <1>5, <2>2, AnswerInv DEF Lookup, At
  <2> QED
    BY <2>1, <2>2
<1>6. CASE Disconnect(p)
  <2>1. CASE auth \/ req[p].cluster \notin known
    BY <1>0, <1>6, <2>1, AnswerInv DEF Disconnect, At, mgr
  <2>2. CASE ~ (auth \/ req[p].cluster \notin known)
    BY <1>6, <2>2, ToInv DEF Disconnect
  <2> QED
    BY <2>1, <2>2
<1>7. CASE Collect(p)
  BY <1>7, CollectInv
<1>8. CASE Close(p)
  BY <1>8, CloseInv
<1>9. CASE Stopped(p)
  <2>1. req[p].ok \in BOOLEAN
    BY DEF TypeOK, Doing
  <2> QED
    BY <1>9, <2>1, AnswerInv DEF Stopped, Busy, At
<1>10. CASE Applied(p)
  BY <1>0, <1>10, AnswerInv DEF Applied, At
<1>11. ASSUME NEW id \in req[p].work, Take(p, id) PROVE Inv'
  BY <1>11, TakeInv
<1> QED
  BY <1>1, <1>2, <1>3, <1>4, <1>5, <1>6, <1>7, <1>8, <1>9, <1>10, <1>11 DEF Serve

LEMMA NextInv == CoarseClock = FALSE /\ Inv /\ [Next]_vars => Inv'
<1> SUFFICES ASSUME CoarseClock = FALSE, Inv, [Next]_vars PROVE Inv'
  OBVIOUS
<1>1. ASSUME NEW p \in Requests, NEW a \in Asks[p], Arrive(p, a) \/ Leaves(p, a) PROVE Inv'
  BY <1>1, ArriveInv, LeavesInv
<1>2. ASSUME NEW p \in Requests, Serve(p) PROVE Inv'
  BY <1>2, ServeInv
<1>3. ASSUME NEW p \in Requests, Listens(p) \/ DialFails(p) \/ Lost(p) \/ Heeds(p) PROVE Inv'
  <2>1. CASE Listens(p)
    BY <2>1, GoesInv DEF Listens
  <2>2. CASE DialFails(p)
    BY <2>2, GoesInv DEF DialFails
  <2>3. CASE Lost(p)
    BY <2>3, GoesInv DEF Lost
  <2>4. CASE Heeds(p)
    BY <2>4, GoesInv DEF Heeds
  <2> QED
    BY <1>3, <2>1, <2>2, <2>3, <2>4
<1>4. CASE UNCHANGED vars
  BY <1>4 DEF vars, Inv, TypeOK, Ids, Started, Phases, Claims, Entitled, StillStoppable,
              OnlyTheirOwn
<1> QED
  BY <1>1, <1>2, <1>3, <1>4 DEF Next, Arrival

LEMMA InvAlways == CoarseClock = FALSE /\ Spec => []Inv
<1> SUFFICES ASSUME CoarseClock = FALSE PROVE Spec => []Inv
  OBVIOUS
<1> QED
  BY InitInv, NextInv, PTL DEF Spec

-----------------------------------------------------------------------------
(* Every variable always has its type, if the clock moves between two starts. *)
THEOREM TypeCorrect == CoarseClock = FALSE /\ Spec => []TypeOK
  BY InvAlways, PTL DEF Inv

(* If the clock moves between two starts, whoever starts and stops what in
   whatever order: a forward that runs is in the table under its own id, or a
   goroutine is about to close its stop channel. *)
THEOREM AlwaysStoppable == CoarseClock = FALSE /\ Spec => []StillStoppable
  BY InvAlways, PTL DEF Inv

(* Nor is a forward ever taken by a request that may not stop it, although the
   owner is checked under one lock and the forward taken under the next. *)
THEOREM NeverAStrangers == CoarseClock = FALSE /\ Spec => []OnlyTheirOwn
  BY InvAlways, PTL DEF Inv

-----------------------------------------------------------------------------
(* The inductive invariant of Updater *)

(* The sets that the activity report counts are finite. *)
Countable ==
  /\ DOMAIN req = Requests
  /\ IsFiniteSet(terminals) /\ IsFiniteSet(DOMAIN table) /\ IsFiniteSet(InFlight)

(* One check at a time, and the update is where the status says. *)
Kept ==
  /\ status = "checking" <=> checking # {}
  /\ \A c, d \in checking : c = d
  /\ status = "ready" <=> pending \/ InstallAt("installing")
  /\ ~ (pending /\ InstallAt("installing"))

Kinds(set) == {x[2] : x \in set}

(* What a reading has counted as none was not in flight all the time. *)
Seen ==
  /\ install.seen \in Nat
  /\ Reading => through \subseteq Counted
  /\ install.seen = 0 =>
       /\ install.pc \in {"forwards", "writes", "answered"} => "terminal" \notin Kinds(through)
       /\ install.pc \in {"writes", "answered"} => "forward" \notin Kinds(through)
       /\ install.pc = "answered" => "write" \notin Kinds(through)

AppInv == Countable /\ Kept /\ Seen

LEMMA OneRequest ==
  ASSUME Next
  PROVE  req' = req \/ \E p \in Requests : /\ DOMAIN req' = DOMAIN req
                                           /\ \A q \in DOMAIN req : q # p => req'[q] = req[q]
<1> DEFINE Only(p) == DOMAIN req' = DOMAIN req /\ \A q \in DOMAIN req : q # p => req'[q] = req[q]
<1>1. ASSUME NEW p \in Requests, NEW a \in Asks[p], Arrive(p, a) \/ Leaves(p, a) PROVE Only(p)
  BY <1>1 DEF Arrive, Leaves
<1>2. ASSUME NEW p \in Requests, Listens(p) \/ DialFails(p) \/ Lost(p) \/ Heeds(p) PROVE req' = req
  BY <1>2 DEF Listens, DialFails, Lost, Heeds, Goes
<1>3. ASSUME NEW p \in Requests, Serve(p) PROVE Only(p)
  BY <1>3 DEF Serve, Config, Insert, Ready, GiveUp, Lookup, Disconnect, Collect, Close, Stopped,
              Applied, Take, To, Answer
<1> QED
  BY <1>1, <1>2, <1>3 DEF Next, Arrival

LEMMA TableMoves ==
  ASSUME Next
  PROVE  \E id : DOMAIN table' \subseteq DOMAIN table \cup {id}
<1> DEFINE Grows == \E id : DOMAIN table' \subseteq DOMAIN table \cup {id}
<1>1. ASSUME table' = table PROVE Grows
  BY <1>1
<1>2. ASSUME NEW p \in Requests, Insert(p) PROVE Grows
  BY <1>2 DEF Insert, With
<1>3. ASSUME NEW p \in Requests, NEW id, Take(p, id) PROVE Grows
  BY <1>3 DEF Take, Without
<1>4. ASSUME NEW p \in Requests, NEW a \in Asks[p], Arrive(p, a) \/ Leaves(p, a) PROVE table' = table
  BY <1>4 DEF Arrive, Leaves, ports
<1>5. ASSUME NEW p \in Requests, Listens(p) \/ DialFails(p) \/ Lost(p) \/ Heeds(p) PROVE table' = table
  BY <1>5 DEF Listens, DialFails, Lost, Heeds, Goes
<1>6. ASSUME NEW p \in Requests, Serve(p) PROVE Grows
  BY <1>1, <1>2, <1>3, <1>6 DEF Serve, Config, Ready, GiveUp, Lookup, Disconnect, Collect, Close, Stopped,
                                Applied, ports
<1> QED
  BY <1>1, <1>4, <1>5, <1>6 DEF Next, Arrival

LEMMA WorkCountable ==
  ASSUME Next, DOMAIN req = Requests, IsFiniteSet(DOMAIN table), IsFiniteSet(InFlight)
  PROVE  DOMAIN req' = Requests /\ IsFiniteSet(DOMAIN table') /\ IsFiniteSet(InFlight')
<1>1. IsFiniteSet(DOMAIN table')
  <2>1. PICK id : DOMAIN table' \subseteq DOMAIN table \cup {id}
    BY TableMoves
  <2>2. IsFiniteSet(DOMAIN table \cup {id})
    BY FS_AddElement
  <2> QED
    BY <2>1, <2>2, FS_Subset
<1>2. CASE req' = req
  BY <1>1, <1>2 DEF InFlight
<1>3. ASSUME NEW p \in Requests, DOMAIN req' = DOMAIN req, \A q \in DOMAIN req : q # p => req'[q] = req[q]
      PROVE  DOMAIN req' = Requests /\ IsFiniteSet(InFlight')
  <2>1. InFlight' \subseteq InFlight \cup {p}
    BY <1>3 DEF InFlight
  <2>2. IsFiniteSet(InFlight \cup {p})
    BY FS_AddElement
  <2> QED
    BY <1>3, <2>1, <2>2, FS_Subset
<1> QED
  BY <1>1, <1>2, <1>3, OneRequest

LEMMA NoneCounted ==
  ASSUME NEW S, IsFiniteSet(S)
  PROVE  Cardinality(S) \in Nat /\ (Cardinality(S) = 0 => S = {})
BY FS_CardinalityType, FS_EmptySet

LEMMA CountedKinds ==
  /\ "terminal" \in Kinds(Counted) => terminals # {}
  /\ "forward" \in Kinds(Counted) => DOMAIN table # {}
  /\ "write" \in Kinds(Counted) => InFlight # {}
  /\ \A x \in Counted : x[2] \in {"terminal", "forward", "write"}
BY DEF Kinds, Counted

LEMMA FewerKinds ==
  ASSUME NEW S, NEW T, S \subseteq T
  PROVE  Kinds(S) \subseteq Kinds(T)
BY DEF Kinds

(* A step that leaves the reading where it is. *)
LEMMA SeenStays ==
  ASSUME Seen, Watch, UNCHANGED install
  PROVE  Seen'
<1>1. through' \subseteq through /\ (Reading' => through' \subseteq Counted')
  BY DEF Watch, Seen, Reading
<1>2. Kinds(through') \subseteq Kinds(through)
  BY <1>1, FewerKinds
<1> QED
  BY <1>1, <1>2 DEF Seen, Kinds

LEMMA AppInitInv == AppInit => AppInv
<1> SUFFICES ASSUME AppInit PROVE AppInv
  OBVIOUS
<1>1. Countable
  <2>1. DOMAIN table = {} /\ terminals = {} /\ DOMAIN req = Requests
    BY DEF AppInit, Init
  <2>2. InFlight = {}
    BY DEF AppInit, Init, InFlight, Resting, Writes
  <2> QED
    BY <2>1, <2>2, FS_EmptySet DEF Countable
<1>2. Kept
  BY DEF AppInit, Kept, InstallAt
<1>3. Seen
  BY DEF AppInit, Seen, Reading
<1> QED
  BY <1>1, <1>2, <1>3 DEF AppInv

LEMMA WorkInv == AppInv /\ Work => AppInv'
<1> SUFFICES ASSUME AppInv, Work PROVE AppInv'
  OBVIOUS
<1>1. Next /\ Elsewhere
  BY DEF Work
<1>2. Countable'
  BY <1>1, WorkCountable DEF AppInv, Countable, Elsewhere, here
<1>3. Kept'
  BY <1>1 DEF AppInv, Kept, Elsewhere, upd, InstallAt
<1>4. Seen'
  BY <1>1, SeenStays DEF AppInv, Elsewhere
<1> QED
  BY <1>2, <1>3, <1>4 DEF AppInv

LEMMA TerminalInv ==
  ASSUME AppInv, NEW t \in Terminals, Terminal(t)
  PROVE  AppInv'
<1>1. UNCHANGED vars /\ UNCHANGED upd /\ UNCHANGED install /\ Watch
  BY DEF Terminal
<1>2. Countable'
  <2>1. IsFiniteSet(terminals \cup {t}) /\ IsFiniteSet(terminals \ {t})
    BY FS_AddElement, FS_RemoveElement DEF AppInv, Countable
  <2>2. IsFiniteSet(terminals')
    BY <2>1 DEF Terminal
  <2> QED
    BY <1>1, <2>2 DEF AppInv, Countable, vars, InFlight
<1>3. Kept'
  BY <1>1 DEF AppInv, Kept, upd, InstallAt
<1>4. Seen'
  BY <1>1, SeenStays DEF AppInv
<1> QED
  BY <1>2, <1>3, <1>4 DEF AppInv

LEMMA CheckInv == AppInv /\ CheckSteps /\ Watch => AppInv'
<1> SUFFICES ASSUME AppInv, CheckSteps, Watch PROVE AppInv'
  OBVIOUS
<1>1. UNCHANGED vars /\ UNCHANGED here /\ UNCHANGED install
  BY DEF CheckSteps, BeginCheck, FinishCheck
<1>2. Countable'
  BY <1>1 DEF AppInv, Countable, vars, here, InFlight
<1>3. Kept'
  <2>1. PICK c \in Checkers : BeginCheck(c) \/ FinishCheck(c)
    BY DEF CheckSteps
  <2>2. CASE BeginCheck(c)
    BY <2>2 DEF AppInv, Kept, BeginCheck, InstallAt
  <2>3. CASE FinishCheck(c)
    BY <2>3 DEF AppInv, Kept, FinishCheck, InstallAt
  <2> QED
    BY <2>1, <2>2, <2>3
<1>4. Seen'
  BY <1>1, SeenStays DEF AppInv
<1> QED
  BY <1>2, <1>3, <1>4 DEF AppInv

(* A reading that goes on: it may have counted one more set, which was not empty. *)
LEMMA SeenGoes ==
  ASSUME Seen, Watch, NEW kind, NEW n \in Nat,
         install' = [pc |-> install'.pc, seen |-> install.seen + n],
         Reading, Reading', n = 0 => kind \notin Kinds(Counted'),
         install'.pc \in {"forwards", "writes", "answered"} =>
           kind = "terminal" \/ install.pc \in {"forwards", "writes", "answered"},
         install'.pc \in {"writes", "answered"} => kind = "forward" \/ install.pc \in {"writes", "answered"},
         install'.pc = "answered" => kind = "write" \/ install.pc = "answered"
  PROVE  Seen'
<1>1. through' \subseteq through /\ through' \subseteq Counted'
  BY DEF Watch, Seen
<1>2. Kinds(through') \subseteq Kinds(through) /\ Kinds(through') \subseteq Kinds(Counted')
  BY <1>1, FewerKinds
<1>3. install.seen \in Nat /\ install'.seen = install.seen + n
  BY DEF Seen
<1>4. install'.seen \in Nat /\ (install'.seen = 0 => install.seen = 0 /\ n = 0)
  BY <1>3
<1>5. Kinds(through)' = Kinds(through')
  BY DEF Kinds
<1> QED
  BY <1>1, <1>2, <1>4, <1>5 DEF Seen

LEMMA InstallInv == AppInv /\ InstallSteps /\ Watch => AppInv'
<1> SUFFICES ASSUME AppInv, InstallSteps, Watch PROVE AppInv'
  OBVIOUS
<1>1. UNCHANGED vars /\ UNCHANGED <<terminals, status, checking>> /\ Countable /\ Kept /\ Seen
  BY DEF InstallSteps, AppInv
<1>2. Countable'
  BY <1>1 DEF Countable, vars, InFlight
<1>3. Counted' = Counted
  BY <1>1 DEF Counted, vars, InFlight
<1>4. CASE Ask
  <2>1. install'.pc = "terminals" /\ install'.seen = install.seen /\ pending' = pending /\ ~ Reading
    BY <1>4 DEF Ask, Go, InstallAt, Reading, Seen, AppInv
  <2>2. Kept'
    BY <1>1, <1>4, <2>1 DEF Kept, InstallAt, Ask
  <2>3. through' = Counted'
    BY <2>1 DEF Watch, Reading
  <2> QED
    BY <1>1, <1>2, <2>1, <2>2, <2>3 DEF AppInv, Seen
<1>5. CASE ReadTerminals
  <2>1. /\ install.pc = "terminals" /\ install'.pc = "forwards" /\ pending' = pending
        /\ install' = [pc |-> install'.pc, seen |-> install.seen + Cardinality(terminals)]
    BY <1>5 DEF ReadTerminals, Go, InstallAt
  <2>2. Cardinality(terminals) \in Nat /\ (Cardinality(terminals) = 0 => "terminal" \notin Kinds(Counted'))
    BY <1>1, <1>3, NoneCounted, CountedKinds DEF Countable
  <2>3. Reading /\ Reading'
    BY <2>1 DEF Reading
  <2>4. Seen'
    BY <1>1, <2>1, <2>2, <2>3, SeenGoes
  <2>5. Kept'
    BY <1>1, <2>1 DEF Kept, InstallAt
  <2> QED
    BY <1>2, <2>4, <2>5 DEF AppInv
<1>6. CASE ReadForwards
  <2>1. /\ install.pc = "forwards" /\ install'.pc = "writes" /\ pending' = pending
        /\ install' = [pc |-> install'.pc, seen |-> install.seen + Cardinality(DOMAIN table)]
    BY <1>6 DEF ReadForwards, Go, InstallAt
  <2>2. Cardinality(DOMAIN table) \in Nat /\ (Cardinality(DOMAIN table) = 0 => "forward" \notin Kinds(Counted'))
    BY <1>1, <1>3, NoneCounted, CountedKinds DEF Countable
  <2>3. Reading /\ Reading'
    BY <2>1 DEF Reading
  <2>4. Seen'
    BY <1>1, <2>1, <2>2, <2>3, SeenGoes
  <2>5. Kept'
    BY <1>1, <2>1 DEF Kept, InstallAt
  <2> QED
    BY <1>2, <2>4, <2>5 DEF AppInv
<1>7. CASE ReadWrites
  <2>1. /\ install.pc = "writes" /\ install'.pc = "answered" /\ pending' = pending
        /\ install' = [pc |-> install'.pc, seen |-> install.seen + Cardinality(InFlight)]
    BY <1>7 DEF ReadWrites, Go, InstallAt
  <2>2. Cardinality(InFlight) \in Nat /\ (Cardinality(InFlight) = 0 => "write" \notin Kinds(Counted'))
    BY <1>1, <1>3, NoneCounted, CountedKinds DEF Countable
  <2>3. Reading /\ Reading'
    BY <2>1 DEF Reading
  <2>4. Seen'
    BY <1>1, <2>1, <2>2, <2>3, SeenGoes
  <2>5. Kept'
    BY <1>1, <2>1 DEF Kept, InstallAt
  <2> QED
    BY <1>2, <2>4, <2>5 DEF AppInv
<1>8. CASE AskFails \/ Refused \/ TakePending \/ InstallFails \/ Restart
  <2>1. install'.pc \in {"idle", "installing"} /\ install'.seen \in Nat
    BY <1>1, <1>8 DEF AskFails, Refused, TakePending, InstallFails, Restart, Back, InstallAt, Seen
  <2>2. Seen'
    BY <2>1 DEF Seen, Reading
  <2>3. Kept'
    BY <1>1, <1>8 DEF Kept, AskFails, Refused, TakePending, InstallFails, Restart, Back, InstallAt, Reading
  <2> QED
    BY <1>2, <2>2, <2>3 DEF AppInv
<1> QED
  BY <1>4, <1>5, <1>6, <1>7, <1>8 DEF InstallSteps

LEMMA AppNextInv == AppInv /\ [AppNext]_appVars => AppInv'
<1> SUFFICES ASSUME AppInv, [AppNext]_appVars PROVE AppInv'
  OBVIOUS
<1>1. CASE UNCHANGED appVars
  BY <1>1 DEF appVars, vars, here, upd, AppInv, Countable, Kept, Seen, InstallAt, Reading, Counted, InFlight, Kinds
<1> QED
  BY <1>1, WorkInv, TerminalInv, CheckInv, InstallInv DEF AppNext

LEMMA AppInvAlways == AppSpec => []AppInv
BY AppInitInv, AppNextInv, PTL DEF AppSpec

LEMMA AppIsForwards ==
  /\ AppInit => Init
  /\ [AppNext]_appVars => [Next]_vars
<1>1. AppInit => Init
  BY DEF AppInit
<1>2. Work => Next
  BY DEF Work
<1>3. \A t \in Terminals : Terminal(t) => UNCHANGED vars
  BY DEF Terminal
<1>4. CheckSteps \/ InstallSteps => UNCHANGED vars
  BY DEF CheckSteps, InstallSteps
<1>5. UNCHANGED appVars => UNCHANGED vars
  BY DEF appVars
<1> HIDE DEF vars, appVars
<1> QED
  BY <1>1, <1>2, <1>3, <1>4, <1>5 DEF AppNext

(* The types of what Updater adds. *)
AppTypes ==
  /\ terminals \subseteq Terminals
  /\ {engine, pending, quiet} \subseteq BOOLEAN
  /\ app \in {"none", "running", "restarted"}
  /\ status \in {"unavailable", "idle", "checking", "ready", "reported"}
  /\ checking \subseteq Checkers
  /\ install.pc \in {"idle", "terminals", "forwards", "writes", "answered", "installing"}
  /\ install.seen \in Nat

LEMMA AppTypesNext == AppTypes /\ Seen' /\ [AppNext]_appVars => AppTypes'
<1> SUFFICES ASSUME AppTypes, Seen', [AppNext]_appVars PROVE AppTypes'
  OBVIOUS
<1>1. Watch => quiet' \in BOOLEAN
  BY DEF Watch
<1>2. install'.seen \in Nat
  BY DEF Seen
<1>3. CASE Work
  BY <1>1, <1>2, <1>3 DEF Work, Elsewhere, here, upd, AppTypes
<1>4. ASSUME NEW t \in Terminals, Terminal(t) PROVE AppTypes'
  BY <1>1, <1>2, <1>4 DEF Terminal, upd, AppTypes
<1>5. CASE CheckSteps /\ Watch
  BY <1>1, <1>2, <1>5 DEF CheckSteps, BeginCheck, FinishCheck, here, AppTypes
<1>6. CASE InstallSteps /\ Watch
  <2>1. /\ terminals' = terminals /\ status' = status /\ checking' = checking
        /\ engine' \in BOOLEAN /\ pending' \in BOOLEAN /\ app' \in {"none", "running", "restarted"}
    BY <1>6 DEF AppTypes, InstallSteps, Ask, ReadTerminals, ReadForwards, ReadWrites, AskFails, Refused,
                TakePending, InstallFails, Restart
  <2>2. install'.pc \in {"idle", "terminals", "forwards", "writes", "answered", "installing"}
    BY <1>6 DEF AppTypes, InstallSteps, Ask, ReadTerminals, ReadForwards, ReadWrites, AskFails, Refused,
                TakePending, InstallFails, Restart, Go, Back, InstallAt
  <2> QED
    BY <1>1, <1>2, <1>6, <2>1, <2>2 DEF AppTypes
<1>7. CASE UNCHANGED appVars
  BY <1>2, <1>7 DEF appVars, here, upd, AppTypes
<1> QED
  BY <1>3, <1>4, <1>5, <1>6, <1>7 DEF AppNext

(* Every variable of the engine and the app always has its type, if the clock moves
   between two starts. *)
THEOREM AppTypeCorrect == CoarseClock = FALSE /\ AppSpec => []AppTypeOK
<1> SUFFICES ASSUME CoarseClock = FALSE PROVE AppSpec => []AppTypeOK
  OBVIOUS
<1>1. AppInit => AppTypes
  <2> SUFFICES ASSUME AppInit PROVE AppTypes
    OBVIOUS
  <2>1. engine = TRUE /\ pending = FALSE /\ quiet = FALSE
    BY DEF AppInit
  <2>2. {engine, pending, quiet} \subseteq BOOLEAN
    BY <2>1, Zenon
  <2>3. install.pc = "idle" /\ install.seen = 0 /\ terminals = {} /\ checking = {}
    BY DEF AppInit
  <2>4. app \in {"none", "running"} /\ status \in {"unavailable", "idle"}
    BY DEF AppInit
  <2> QED
    BY <2>2, <2>3, <2>4 DEF AppTypes
<1>2. TypeOK /\ AppTypes => AppTypeOK
  BY DEF AppTypes, AppTypeOK
<1>3. Inv => TypeOK
  BY DEF Inv
<1>4. AppInv => Seen
  BY DEF AppInv
<1> QED
  BY <1>1, <1>2, <1>3, <1>4, AppIsForwards, AppTypesNext, AppInvAlways, InitInv, NextInv, PTL DEF AppSpec

(* The desktop app leaves it to the engine which forwards end: with its checks and
   installs around them, each is still found and stopped, by who may. *)
THEOREM AppStopsForwards == CoarseClock = FALSE /\ AppSpec => [](StillStoppable /\ OnlyTheirOwn)
<1> SUFFICES ASSUME CoarseClock = FALSE PROVE AppSpec => [](StillStoppable /\ OnlyTheirOwn)
  OBVIOUS
<1>1. Inv => StillStoppable /\ OnlyTheirOwn
  BY DEF Inv
<1> QED
  BY <1>1, AppIsForwards, InitInv, NextInv, PTL DEF AppSpec

(* run_update_check, take_pending and put-back: a ready update is there, or being
   installed, with any number of commands that check beside the timer. *)
THEOREM ReadyUpdateStands == AppSpec => []UpdateKept
<1>1. AppInv => UpdateKept
  <2> SUFFICES ASSUME AppInv PROVE UpdateKept
    OBVIOUS
  <2>1. Cardinality(checking) <= 1
    <3>1. CASE checking = {}
      BY <3>1, FS_EmptySet
    <3>2. CASE checking # {}
      <4>1. PICK c : c \in checking
        BY <3>2
      <4>2. checking = {c}
        BY <4>1 DEF AppInv, Kept
      <4>3. Cardinality({c}) = 1
        BY FS_Singleton
      <4> QED
        BY <4>2, <4>3
    <3> QED
      BY <3>1, <3>2
  <2> QED
    BY <2>1 DEF AppInv, Kept, UpdateKept
<1> QED
  BY <1>1, AppInvAlways, PTL

(* install_update goes on over nothing that was in flight from its question to the
   answer, although the three counts are read one after the other. *)
THEOREM InstallWaitsForWork == AppSpec => HeldWorkBlocks
<1>1. AppInv /\ [AppNext]_appVars => [TakePending => through = {}]_appVars
  <2> SUFFICES ASSUME AppInv, TakePending PROVE through = {}
    OBVIOUS
  <2>1. install.pc = "answered" /\ install.seen = 0 /\ through \subseteq Counted
    BY DEF AppInv, Seen, TakePending, InstallAt, Reading
  <2>2. \A x \in through : x[2] \notin {"terminal", "forward", "write"}
    BY <2>1 DEF AppInv, Seen, Kinds
  <2> QED
    BY <2>1, <2>2, CountedKinds
<1> QED
  BY <1>1, AppInvAlways, PTL DEF AppSpec, HeldWorkBlocks

=============================================================================
