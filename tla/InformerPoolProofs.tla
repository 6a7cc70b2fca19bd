-------------------------- MODULE InformerPoolProofs --------------------------
(***************************************************************************)
(* Theorems about InformerPool, for any finite set of keys, any            *)
(* subscriptions and any bounds, and about HistoryStore, for any engines,  *)
(* hours, namespaces and workloads and any bounds.                         *)
(***************************************************************************)
EXTENDS InformerPool, HistoryStore, SequenceTheorems, FiniteSetTheorems, TLAPS

-----------------------------------------------------------------------------
(* InformerPool: the inductive invariant *)

Closing ==
  /\ closer.left \subseteq Made /\ closer.at \in {0} \cup Made
  /\ closer.at \notin closer.left
  /\ closer.pc = "end" <=> closer.at # 0
  /\ closer.todo # {} => closer.pc = "end"
  /\ ~ closed => closer.left = {} /\ closer.pc = "idle"

(* Who has yet to stop entry e: nobody while it is in the pool; the handler, or
   Close, that took it out; and afterwards nobody. *)
Owner(e) ==
  /\ e \in entries <=> entry[e].left = "no"
  /\ entry[e].left = "closed" => closed
  /\ handler[e].owned <=> entry[e].left = "forbidden" /\ entry[e].stops = 0
  /\ (e \in closer.left \/ e = closer.at) <=> entry[e].left = "closed" /\ entry[e].stops = 0
  /\ entry[e].left = "no" => entry[e].stops = 0
  /\ entry[e].left = "swept" => entry[e].stops = 1
  /\ entry[e].stops <= 1
  /\ handler[e].owned => handler[e].pc # "idle"
  /\ entry[e].left = "forbidden" => entry[e].failed \/ handler[e].pc = "mark"

(* Subscription s is in entry e only if e is in the pool or s hears of its end. *)
Hears(s, e) ==
  (s \in entry[e].subs /\ entry[e].left # "no") =>
    \/ Told(s, e)
    \/ e \in sub[s].late /\ entry[e].left # "forbidden"

(* Entries are numbered as they are made, and a subscription joins one that was. *)
Numbered == \E n \in 0 .. MaxEntries : Made = 1 .. n
InMade   == \A s \in Subs : sub[s].pc \in {"append", "join"} => sub[s].at \in Made

Inv ==
  /\ TypeOK /\ Closing /\ Numbered /\ InMade
  /\ \A e \in Made : Owner(e)
  /\ \A e \in Made, s \in Subs : Hears(s, e)

Handling == [pc : {"idle", "mark", "tell"}, owned : BOOLEAN, todo : SUBSET Subs,
             calls : 0 .. MaxForbids]

LEMMA InitInv == Init => Inv
<1> SUFFICES ASSUME Init PROVE Inv
  OBVIOUS
<1>1. Made = {}
  BY DEF Init, Made
<1>2. TypeOK
  <2>1. entry \in [Made -> Entry] /\ handler \in [Made -> Handling]
    BY <1>1 DEF Init
  <2>2. NewSub \in Sub
    BY DEF NewSub, Sub
  <2> QED
    BY <1>1, <2>1, <2>2 DEF Init, TypeOK, Handling
<1>3. Numbered
  <2>1. Made = 1 .. 0
    BY <1>1
  <2> QED
    BY <2>1, BoundsNat DEF Numbered
<1> QED
  BY <1>1, <1>2, <1>3 DEF Init, Inv, Closing, InMade, NewSub

(* What is made next is new. *)
LEMMA NextNumber ==
  ASSUME Numbered
  PROVE  /\ Cardinality(Made) + 1 \notin Made
         /\ Made \cup {Cardinality(Made) + 1} = 1 .. (Cardinality(Made) + 1)
         /\ Cardinality(Made) \in Nat
<1>1. PICK n \in 0 .. MaxEntries : Made = 1 .. n
  BY DEF Numbered
<1>2. n \in Nat
  BY BoundsNat
<1>3. Cardinality(Made) = n
  BY <1>1, <1>2, FS_Interval
<1> QED
  BY <1>1, <1>2, <1>3

(* end changes nothing but that it has begun. *)
LEMMA EndBegunIs ==
  ASSUME sub \in [Subs -> Sub], NEW s \in Subs
  PROVE  /\ EndBegun(s) \in [Subs -> Sub]
         /\ EndBegun(s)[s].end # "no"
         /\ \A t \in Subs :
              /\ t # s => EndBegun(s)[t] = sub[t]
              /\ EndBegun(s)[t].pc = sub[t].pc /\ EndBegun(s)[t].at = sub[t].at
              /\ EndBegun(s)[t].refused = sub[t].refused /\ EndBegun(s)[t].late = sub[t].late
              /\ sub[t].end # "no" => EndBegun(s)[t].end # "no"
<1>1. CASE sub[s].end # "no"
  BY <1>1 DEF EndBegun
<1>2. CASE sub[s].end = "no"
  <2> DEFINE f == [sub EXCEPT ![s].end = "leaving", ![s].leaving = sub[s].has]
  <2>1. EndBegun(s) = f
    BY <1>2 DEF EndBegun
  <2>2. sub[s] \in Sub
    OBVIOUS
  <2>3. f[s] = [sub[s] EXCEPT !.end = "leaving", !.leaving = sub[s].has]
    OBVIOUS
  <2>4. /\ f[s] \in Sub /\ f[s].end = "leaving"
        /\ f[s].pc = sub[s].pc /\ f[s].at = sub[s].at
        /\ f[s].refused = sub[s].refused /\ f[s].late = sub[s].late
    BY <2>2, <2>3 DEF Sub
  <2>5. \A t \in Subs : t # s => f[t] = sub[t]
    OBVIOUS
  <2>6. f \in [Subs -> Sub]
    BY <2>4, <2>5
  <2> HIDE DEF f
  <2> QED
    BY <2>1, <2>4, <2>5, <2>6
<1> QED
  BY <1>1, <1>2

-----------------------------------------------------------------------------
(* Steps of the subscriptions *)

(* A step of a subscription, or of whoever ends it, that takes back nothing it was told. *)
LEMMA SubInv ==
  ASSUME Inv, UNCHANGED <<closed, entries, entry, closer, handler>>,
         sub' \in [Subs -> Sub], InMade',
         \A s \in Subs : /\ sub[s].end # "no" => sub'[s].end # "no"
                         /\ sub[s].refused \subseteq sub'[s].refused
                         /\ sub[s].late \subseteq sub'[s].late
  PROVE  Inv'
<1>1. Made' = Made
  BY DEF Made
<1>2. TypeOK' /\ Numbered' /\ Closing'
  BY <1>1 DEF Inv, TypeOK, Numbered, Closing
<1>3. \A e \in Made : Owner(e)'
  BY DEF Inv, Owner
<1>4. \A e \in Made, s \in Subs : Hears(s, e)'
  <2> SUFFICES ASSUME NEW e \in Made, NEW s \in Subs, (s \in entry[e].subs /\ entry[e].left # "no")
               PROVE  Told(s, e)' \/ (e \in sub'[s].late /\ entry[e].left # "forbidden")
    BY DEF Hears
  <2>1. Told(s, e) \/ (e \in sub[s].late /\ entry[e].left # "forbidden")
    BY DEF Inv, Hears
  <2> QED
    BY <2>1 DEF Told
<1> QED
  BY <1>1, <1>2, <1>3, <1>4 DEF Inv

LEMMA SubStepInv ==
  ASSUME Inv, NEW s \in Subs,
         \/ Subscribe(s) \/ FetchFails(s) \/ AppendSub(s) \/ Opened(s) \/ Cancel(s)
         \/ Unsubscribe(s) \/ Ended(s) \/ CloseEnd(s)
  PROVE  Inv'
<1>1. sub \in [Subs -> Sub] /\ sub[s] \in Sub /\ InMade /\ Made \subseteq Ids
  BY DEF Inv, TypeOK
<1>2. UNCHANGED <<closed, entries, entry, closer, handler>>
  BY DEF Subscribe, FetchFails, AppendSub, Opened, Cancel, Unsubscribe, Ended, CloseEnd
<1>3. Made' = Made
  BY <1>2 DEF Made
<1>4. ASSUME NEW v \in Sub, sub' = [sub EXCEPT ![s] = v],
             sub[s].end # "no" => v.end # "no",
             v.refused = sub[s].refused, v.late = sub[s].late,
             v.pc \in {"append", "join"} => v.at \in Made
      PROVE  Inv'
  <2>1. sub' \in [Subs -> Sub] /\ sub'[s] = v /\ \A t \in Subs : t # s => sub'[t] = sub[t]
    BY <1>1, <1>4
  <2>2. InMade'
    BY <1>1, <1>3, <1>4, <2>1 DEF InMade
  <2> QED
    BY <1>2, <1>4, <2>1, <2>2, SubInv
<1>5. CASE Subscribe(s)
  <2>1. PICK want \in SUBSET Keys \ {{}} :
          sub' = [sub EXCEPT ![s].pc = "fetch", ![s].want = want, ![s].expect = Cardinality(want)]
    BY <1>5 DEF Subscribe
  <2>2. Cardinality(want) \in Nat
    BY KeysFinite, FS_Subset, FS_CardinalityType
  <2> DEFINE v == [sub[s] EXCEPT !.pc = "fetch", !.want = want, !.expect = Cardinality(want)]
  <2>3. v \in Sub /\ v.end = sub[s].end /\ v.refused = sub[s].refused /\ v.late = sub[s].late /\ v.pc = "fetch"
    BY <1>1, <2>2 DEF Sub
  <2>4. sub' = [sub EXCEPT ![s] = v]
    BY <1>1, <2>1
  <2> HIDE DEF v
  <2> QED
    BY <1>4, <2>3, <2>4
<1>6. CASE AppendSub(s)
  <2> DEFINE v == [sub[s] EXCEPT !.pc = "join", !.has = @ \cup {sub[s].at}]
  <2>1. sub[s].at \in Made
    BY <1>1, <1>6 DEF AppendSub, InMade
  <2>2. v \in Sub /\ v.end = sub[s].end /\ v.refused = sub[s].refused /\ v.late = sub[s].late /\ v.at = sub[s].at
    BY <1>1, <2>1 DEF Sub
  <2>3. sub' = [sub EXCEPT ![s] = v]
    BY <1>1, <1>6 DEF AppendSub
  <2> HIDE DEF v
  <2> QED
    BY <1>4, <2>1, <2>2, <2>3
<1>7. CASE Opened(s)
  <2> DEFINE v == [sub[s] EXCEPT !.pc = "open"]
  <2>1. v \in Sub /\ v.end = sub[s].end /\ v.refused = sub[s].refused /\ v.late = sub[s].late /\ v.pc = "open"
    BY <1>1 DEF Sub
  <2>2. sub' = [sub EXCEPT ![s] = v]
    BY <1>1, <1>7 DEF Opened
  <2> HIDE DEF v
  <2> QED
    BY <1>4, <2>1, <2>2
<1>8. CASE Cancel(s)
  <2> DEFINE v == [sub[s] EXCEPT !.cancelled = TRUE]
  <2>1. v \in Sub /\ v.end = sub[s].end /\ v.refused = sub[s].refused /\ v.late = sub[s].late
        /\ v.pc = sub[s].pc /\ v.at = sub[s].at
    BY <1>1 DEF Sub
  <2>2. sub' = [sub EXCEPT ![s] = v]
    BY <1>1, <1>8 DEF Cancel
  <2> HIDE DEF v
  <2> QED
    BY <1>1, <1>4, <2>1, <2>2 DEF InMade
<1>9. CASE Ended(s)
  <2> DEFINE v == [sub[s] EXCEPT !.end = "done"]
  <2>1. v \in Sub /\ v.end = "done" /\ v.refused = sub[s].refused /\ v.late = sub[s].late
        /\ v.pc = sub[s].pc /\ v.at = sub[s].at
    BY <1>1 DEF Sub
  <2>2. sub' = [sub EXCEPT ![s] = v]
    BY <1>1, <1>9 DEF Ended
  <2> HIDE DEF v
  <2> QED
    BY <1>1, <1>4, <2>1, <2>2 DEF InMade
<1> DEFINE b == EndBegun(s)
<1>10. /\ b \in [Subs -> Sub] /\ b[s] \in Sub /\ b[s].end # "no"
       /\ b[s].pc = sub[s].pc /\ b[s].at = sub[s].at
       /\ b[s].refused = sub[s].refused /\ b[s].late = sub[s].late
       /\ \A t \in Subs : t # s => b[t] = sub[t]
  BY <1>1, EndBegunIs
<1> HIDE DEF b
<1>11. b = [sub EXCEPT ![s] = b[s]]
  BY <1>1, <1>10
<1>12. CASE CloseEnd(s)
  <2>1. sub' = b
    BY <1>12 DEF CloseEnd, b
  <2> QED
    BY <1>1, <1>4, <1>10, <1>11, <2>1 DEF InMade
<1>13. CASE FetchFails(s) \/ Unsubscribe(s)
  <2> DEFINE v == [b[s] EXCEPT !.pc = "returned"]
  <2>1. sub' = [b EXCEPT ![s].pc = "returned"]
    BY <1>13 DEF FetchFails, Unsubscribe, b
  <2>2. v \in Sub /\ v.end = b[s].end /\ v.refused = b[s].refused /\ v.late = b[s].late /\ v.pc = "returned"
    BY <1>10 DEF Sub
  <2>3. sub' = [sub EXCEPT ![s] = v]
    BY <1>1, <1>10, <1>11, <2>1
  <2> HIDE DEF v
  <2> QED
    BY <1>4, <1>10, <2>2, <2>3
<1> QED
  BY <1>5, <1>6, <1>7, <1>8, <1>9, <1>12, <1>13

(* entryFor finds an entry that was made, or makes the next. *)
LEMMA FetchInv ==
  ASSUME Inv, NEW s \in Subs, NEW k \in Keys, Fetch(s, k)
  PROVE  Inv'
<1> TypeOK /\ Closing /\ Numbered /\ InMade
  BY DEF Inv
<1>1. sub \in [Subs -> Sub] /\ sub[s] \in Sub /\ Made \subseteq Ids
  BY DEF TypeOK
<1>2. ASSUME NEW e \in Ids, sub' = [sub EXCEPT ![s].pc = "append", ![s].at = e, ![s].want = @ \ {k}]
      PROVE  /\ sub' \in [Subs -> Sub]
             /\ sub'[s].at = e
             /\ \A t \in Subs : t # s => sub'[t] = sub[t]
             /\ \A t \in Subs : /\ sub'[t].end = sub[t].end
                                /\ sub'[t].refused = sub[t].refused
                                /\ sub'[t].late = sub[t].late
  <2> DEFINE v == [sub[s] EXCEPT !.pc = "append", !.at = e, !.want = @ \ {k}]
  <2>1. v \in Sub /\ v.end = sub[s].end /\ v.refused = sub[s].refused /\ v.late = sub[s].late /\ v.at = e
    BY <1>1 DEF Sub
  <2>2. sub' = [sub EXCEPT ![s] = v]
    BY <1>1, <1>2
  <2> HIDE DEF v
  <2>3. sub' \in [Subs -> Sub] /\ sub'[s] = v /\ \A t \in Subs : t # s => sub'[t] = sub[t]
    BY <1>1, <2>1, <2>2
  <2> QED
    BY <2>1, <2>3
<1>3. ASSUME NEW e \in entries, sub' = [sub EXCEPT ![s].pc = "append", ![s].at = e, ![s].want = @ \ {k}],
             UNCHANGED <<closed, entries, entry, closer, handler>>
      PROVE  Inv'
  <2>1. e \in Made /\ e \in Ids
    BY <1>1 DEF TypeOK
  <2>2. Made' = Made
    BY <1>3 DEF Made
  <2>3. /\ sub' \in [Subs -> Sub]
        /\ \A t \in Subs : sub'[t].end = sub[t].end /\ sub'[t].refused = sub[t].refused /\ sub'[t].late = sub[t].late
        /\ sub'[s].at = e /\ \A t \in Subs : t # s => sub'[t] = sub[t]
    BY <1>2, <1>3, <2>1
  <2>4. InMade'
    BY <2>1, <2>2, <2>3 DEF InMade
  <2> QED
    BY <1>3, <2>3, <2>4, SubInv
<1> DEFINE fresh == [key |-> k, subs |-> {}, recent |-> FALSE, failed |-> FALSE, left |-> "no", stops |-> 0]
<1>4. ASSUME NEW e \in Ids, e = Cardinality(Made) + 1, entries' = entries \cup {e},
             entry' = [d \in Made \cup {e} |-> IF d = e THEN fresh ELSE entry[d]],
             handler' = [d \in Made \cup {e} |-> IF d = e THEN Resting ELSE handler[d]],
             sub' = [sub EXCEPT ![s].pc = "append", ![s].at = e, ![s].want = @ \ {k}],
             UNCHANGED <<closed, closer>>, ~ closed
      PROVE  Inv'
  <2>1. e \notin Made /\ Made \cup {e} = 1 .. e /\ e \in Nat \ {0}
    BY <1>4, NextNumber
  <2>2. fresh \in Entry /\ Resting \in Handling
    BY BoundsNat DEF Entry, Resting, Handling
  <2>3. Made' = Made \cup {e}
    BY <1>4 DEF Made
  <2>4. \A d \in Made : entry'[d] = entry[d] /\ handler'[d] = handler[d] /\ entry[d] \in Entry /\ handler[d] \in Handling
    BY <1>4, <2>1 DEF TypeOK, Handling
  <2>5. entry'[e] = fresh /\ handler'[e] = Resting
    BY <1>4
  <2>6. entry' \in [Made' -> Entry] /\ handler' \in [Made' -> Handling]
    BY <1>4, <2>2, <2>3, <2>4
  <2>7. /\ sub' \in [Subs -> Sub]
        /\ \A t \in Subs : sub'[t].end = sub[t].end /\ sub'[t].refused = sub[t].refused /\ sub'[t].late = sub[t].late
        /\ sub'[s].at = e /\ \A t \in Subs : t # s => sub'[t] = sub[t]
    BY <1>2, <1>4
  <2>7a. InMade'
    BY <2>3, <2>7 DEF InMade
  <2>8. TypeOK'
    BY <1>1, <1>4, <2>3, <2>6, <2>7 DEF TypeOK, Handling
  <2>9. Numbered'
    BY <1>4, <2>1, <2>3 DEF Numbered, Ids
  <2>10. Closing'
    BY <1>4, <2>3 DEF Closing
  <2>11. \A d \in Made : Owner(d)'
    BY <1>4, <2>1, <2>4 DEF Inv, Owner
  <2>12. Owner(e)'
    <3>1. e \in entries' /\ entry'[e].left = "no" /\ entry'[e].stops = 0
      BY <1>4, <2>5
    <3>2. ~ handler'[e].owned
      BY <2>5 DEF Resting
    <3>3. e \notin closer'.left /\ e # closer'.at
      BY <1>4, <2>1 DEF Closing
    <3> QED
      BY <3>1, <3>2, <3>3 DEF Owner
  <2>13. \A d \in Made', t \in Subs : Hears(t, d)'
    <3> SUFFICES ASSUME NEW d \in Made', NEW t \in Subs, t \in entry'[d].subs, entry'[d].left # "no"
                 PROVE  Told(t, d)' \/ (d \in sub'[t].late /\ entry'[d].left # "forbidden")
      BY DEF Hears
    <3>1. d \in Made
      BY <2>3, <2>5
    <3>2. Told(t, d) \/ (d \in sub[t].late /\ entry[d].left # "forbidden")
      BY <2>4, <3>1 DEF Inv, Hears
    <3> QED
      BY <1>4, <2>4, <2>7, <3>1, <3>2 DEF Told
  <2> QED
    BY <2>3, <2>7a, <2>8, <2>9, <2>10, <2>11, <2>12, <2>13 DEF Inv
<1>5. \/ \E d \in entries :
           /\ sub' = [sub EXCEPT ![s].pc = "append", ![s].at = d, ![s].want = @ \ {k}]
           /\ UNCHANGED <<closed, entries, entry, closer, handler>>
      \/ \E e \in Ids :
         /\ e = Cardinality(Made) + 1 /\ entries' = entries \cup {e}
         /\ entry' = [d \in Made \cup {e} |-> IF d = e THEN fresh ELSE entry[d]]
         /\ handler' = [d \in Made \cup {e} |-> IF d = e THEN Resting ELSE handler[d]]
         /\ sub' = [sub EXCEPT ![s].pc = "append", ![s].at = e, ![s].want = @ \ {k}]
         /\ UNCHANGED <<closed, closer>> /\ ~ closed
  BY Zenon DEF Fetch
<1> HIDE DEF fresh
<1> QED
  BY <1>3, <1>4, <1>5, Zenon

(* The subscribers, the age or the failure of an entry change: not who stops it. *)
LEMMA OwnerKept ==
  ASSUME Inv, UNCHANGED <<closed, entries, closer>>, NEW e \in Made,
         entry'[e].left = entry[e].left, entry'[e].stops = entry[e].stops,
         entry[e].failed => entry'[e].failed,
         handler'[e].owned = handler[e].owned,
         handler'[e].pc = handler[e].pc \/ (handler[e].pc = "mark" /\ handler'[e].pc = "tell" /\ entry'[e].failed)
  PROVE  Owner(e)'
BY DEF Inv, Owner

LEMMA JoinInv ==
  ASSUME Inv, NEW s \in Subs, Join(s)
  PROVE  Inv'
<1> TypeOK /\ Closing /\ Numbered /\ InMade
  BY DEF Inv
<1> DEFINE e == sub[s].at
           late == IF e \in entries THEN sub[s].late ELSE sub[s].late \cup {e}
           refused == IF entry[e].failed THEN sub[s].refused \cup {e} ELSE sub[s].refused
           all == entry[e].failed /\ e \notin sub[s].refused /\ Cardinality(refused) >= sub[s].expect
           b == IF all THEN EndBegun(s) ELSE sub
           pc == IF all THEN "returned" ELSE "fetch"
<1>1. sub \in [Subs -> Sub] /\ sub[s] \in Sub /\ e \in Made /\ e \in Ids
  BY DEF TypeOK, InMade, Join
<1>2. entry' = [entry EXCEPT ![e].subs = @ \cup {s}, ![e].recent = FALSE]
      /\ UNCHANGED <<closed, entries, closer, handler>>
  BY DEF Join
<1>3. sub' = [b EXCEPT ![s].late = late, ![s].refused = refused, ![s].pc = pc]
  BY DEF Join
<1>4. /\ b \in [Subs -> Sub] /\ b[s] \in Sub
      /\ sub[s].end # "no" => b[s].end # "no"
      /\ \A t \in Subs : t # s => b[t] = sub[t]
  BY <1>1, EndBegunIs
<1>5. late \in SUBSET Ids /\ refused \in SUBSET Ids /\ sub[s].late \subseteq late /\ sub[s].refused \subseteq refused
  BY <1>1 DEF Sub
<1>6. e \notin entries => e \in late
  OBVIOUS
<1>7. entry[e].failed => e \in refused
  OBVIOUS
<1>8. pc \in {"returned", "fetch"}
  OBVIOUS
<1> HIDE DEF late, refused, all, b, pc
<1> DEFINE v == [b[s] EXCEPT !.late = late, !.refused = refused, !.pc = pc]
<1>9. v \in Sub /\ v.late = late /\ v.refused = refused /\ v.pc = pc /\ v.end = b[s].end
  BY <1>4, <1>5, <1>8 DEF Sub
<1>10. sub' = [b EXCEPT ![s] = v]
  BY <1>3, <1>4
<1> HIDE DEF v
<1>11. sub' \in [Subs -> Sub] /\ sub'[s] = v /\ \A t \in Subs : t # s => sub'[t] = sub[t]
  BY <1>4, <1>9, <1>10
<1>12. entry[e] \in Entry
  BY <1>1 DEF TypeOK
<1> HIDE DEF e
<1> DEFINE w == [entry[e] EXCEPT !.subs = @ \cup {s}, !.recent = FALSE]
<1>13. w \in Entry /\ w.subs = entry[e].subs \cup {s} /\ w.left = entry[e].left
       /\ w.stops = entry[e].stops /\ w.failed = entry[e].failed
  BY <1>12 DEF Entry
<1>14. entry' = [entry EXCEPT ![e] = w]
  BY <1>1, <1>2 DEF TypeOK
<1> HIDE DEF w
<1>15. Made' = Made /\ entry' \in [Made -> Entry] /\ entry'[e] = w /\ \A d \in Made : d # e => entry'[d] = entry[d]
  BY <1>1, <1>13, <1>14 DEF TypeOK, Made
<1>16. TypeOK'
  BY <1>2, <1>11, <1>15 DEF TypeOK
<1>17. Closing' /\ Numbered'
  BY <1>2, <1>15 DEF Closing, Numbered
<1>18. InMade'
  BY <1>8, <1>9, <1>11, <1>15 DEF InMade
<1>19. \A d \in Made : Owner(d)'
  BY <1>2, <1>13, <1>15, OwnerKept
<1>20. \A d \in Made, t \in Subs : Hears(t, d)'
  <2> SUFFICES ASSUME NEW d \in Made, NEW t \in Subs, t \in entry'[d].subs, entry'[d].left # "no"
               PROVE  Told(t, d)' \/ (d \in sub'[t].late /\ entry'[d].left # "forbidden")
    BY DEF Hears
  <2>0. entry[d].left # "no" /\ entry'[d].left = entry[d].left
    BY <1>13, <1>15
  <2>1. CASE d = e /\ t = s
    <3>1. e \notin entries /\ e \in sub'[s].late
      BY <1>1, <1>6, <1>9, <1>11, <2>0, <2>1 DEF Inv, Owner
    <3>2. entry[e].left = "forbidden" => e \in sub'[s].refused \/ handler[e].pc = "mark"
      BY <1>1, <1>7, <1>9, <1>11 DEF Inv, Owner
    <3> QED
      BY <1>2, <2>0, <2>1, <3>1, <3>2 DEF Told
  <2>2. CASE ~ (d = e /\ t = s)
    <3>1. t \in entry[d].subs
      BY <1>13, <1>15, <2>2
    <3>2. Told(t, d) \/ (d \in sub[t].late /\ entry[d].left # "forbidden")
      BY <2>0, <3>1 DEF Inv, Hears
    <3>3. /\ sub[t].end # "no" => sub'[t].end # "no"
          /\ sub[t].refused \subseteq sub'[t].refused
          /\ sub[t].late \subseteq sub'[t].late
      BY <1>4, <1>5, <1>9, <1>11
    <3> QED
      BY <1>2, <2>0, <3>2, <3>3 DEF Told
  <2> QED
    BY <2>1, <2>2
<1> QED
  BY <1>15, <1>16, <1>17, <1>18, <1>19, <1>20 DEF Inv

(* An entry's field changes, and subscriptions keep what they were told. *)
LEMMA EntryInv ==
  ASSUME Inv, UNCHANGED <<closed, entries, closer>>, NEW e \in Made, NEW w \in Entry,
         entry' = [entry EXCEPT ![e] = w],
         w.left = entry[e].left, w.stops = entry[e].stops, w.subs \subseteq entry[e].subs,
         entry[e].failed => w.failed,
         sub' \in [Subs -> Sub], InMade',
         \A s \in Subs : /\ sub[s].end # "no" => sub'[s].end # "no"
                         /\ sub[s].refused \subseteq sub'[s].refused
                         /\ sub[s].late \subseteq sub'[s].late,
         handler' \in [Made -> Handling],
         \A d \in Made : /\ handler'[d].owned = handler[d].owned
                         /\ \/ handler'[d] = handler[d]
                            \/ /\ d = e /\ handler[d].pc = "mark" /\ handler'[d].pc = "tell" /\ w.failed
                               /\ entry[e].subs \subseteq handler'[d].todo
                            \/ /\ d = e /\ handler[d].pc = "tell" /\ handler'[d].pc = "tell"
                               /\ \A s \in handler[d].todo : s \in handler'[d].todo \/ e \in sub'[s].refused
  PROVE  Inv'
<1> TypeOK /\ Closing /\ Numbered /\ InMade
  BY DEF Inv
<1>1. Made' = Made /\ entry' \in [Made -> Entry] /\ entry'[e] = w /\ \A d \in Made : d # e => entry'[d] = entry[d]
  BY DEF TypeOK, Made
<1>2. TypeOK'
  BY <1>1 DEF TypeOK, Handling
<1>3. Closing' /\ Numbered'
  BY <1>1 DEF Closing, Numbered
<1>4. \A d \in Made : Owner(d)'
  <2> SUFFICES ASSUME NEW d \in Made PROVE Owner(d)'
    OBVIOUS
  <2>1. /\ entry'[d].left = entry[d].left /\ entry'[d].stops = entry[d].stops
        /\ entry[d].failed => entry'[d].failed
    BY <1>1
  <2> QED
    BY <1>1, <2>1, OwnerKept
<1>5. \A d \in Made, t \in Subs : Hears(t, d)'
  <2> SUFFICES ASSUME NEW d \in Made, NEW t \in Subs, t \in entry'[d].subs, entry'[d].left # "no"
               PROVE  Told(t, d)' \/ (d \in sub'[t].late /\ entry'[d].left # "forbidden")
    BY DEF Hears
  <2>1. t \in entry[d].subs /\ entry[d].left # "no" /\ entry'[d].left = entry[d].left
    BY <1>1
  <2>2. Told(t, d) \/ (d \in sub[t].late /\ entry[d].left # "forbidden")
    BY <2>1 DEF Inv, Hears
  <2>3. /\ sub[t].end # "no" => sub'[t].end # "no"
        /\ d \in sub[t].refused => d \in sub'[t].refused
        /\ d \in sub[t].late => d \in sub'[t].late
    OBVIOUS
  <2>4. \/ handler'[d] = handler[d]
        \/ d = e /\ handler[d].pc = "mark" /\ entry[e].subs \subseteq handler'[d].todo
        \/ /\ d = e /\ handler[d].pc = "tell"
           /\ \A s \in handler[d].todo : s \in handler'[d].todo \/ e \in sub'[s].refused
    OBVIOUS
  <2>5. (t \in handler[d].todo \/ handler[d].pc = "mark") =>
          (t \in handler'[d].todo \/ handler'[d].pc = "mark" \/ d \in sub'[t].refused)
    BY <2>1, <2>4
  <2> QED
    BY <2>1, <2>2, <2>3, <2>5 DEF Told
<1> QED
  BY <1>1, <1>2, <1>3, <1>4, <1>5 DEF Inv

LEMMA LeaveInv ==
  ASSUME Inv, NEW e \in Made, (\E s \in Subs : Leave(s, e)) \/ Age(e)
  PROVE  Inv'
<1>1. /\ UNCHANGED <<closed, entries, closer, handler>>
      /\ entry \in [Made -> Entry] /\ entry[e] \in Entry /\ handler \in [Made -> Handling]
      /\ sub \in [Subs -> Sub] /\ InMade
  BY DEF Leave, Age, Inv, TypeOK, Handling
<1>2. ASSUME NEW w \in Entry, entry' = [entry EXCEPT ![e] = w],
             w.left = entry[e].left, w.stops = entry[e].stops, w.failed = entry[e].failed,
             w.subs \subseteq entry[e].subs,
             sub' \in [Subs -> Sub],
             \A t \in Subs : /\ sub'[t].end = sub[t].end /\ sub'[t].refused = sub[t].refused
                             /\ sub'[t].late = sub[t].late
                             /\ sub'[t].pc = sub[t].pc /\ sub'[t].at = sub[t].at
      PROVE  Inv'
  <2>1. InMade'
    BY <1>1, <1>2 DEF InMade, Made
  <2> QED
    BY <1>1, <1>2, <2>1, EntryInv
<1>3. ASSUME NEW s \in Subs, Leave(s, e) PROVE Inv'
  <2> DEFINE w == [entry[e] EXCEPT !.subs = @ \ {s}, !.recent = IF entry[e].subs \subseteq {s} THEN TRUE ELSE @]
             v == [sub[s] EXCEPT !.leaving = @ \ {e}]
  <2>1. w \in Entry /\ w.left = entry[e].left /\ w.stops = entry[e].stops
        /\ w.failed = entry[e].failed /\ w.subs = entry[e].subs \ {s}
    BY <1>1 DEF Entry
  <2>2. v \in Sub /\ v.end = sub[s].end /\ v.refused = sub[s].refused /\ v.late = sub[s].late
        /\ v.pc = sub[s].pc /\ v.at = sub[s].at
    BY <1>1 DEF Sub
  <2>3. entry' = [entry EXCEPT ![e] = w] /\ sub' = [sub EXCEPT ![s] = v]
    BY <1>1, <1>3 DEF Leave
  <2> HIDE DEF w, v
  <2>4. sub' \in [Subs -> Sub] /\ sub'[s] = v /\ \A t \in Subs : t # s => sub'[t] = sub[t]
    BY <1>1, <2>2, <2>3
  <2>5. \A t \in Subs : /\ sub'[t].end = sub[t].end /\ sub'[t].refused = sub[t].refused
                        /\ sub'[t].late = sub[t].late
                        /\ sub'[t].pc = sub[t].pc /\ sub'[t].at = sub[t].at
    BY <2>2, <2>4
  <2>6. w.subs \subseteq entry[e].subs
    BY <2>1
  <2> QED
    BY <1>2, <2>1, <2>3, <2>4, <2>5, <2>6
<1>4. CASE Age(e)
  <2> DEFINE w == [entry[e] EXCEPT !.recent = FALSE]
  <2>1. w \in Entry /\ w.left = entry[e].left /\ w.stops = entry[e].stops
        /\ w.failed = entry[e].failed /\ w.subs = entry[e].subs
    BY <1>1 DEF Entry
  <2>2. entry' = [entry EXCEPT ![e] = w] /\ sub' = sub
    BY <1>1, <1>4 DEF Age
  <2> HIDE DEF w
  <2> QED
    BY <1>1, <1>2, <2>1, <2>2
<1> QED
  BY <1>3, <1>4

-----------------------------------------------------------------------------
(* Those that take an entry out of the pool *)

(* Subscriptions and who is in which entry stay; every entry still has its owner. *)
LEMMA StopperInv ==
  ASSUME Inv, UNCHANGED sub, Closing',
         closed' \in BOOLEAN, entries' \subseteq Made, entry' \in [Made -> Entry], handler' \in [Made -> Handling],
         closer' \in [pc : {"idle", "next", "end"}, at : {0} \cup Ids, left : SUBSET Ids, todo : SUBSET Subs],
         \A e \in Made : entry'[e].subs = entry[e].subs /\ Owner(e)',
         \A e \in Made, s \in Subs :
           (s \in entry[e].subs /\ entry'[e].left # "no") =>
             \/ Told(s, e)'
             \/ e \in sub[s].late /\ entry'[e].left # "forbidden"
  PROVE  Inv'
<1>1. Made' = Made
  BY DEF Made
<1>2. TypeOK' /\ Numbered' /\ InMade'
  BY <1>1 DEF Inv, TypeOK, Numbered, InMade, Handling
<1>3. \A e \in Made, s \in Subs : Hears(s, e)'
  BY DEF Hears
<1> QED
  BY <1>1, <1>2, <1>3 DEF Inv

LEMMA SweepInv ==
  ASSUME Inv, NEW e \in Made, Sweep(e)
  PROVE  Inv'
<1> TypeOK /\ Closing /\ Owner(e) /\ \A d \in Made : Owner(d)
  BY DEF Inv
<1> DEFINE w == [entry[e] EXCEPT !.left = "swept", !.stops = @ + 1]
<1>1. entry[e] \in Entry /\ e \in entries /\ entry[e].left = "no" /\ entry[e].stops = 0 /\ entry[e].subs = {}
  BY DEF TypeOK, Sweep, Owner
<1>2. w \in Entry /\ w.left = "swept" /\ w.stops = 1 /\ w.subs = {}
  <2>1. entry[e].stops + 1 = 1 /\ 1 \in 0 .. 2 /\ "swept" \in {"no"} \cup Ways
    BY <1>1 DEF Ways
  <2>2. entry[e] \in Entry /\ entry[e].subs = {}
    BY <1>1
  <2>3. w = [entry[e] EXCEPT !.left = "swept", !.stops = 1]
    BY <2>1, <2>2 DEF Entry
  <2> HIDE DEF w
  <2> QED
    BY <2>1, <2>2, <2>3 DEF Entry
<1>3. entry' = [entry EXCEPT ![e] = w]
  BY DEF Sweep, TypeOK
<1> HIDE DEF w
<1>4. entry' \in [Made -> Entry] /\ entry'[e] = w /\ \A d \in Made : d # e => entry'[d] = entry[d]
  BY <1>2, <1>3 DEF TypeOK
<1>5. UNCHANGED <<closed, sub, closer, handler>> /\ entries' = entries \ {e}
  BY DEF Sweep
<1>6. Closing'
  BY <1>4, <1>5 DEF Closing, Made, TypeOK
<1>7. \A d \in Made : entry'[d].subs = entry[d].subs
  BY <1>1, <1>2, <1>4
<1>8. Owner(e)'
  BY <1>1, <1>2, <1>4, <1>5 DEF Owner
<1>9. \A d \in Made : d # e => Owner(d)'
  BY <1>4, <1>5 DEF Owner
<1>10. \A d \in Made, s \in Subs :
         (s \in entry[d].subs /\ entry'[d].left # "no") =>
           Told(s, d)' \/ (d \in sub[s].late /\ entry'[d].left # "forbidden")
  <2> SUFFICES ASSUME NEW d \in Made, NEW s \in Subs, s \in entry[d].subs, entry'[d].left # "no"
               PROVE  Told(s, d)' \/ (d \in sub[s].late /\ entry'[d].left # "forbidden")
    OBVIOUS
  <2>1. d # e /\ entry'[d] = entry[d]
    BY <1>1, <1>4
  <2>2. Told(s, d) \/ (d \in sub[s].late /\ entry[d].left # "forbidden")
    BY <2>1 DEF Inv, Hears
  <2> QED
    BY <1>5, <2>1, <2>2 DEF Told
<1>11. /\ closed' \in BOOLEAN /\ entries' \subseteq Made /\ handler' \in [Made -> Handling]
       /\ closer' \in [pc : {"idle", "next", "end"}, at : {0} \cup Ids, left : SUBSET Ids, todo : SUBSET Subs]
  BY <1>5 DEF TypeOK, Handling
<1> QED
  BY <1>4, <1>5, <1>6, <1>7, <1>8, <1>9, <1>10, <1>11, StopperInv

(* The error handler takes the entry out, if it is still in. *)
LEMMA ForbidInv ==
  ASSUME Inv, NEW e \in Made, Forbid(e)
  PROVE  Inv'
<1> TypeOK /\ Closing /\ \A d \in Made : Owner(d)
  BY DEF Inv
<1> DEFINE w == IF e \in entries THEN [entry[e] EXCEPT !.left = "forbidden"] ELSE entry[e]
           h == [pc |-> "mark", owned |-> e \in entries, todo |-> {}, calls |-> handler[e].calls + 1]
<1>1. entry[e] \in Entry /\ handler[e] \in Handling /\ handler[e].pc = "idle" /\ ~ handler[e].owned
  BY DEF TypeOK, Handling, Forbid, Owner
<1>2. w \in Entry /\ w.subs = entry[e].subs /\ w.stops = entry[e].stops
      /\ w.left = (IF e \in entries THEN "forbidden" ELSE entry[e].left)
  BY <1>1 DEF Entry, Ways
<1>3. h \in Handling /\ h.pc = "mark" /\ h.owned = (e \in entries)
  <2>1. handler[e].calls + 1 \in 0 .. MaxForbids
    BY <1>1, BoundsNat DEF Forbid, Handling
  <2> QED
    BY <2>1 DEF Handling
<1>4. entry' = [entry EXCEPT ![e] = w] /\ handler' = [handler EXCEPT ![e] = h]
  BY DEF Forbid, TypeOK
<1> HIDE DEF w, h
<1>5. /\ entry' \in [Made -> Entry] /\ entry'[e] = w /\ \A d \in Made : d # e => entry'[d] = entry[d]
      /\ handler' \in [Made -> Handling] /\ handler'[e] = h /\ \A d \in Made : d # e => handler'[d] = handler[d]
  BY <1>2, <1>3, <1>4 DEF TypeOK, Handling
<1>6. UNCHANGED <<closed, sub, closer>> /\ entries' = entries \ {e}
  BY DEF Forbid
<1>7. Closing'
  BY <1>5, <1>6 DEF Closing, Made, TypeOK
<1>8. \A d \in Made : entry'[d].subs = entry[d].subs
  BY <1>2, <1>5
<1>9. Owner(e)'
  <2>1. Owner(e)
    OBVIOUS
  <2>2. CASE e \in entries
    BY <1>1, <1>2, <1>3, <1>5, <1>6, <2>1, <2>2 DEF Owner
  <2>3. CASE e \notin entries
    <3>1. w = entry[e]
      BY <2>3 DEF w
    <3> QED
      BY <1>1, <1>3, <1>5, <1>6, <2>1, <2>3, <3>1, ZenonT(60) DEF Owner
  <2> QED
    BY <2>2, <2>3
<1>10. \A d \in Made : d # e => Owner(d)'
  BY <1>5, <1>6 DEF Owner
<1>11. \A d \in Made, s \in Subs :
         (s \in entry[d].subs /\ entry'[d].left # "no") =>
           Told(s, d)' \/ (d \in sub[s].late /\ entry'[d].left # "forbidden")
  <2> SUFFICES ASSUME NEW d \in Made, NEW s \in Subs, s \in entry[d].subs, entry'[d].left # "no"
               PROVE  Told(s, d)' \/ (d \in sub[s].late /\ entry'[d].left # "forbidden")
    OBVIOUS
  <2>1. CASE d = e
    BY <1>3, <1>5, <2>1 DEF Told
  <2>2. CASE d # e
    <3>1. entry'[d] = entry[d] /\ handler'[d] = handler[d]
      BY <1>5, <2>2
    <3>2. Told(s, d) \/ (d \in sub[s].late /\ entry[d].left # "forbidden")
      BY <3>1 DEF Inv, Hears
    <3> QED
      BY <1>6, <3>1, <3>2 DEF Told
  <2> QED
    BY <2>1, <2>2
<1>12. /\ closed' \in BOOLEAN /\ entries' \subseteq Made
       /\ closer' \in [pc : {"idle", "next", "end"}, at : {0} \cup Ids, left : SUBSET Ids, todo : SUBSET Subs]
  BY <1>6 DEF TypeOK
<1> QED
  BY <1>5, <1>6, <1>7, <1>8, <1>9, <1>10, <1>11, <1>12, StopperInv

(* It marks the entry and tells its subscribers. *)
LEMMA ForbidToldInv ==
  ASSUME Inv, NEW e \in Made, ForbidMark(e) \/ \E s \in Subs : ForbidTell(e, s)
  PROVE  Inv'
<1>1. /\ UNCHANGED <<closed, entries, closer>>
      /\ entry \in [Made -> Entry] /\ entry[e] \in Entry
      /\ handler \in [Made -> Handling] /\ handler[e] \in Handling
      /\ sub \in [Subs -> Sub] /\ InMade
  BY DEF ForbidMark, ForbidTell, Inv, TypeOK, Handling
<1>2. CASE ForbidMark(e)
  <2> DEFINE w == [entry[e] EXCEPT !.failed = TRUE]
             h == [handler[e] EXCEPT !.pc = "tell", !.todo = entry[e].subs]
  <2>1. w \in Entry /\ w.left = entry[e].left /\ w.stops = entry[e].stops /\ w.failed /\ w.subs = entry[e].subs
    BY <1>1 DEF Entry
  <2>2. h \in Handling /\ h.pc = "tell" /\ h.owned = handler[e].owned /\ h.todo = entry[e].subs
    BY <1>1 DEF Handling, Entry
  <2>3. entry' = [entry EXCEPT ![e] = w] /\ handler' = [handler EXCEPT ![e] = h] /\ sub' = sub
        /\ handler[e].pc = "mark"
    BY <1>1, <1>2 DEF ForbidMark
  <2> HIDE DEF w, h
  <2>4. handler' \in [Made -> Handling] /\ handler'[e] = h /\ \A d \in Made : d # e => handler'[d] = handler[d]
    BY <1>1, <2>2, <2>3
  <2>5. InMade'
    BY <1>1, <2>3 DEF InMade, Made
  <2>6. \A d \in Made : /\ handler'[d].owned = handler[d].owned
                        /\ \/ handler'[d] = handler[d]
                           \/ /\ d = e /\ handler[d].pc = "mark" /\ handler'[d].pc = "tell" /\ w.failed
                              /\ entry[e].subs \subseteq handler'[d].todo
    BY <2>1, <2>2, <2>3, <2>4
  <2> QED
    BY <1>1, <2>1, <2>3, <2>4, <2>5, <2>6, EntryInv
<1>3. ASSUME NEW s \in Subs, ForbidTell(e, s) PROVE Inv'
  <2> DEFINE first == e \notin sub[s].refused
             all == first /\ Cardinality(sub[s].refused \cup {e}) >= sub[s].expect
             b == IF all THEN EndBegun(s) ELSE sub
             h == [handler[e] EXCEPT !.todo = @ \ {s}]
  <2>1. sub' = [b EXCEPT ![s].refused = @ \cup {e}] /\ handler[e].pc = "tell" /\ entry' = entry
        /\ handler' = [handler EXCEPT ![e].todo = @ \ {s}]
    BY <1>3 DEF ForbidTell
  <2>2. handler' = [handler EXCEPT ![e] = h]
    BY <1>1, <2>1
  <2>3. h \in Handling /\ h.pc = "tell" /\ h.owned = handler[e].owned /\ h.todo = handler[e].todo \ {s}
    BY <1>1, <2>1 DEF Handling
  <2>4. /\ b \in [Subs -> Sub] /\ b[s] \in Sub
        /\ sub[s].end # "no" => b[s].end # "no"
        /\ b[s].pc = sub[s].pc /\ b[s].at = sub[s].at /\ b[s].refused = sub[s].refused /\ b[s].late = sub[s].late
        /\ \A t \in Subs : t # s => b[t] = sub[t]
    BY <1>1, EndBegunIs
  <2> HIDE DEF first, all, b, h
  <2> DEFINE v == [b[s] EXCEPT !.refused = @ \cup {e}]
  <2>5. e \in Ids
    BY DEF Inv, TypeOK
  <2>6. v \in Sub /\ v.refused = b[s].refused \cup {e} /\ v.end = b[s].end /\ v.late = b[s].late
        /\ v.pc = b[s].pc /\ v.at = b[s].at
    BY <2>4, <2>5 DEF Sub
  <2>7. sub' = [b EXCEPT ![s] = v]
    BY <2>1, <2>4
  <2> HIDE DEF v
  <2>8. sub' \in [Subs -> Sub] /\ sub'[s] = v /\ \A t \in Subs : t # s => sub'[t] = sub[t]
    BY <2>4, <2>6, <2>7
  <2>9. InMade'
    BY <1>1, <2>1, <2>4, <2>6, <2>8 DEF InMade, Made
  <2>10. handler' \in [Made -> Handling] /\ handler'[e] = h /\ \A d \in Made : d # e => handler'[d] = handler[d]
    BY <1>1, <2>2, <2>3
  <2>11. \A t \in Subs : /\ sub[t].end # "no" => sub'[t].end # "no"
                         /\ sub[t].refused \subseteq sub'[t].refused
                         /\ sub[t].late \subseteq sub'[t].late
    BY <2>4, <2>6, <2>8
  <2>12. e \in sub'[s].refused
    BY <2>6, <2>8
  <2>13. \A d \in Made : /\ handler'[d].owned = handler[d].owned
                         /\ \/ handler'[d] = handler[d]
                            \/ /\ d = e /\ handler[d].pc = "tell" /\ handler'[d].pc = "tell"
                               /\ \A t \in handler[d].todo : t \in handler'[d].todo \/ e \in sub'[t].refused
    BY <2>1, <2>3, <2>10, <2>12
  <2>14. entry' = [entry EXCEPT ![e] = entry[e]]
    BY <1>1, <2>1
  <2> QED
    BY <1>1, <2>8, <2>9, <2>10, <2>11, <2>13, <2>14, EntryInv, ZenonT(60)
<1> QED
  BY <1>2, <1>3

(* Whoever took the entry out stops it, the handler or Close. *)
LEMMA ForbidStopInv ==
  ASSUME Inv, NEW e \in Made, ForbidStop(e)
  PROVE  Inv'
<1> TypeOK /\ Closing /\ \A d \in Made : Owner(d)
  BY DEF Inv
<1> DEFINE w == IF handler[e].owned THEN [entry[e] EXCEPT !.stops = @ + 1] ELSE entry[e]
           h == [handler[e] EXCEPT !.pc = "idle", !.owned = FALSE]
<1>1. /\ entry[e] \in Entry /\ handler[e] \in Handling /\ handler[e].pc = "tell" /\ handler[e].todo = {}
      /\ handler[e].owned => entry[e].stops = 0
  BY DEF TypeOK, Handling, ForbidStop, Owner
<1>2. w \in Entry /\ w.subs = entry[e].subs /\ w.left = entry[e].left /\ w.failed = entry[e].failed
      /\ w.stops = (IF handler[e].owned THEN 1 ELSE entry[e].stops)
  BY <1>1 DEF Entry
<1>3. h \in Handling /\ h.pc = "idle" /\ ~ h.owned /\ h.todo = {}
  BY <1>1 DEF Handling
<1>4. entry' = [entry EXCEPT ![e] = w] /\ handler' = [handler EXCEPT ![e] = h]
  BY DEF ForbidStop, TypeOK
<1> HIDE DEF w, h
<1>5. /\ entry' \in [Made -> Entry] /\ entry'[e] = w /\ \A d \in Made : d # e => entry'[d] = entry[d]
      /\ handler' \in [Made -> Handling] /\ handler'[e] = h /\ \A d \in Made : d # e => handler'[d] = handler[d]
  BY <1>2, <1>3, <1>4 DEF TypeOK, Handling
<1>6. UNCHANGED <<closed, entries, sub, closer>>
  BY DEF ForbidStop
<1>7. Closing'
  BY <1>5, <1>6 DEF Closing, Made, TypeOK
<1>8. \A d \in Made : entry'[d].subs = entry[d].subs /\ entry'[d].left = entry[d].left
  BY <1>2, <1>5
<1>9. Owner(e)'
  <2>1. Owner(e)
    OBVIOUS
  <2> QED
    BY <1>1, <1>2, <1>3, <1>5, <1>6, <2>1 DEF Owner
<1>10. \A d \in Made : d # e => Owner(d)'
  BY <1>5, <1>6 DEF Owner
<1>11. \A d \in Made, s \in Subs :
         (s \in entry[d].subs /\ entry'[d].left # "no") =>
           Told(s, d)' \/ (d \in sub[s].late /\ entry'[d].left # "forbidden")
  <2> SUFFICES ASSUME NEW d \in Made, NEW s \in Subs, s \in entry[d].subs, entry'[d].left # "no"
               PROVE  Told(s, d)' \/ (d \in sub[s].late /\ entry'[d].left # "forbidden")
    OBVIOUS
  <2>1. Told(s, d) \/ (d \in sub[s].late /\ entry[d].left # "forbidden")
    BY <1>8 DEF Inv, Hears
  <2>2. (s \in handler[d].todo \/ handler[d].pc = "mark") => (s \in handler'[d].todo \/ handler'[d].pc = "mark")
    BY <1>1, <1>5
  <2> QED
    BY <1>6, <1>8, <2>1, <2>2 DEF Told
<1>12. /\ closed' \in BOOLEAN /\ entries' \subseteq Made
       /\ closer' \in [pc : {"idle", "next", "end"}, at : {0} \cup Ids, left : SUBSET Ids, todo : SUBSET Subs]
  BY <1>6 DEF TypeOK
<1> QED
  BY <1>5, <1>6, <1>7, <1>8, <1>9, <1>10, <1>11, <1>12, StopperInv

(* Close takes them all. *)
LEMMA CloseInv ==
  ASSUME Inv, Close
  PROVE  Inv'
<1> TypeOK /\ Closing /\ \A d \in Made : Owner(d)
  BY DEF Inv
<1>1. /\ closed' = TRUE /\ entries' = {} /\ ~ closed /\ UNCHANGED <<sub, handler>>
      /\ closer'.pc = "next" /\ closer'.at = 0 /\ closer'.left = entries /\ closer'.todo = {}
      /\ closer' \in [pc : {"idle", "next", "end"}, at : {0} \cup Ids, left : SUBSET Ids, todo : SUBSET Subs]
  BY DEF Close, TypeOK
<1>2. closer.left = {} /\ closer.at = 0 /\ closer.todo = {}
  BY <1>1 DEF Closing
<1>3. \A d \in Made : entry[d] \in Entry
  BY DEF TypeOK
<1>4. \A d \in Made : [entry[d] EXCEPT !.left = "closed"] \in Entry
  BY <1>3 DEF Entry, Ways
<1>5. entry' = [e \in Made |-> IF e \in entries THEN [entry[e] EXCEPT !.left = "closed"] ELSE entry[e]]
  BY DEF Close
<1>6. entry' \in [Made -> Entry]
  BY <1>3, <1>4, <1>5
<1>7. \A d \in Made : d \notin entries => entry'[d] = entry[d]
  BY <1>5
<1>8. \A d \in Made : d \in entries =>
        /\ entry'[d].left = "closed" /\ entry'[d].subs = entry[d].subs
        /\ entry'[d].stops = entry[d].stops
  <2> SUFFICES ASSUME NEW d \in Made, d \in entries
               PROVE  /\ entry'[d].left = "closed" /\ entry'[d].subs = entry[d].subs
                      /\ entry'[d].stops = entry[d].stops
    OBVIOUS
  <2>1. entry'[d] = [entry[d] EXCEPT !.left = "closed"]
    BY <1>5
  <2> QED
    BY <1>3, <2>1 DEF Entry
<1>9. 0 \notin Made
  BY DEF TypeOK, Ids
<1>10. Closing'
  <2>1. Made' = Made
    BY <1>6 DEF Made
  <2> QED
    BY <1>1, <1>9, <2>1 DEF Closing, TypeOK
<1>11. \A d \in Made : Owner(d)'
  <2> SUFFICES ASSUME NEW d \in Made PROVE Owner(d)'
    OBVIOUS
  <2>0. Owner(d) /\ d # 0
    BY <1>9
  <2>1. CASE d \in entries
    BY <1>1, <1>8, <2>0, <2>1 DEF Owner
  <2>2. CASE d \notin entries
    BY <1>1, <1>2, <1>7, <2>0, <2>2 DEF Owner
  <2> QED
    BY <2>1, <2>2
<1>12. \A d \in Made, s \in Subs :
         (s \in entry[d].subs /\ entry'[d].left # "no") =>
           Told(s, d)' \/ (d \in sub[s].late /\ entry'[d].left # "forbidden")
  <2> SUFFICES ASSUME NEW d \in Made, NEW s \in Subs, s \in entry[d].subs, entry'[d].left # "no"
               PROVE  Told(s, d)' \/ (d \in sub[s].late /\ entry'[d].left # "forbidden")
    OBVIOUS
  <2>1. CASE d \in entries
    BY <1>1, <2>1 DEF Told
  <2>2. CASE d \notin entries
    <3>1. Told(s, d) \/ (d \in sub[s].late /\ entry[d].left # "forbidden")
      BY <1>7, <2>2 DEF Inv, Hears
    <3> QED
      BY <1>1, <1>2, <1>7, <2>2, <3>1 DEF Told
  <2> QED
    BY <2>1, <2>2
<1>13. \A d \in Made : entry'[d].subs = entry[d].subs
  BY <1>7, <1>8
<1>14. /\ closed' \in BOOLEAN /\ entries' \subseteq Made /\ handler' \in [Made -> Handling]
  BY <1>1 DEF TypeOK, Handling
<1> QED
  BY <1>1, <1>6, <1>10, <1>11, <1>12, <1>13, <1>14, StopperInv

(* It goes on to an entry's subscribers, and waits for each of them. *)
LEMMA CloseWaitInv ==
  ASSUME Inv, (\E e \in Made : CloseCopy(e)) \/ \E s \in Subs : CloseEnded(s)
  PROVE  Inv'
<1> TypeOK /\ Closing /\ \A d \in Made : Owner(d)
  BY DEF Inv
<1>1. UNCHANGED <<closed, entries, entry, sub, handler>> /\ Made' = Made
  BY DEF CloseCopy, CloseEnded, Made
<1> DEFINE Waits ==
             /\ closer' \in [pc : {"idle", "next", "end"}, at : {0} \cup Ids, left : SUBSET Ids, todo : SUBSET Subs]
             /\ Closing'
             /\ \A d \in Made : (d \in closer'.left \/ d = closer'.at) <=> (d \in closer.left \/ d = closer.at)
             /\ \A d \in Made, s \in Subs :
                  (s \in entry[d].subs /\ (s \in closer.todo \/ d \in closer.left)) =>
                    s \in closer'.todo \/ d \in closer'.left \/ sub[s].end # "no"
<1>2. Waits
  <2>1. ASSUME NEW e \in Made, CloseCopy(e) PROVE Waits
    <3>1. /\ closer.pc = "next" /\ e \in closer.left /\ e # 0 /\ e \in Ids
          /\ entry[e].subs \in SUBSET Subs
      BY <2>1 DEF CloseCopy, TypeOK, Ids, Entry
    <3>2. closer.at = 0 /\ closer.todo = {} /\ closed
      BY <3>1 DEF Closing
    <3>3. /\ closer'.pc = "end" /\ closer'.at = e /\ closer'.left = closer.left \ {e}
          /\ closer'.todo = entry[e].subs
          /\ closer' \in [pc : {"idle", "next", "end"}, at : {0} \cup Ids, left : SUBSET Ids, todo : SUBSET Subs]
      BY <2>1, <3>1 DEF CloseCopy, TypeOK
    <3>4. Closing'
      BY <1>1, <3>1, <3>2, <3>3 DEF Closing
    <3>5. \A d \in Made : (d \in closer'.left \/ d = closer'.at) <=> (d \in closer.left \/ d = closer.at)
      <4>1. 0 \notin Made
        BY DEF TypeOK, Ids
      <4> QED
        BY <3>1, <3>2, <3>3, <4>1
    <3> QED
      BY <3>2, <3>3, <3>4, <3>5
  <2>2. ASSUME NEW s \in Subs, CloseEnded(s) PROVE Waits
    <3>1. /\ closer'.pc = closer.pc /\ closer'.at = closer.at /\ closer'.left = closer.left
          /\ closer'.todo = closer.todo \ {s} /\ sub[s].end = "done"
          /\ closer' \in [pc : {"idle", "next", "end"}, at : {0} \cup Ids, left : SUBSET Ids, todo : SUBSET Subs]
      BY <2>2 DEF CloseEnded, TypeOK
    <3>2. Closing'
      BY <1>1, <3>1 DEF Closing
    <3> QED
      BY <3>1, <3>2
  <2> QED
    BY <2>1, <2>2
<1>3. \A d \in Made : Owner(d)'
  <2> SUFFICES ASSUME NEW d \in Made PROVE Owner(d)'
    OBVIOUS
  <2>1. Owner(d)
    OBVIOUS
  <2> QED
    BY <1>1, <1>2, <2>1 DEF Owner
<1>4. \A d \in Made, s \in Subs :
        (s \in entry[d].subs /\ entry'[d].left # "no") =>
          Told(s, d)' \/ (d \in sub[s].late /\ entry'[d].left # "forbidden")
  <2> SUFFICES ASSUME NEW d \in Made, NEW s \in Subs, s \in entry[d].subs, entry'[d].left # "no"
               PROVE  Told(s, d)' \/ (d \in sub[s].late /\ entry'[d].left # "forbidden")
    OBVIOUS
  <2>1. Told(s, d) \/ (d \in sub[s].late /\ entry[d].left # "forbidden")
    BY <1>1 DEF Inv, Hears
  <2> QED
    BY <1>1, <1>2, <2>1 DEF Told
<1>5. /\ closed' \in BOOLEAN /\ entries' \subseteq Made /\ entry' \in [Made -> Entry] /\ handler' \in [Made -> Handling]
      /\ \A d \in Made : entry'[d].subs = entry[d].subs
  BY <1>1 DEF TypeOK, Handling
<1> QED
  BY <1>1, <1>2, <1>3, <1>4, <1>5, StopperInv

LEMMA CloseStopInv ==
  ASSUME Inv, NEW e \in Made, CloseStop(e)
  PROVE  Inv'
<1> TypeOK /\ Closing /\ \A d \in Made : Owner(d)
  BY DEF Inv
<1> DEFINE w == [entry[e] EXCEPT !.stops = @ + 1]
<1>1. entry[e] \in Entry /\ e # 0 /\ closer.at = e /\ closer.todo = {} /\ closer.pc = "end"
  BY DEF TypeOK, Ids, CloseStop
<1>2. entry[e].left = "closed" /\ entry[e].stops = 0
  BY <1>1 DEF Owner
<1>3. w \in Entry /\ w.subs = entry[e].subs /\ w.left = "closed" /\ w.stops = 1
  BY <1>1, <1>2 DEF Entry
<1>4. entry' = [entry EXCEPT ![e] = w]
  BY DEF CloseStop, TypeOK
<1> HIDE DEF w
<1>5. entry' \in [Made -> Entry] /\ entry'[e] = w /\ \A d \in Made : d # e => entry'[d] = entry[d]
  BY <1>3, <1>4 DEF TypeOK
<1>6. UNCHANGED <<closed, entries, sub, handler>>
  BY DEF CloseStop
<1>7. /\ closer'.pc = "next" /\ closer'.at = 0 /\ closer'.left = closer.left /\ closer'.todo = {}
      /\ closer' \in [pc : {"idle", "next", "end"}, at : {0} \cup Ids, left : SUBSET Ids, todo : SUBSET Subs]
  BY <1>1 DEF CloseStop, TypeOK
<1>8. 0 \notin Made
  BY DEF TypeOK, Ids
<1>9. Closing'
  <2>1. Made' = Made
    BY <1>5 DEF Made, TypeOK
  <2>2. closed
    BY <1>1 DEF Closing
  <2> QED
    BY <1>6, <1>7, <1>8, <2>1, <2>2 DEF Closing
<1>10. \A d \in Made : entry'[d].subs = entry[d].subs /\ entry'[d].left = entry[d].left
  BY <1>2, <1>3, <1>5
<1>11. Owner(e)'
  <2>1. Owner(e) /\ e \notin closer.left
    BY <1>1 DEF Closing
  <2> QED
    BY <1>1, <1>2, <1>3, <1>5, <1>6, <1>7, <2>1 DEF Owner
<1>12. ASSUME NEW d \in Made, d # e PROVE Owner(d)'
  <2>1. Owner(d) /\ d # 0
    BY <1>8
  <2> QED
    BY <1>1, <1>5, <1>6, <1>7, <1>12, <2>1 DEF Owner
<1>13. \A d \in Made, s \in Subs :
         (s \in entry[d].subs /\ entry'[d].left # "no") =>
           Told(s, d)' \/ (d \in sub[s].late /\ entry'[d].left # "forbidden")
  <2> SUFFICES ASSUME NEW d \in Made, NEW s \in Subs, s \in entry[d].subs, entry'[d].left # "no"
               PROVE  Told(s, d)' \/ (d \in sub[s].late /\ entry'[d].left # "forbidden")
    OBVIOUS
  <2>1. Told(s, d) \/ (d \in sub[s].late /\ entry[d].left # "forbidden")
    BY <1>10 DEF Inv, Hears
  <2> QED
    BY <1>1, <1>6, <1>7, <1>10, <2>1 DEF Told
<1>14. closed' \in BOOLEAN /\ entries' \subseteq Made /\ handler' \in [Made -> Handling]
  BY <1>6 DEF TypeOK, Handling
<1> QED
  BY <1>5, <1>6, <1>7, <1>9, <1>10, <1>11, <1>12, <1>13, <1>14, StopperInv

-----------------------------------------------------------------------------
(* The theorems *)

LEMMA NextInv == Inv /\ [Next]_vars => Inv'
<1> SUFFICES ASSUME Inv, [Next]_vars PROVE Inv'
  OBVIOUS
<1>1. ASSUME NEW s \in Subs, Subscribe(s) \/ SubStep(s) \/ Cancel(s) \/ EndStep(s) PROVE Inv'
  <2>1. CASE Subscribe(s) \/ Cancel(s)
    BY <2>1, SubStepInv
  <2>2. CASE SubStep(s)
    BY <2>2, SubStepInv, FetchInv, JoinInv DEF SubStep
  <2>3. CASE EndStep(s)
    BY <2>3, SubStepInv, LeaveInv DEF EndStep
  <2> QED
    BY <1>1, <2>1, <2>2, <2>3
<1>2. ASSUME NEW e \in Made, Age(e) \/ Sweep(e) \/ Forbid(e) \/ HandlerStep(e) PROVE Inv'
  <2>1. CASE Sweep(e)
    BY <2>1, SweepInv
  <2>2. CASE Forbid(e)
    BY <2>2, ForbidInv
  <2>3. CASE HandlerStep(e)
    BY <2>3, ForbidToldInv, ForbidStopInv DEF HandlerStep
  <2>4. CASE Age(e)
    BY <2>4, LeaveInv
  <2> QED
    BY <1>2, <2>1, <2>2, <2>3, <2>4
<1>3. CASE Close
  BY <1>3, CloseInv
<1>4. CASE CloseStep
  BY <1>4, CloseWaitInv, CloseStopInv, SubStepInv DEF CloseStep
<1>5. CASE UNCHANGED vars
  <2>1. UNCHANGED <<closed, entries, entry, sub, closer, handler>>
    BY <1>5 DEF vars
  <2>2. InMade' /\ sub \in [Subs -> Sub]
    BY <2>1 DEF Inv, InMade, Made, TypeOK
  <2> QED
    BY <2>1, <2>2, SubInv
<1> QED
  BY <1>1, <1>2, <1>3, <1>4, <1>5 DEF Next

LEMMA AlwaysInv == Spec => []Inv
<1> QED
  BY InitInv, NextInv, PTL DEF Spec

(* The pool's entries and the goroutines around them are always what their
   types say, for any number of subscriptions. *)
THEOREM TypeCorrect == Spec => []TypeOK
<1>1. Inv => TypeOK
  BY DEF Inv
<1> QED
  BY <1>1, AlwaysInv, PTL

(* An informer is stopped by the one that took its entry out of the pool, and
   by nobody else, however sweeps, refusals and Close race: its stop channel
   is closed once, and never left to nobody. *)
THEOREM EachStoppedOnce == Spec => []StoppedOnce
<1>1. Inv => StoppedOnce
  <2> SUFFICES ASSUME Inv, NEW e \in Made
               PROVE  /\ entry[e].stops <= 1
                      /\ entry[e].stops = 1 => e \notin entries /\ entry[e].left # "no"
                      /\ e \notin entries /\ entry[e].stops = 0 =>
                           handler[e].owned \/ e \in closer.left \cup {closer.at}
    BY DEF StoppedOnce
  <2>1. Owner(e) /\ entry[e] \in Entry
    BY DEF Inv, TypeOK
  <2>2. entry[e].left \in {"no", "swept", "forbidden", "closed"}
    BY <2>1 DEF Entry, Ways
  <2> QED
    BY <2>1, <2>2 DEF Owner
<1> QED
  BY <1>1, AlwaysInv, PTL

(* A subscription in an entry that leaves the pool is told, or is the one
   that joined it after it had left, of an entry that had not failed. *)
THEOREM NoneGoesSilent == Spec => []NeverSilent
<1>1. Inv => NeverSilent
  BY DEF Inv, Hears, NeverSilent
<1> QED
  BY <1>1, AlwaysInv, PTL

-----------------------------------------------------------------------------
(* What an ended subscription leaves behind: the inductive invariant.  While the
   pool is open a subscription is ended only after its last Join, and end then
   leaves every entry it is in. *)

(* The entries s has joined: the last of its subs only after Join. *)
Joined(s) == IF sub[s].pc = "join" THEN sub[s].has \ {sub[s].at} ELSE sub[s].has

(* s fetches each of its keys once, and so takes no entry twice and no more
   entries than it expects. *)
OncePerKey(s) ==
  /\ sub[s].has \subseteq Made
  /\ sub[s].pc = "new" => sub[s].has = {}
  /\ sub[s].pc = "append" => sub[s].at \notin sub[s].has /\ entry[sub[s].at].key \notin sub[s].want
  /\ sub[s].pc = "join" => sub[s].at \in sub[s].has
  /\ \A d \in sub[s].has : entry[d].key \notin sub[s].want
  /\ sub[s].pc # "new" =>
       Cardinality(sub[s].want) + Cardinality(sub[s].has)
         + (IF sub[s].pc = "append" THEN 1 ELSE 0) <= sub[s].expect

(* Only an entry s joined has it as a subscriber or tells it anything. *)
InJoined(s) ==
  /\ \A e \in Made : s \in entry[e].subs \cup handler[e].todo => e \in Joined(s)
  /\ sub[s].refused \subseteq Joined(s)

AllJoined(s) == sub[s].pc \in {"open", "returned"} \/ (sub[s].pc = "fetch" /\ sub[s].want = {})

Leaving(s) ==
  /\ sub[s].end # "no" =>
       AllJoined(s) /\ \A e \in Made : s \in entry[e].subs => e \in sub[s].leaving
  /\ sub[s].end = "done" => sub[s].leaving = {}

Account(s) == OncePerKey(s) /\ InJoined(s) /\ Leaving(s)

Accounted ==
  /\ Inv
  /\ closed => entries = {}
  /\ ~ closed => \A s \in Subs : Account(s)

LEMMA SubFinite ==
  ASSUME Inv, NEW s \in Subs
  PROVE  /\ sub[s] \in Sub
         /\ IsFiniteSet(sub[s].want) /\ Cardinality(sub[s].want) \in Nat
         /\ IsFiniteSet(sub[s].has) /\ Cardinality(sub[s].has) \in Nat
         /\ sub[s].expect \in Nat
<1>1. sub[s] \in Sub
  BY DEF Inv, TypeOK
<1>2. IsFiniteSet(Ids)
  BY BoundsNat, FS_Interval DEF Ids
<1>3. sub[s].want \in SUBSET Keys /\ sub[s].has \in SUBSET Ids /\ sub[s].expect \in Nat
  BY <1>1 DEF Sub
<1> QED
  BY <1>1, <1>2, <1>3, KeysFinite, FS_Subset, FS_CardinalityType

(* A subscription refused by as many entries as it expects has joined them all. *)
LEMMA FullIsAllJoined ==
  ASSUME Inv, NEW s \in Subs, OncePerKey(s), NEW R \in SUBSET Joined(s), NEW e \in R,
         Cardinality(R) >= sub[s].expect
  PROVE  AllJoined(s)
<1> DEFINE want == sub[s].want
           has == sub[s].has
           expect == sub[s].expect
<1>1. /\ IsFiniteSet(want) /\ Cardinality(want) \in Nat
      /\ IsFiniteSet(has) /\ Cardinality(has) \in Nat /\ expect \in Nat
      /\ sub[s].pc \in {"new", "fetch", "append", "join", "open", "returned"}
  BY SubFinite DEF Sub
<1>2. R \subseteq has /\ e \in has
  BY DEF Joined
<1>3. sub[s].pc # "new"
  BY <1>2 DEF OncePerKey
<1>4. Cardinality(want) + Cardinality(has) + (IF sub[s].pc = "append" THEN 1 ELSE 0) <= expect
  BY <1>3 DEF OncePerKey
<1>5. IsFiniteSet(R) /\ Cardinality(R) \in Nat /\ Cardinality(R) <= Cardinality(has)
  BY <1>1, <1>2, FS_Subset, FS_CardinalityType
<1>6. sub[s].pc # "join"
  <2> SUFFICES ASSUME sub[s].pc = "join" PROVE FALSE
    OBVIOUS
  <2>1. sub[s].at \in has /\ sub[s].at \notin R
    BY DEF OncePerKey, Joined
  <2>2. Cardinality(R) = Cardinality(has) => R = has
    BY <1>1, <1>2, FS_Subset
  <2> HIDE DEF want, has, expect
  <2>3. Cardinality(R) < Cardinality(has)
    BY <1>1, <1>5, <2>1, <2>2
  <2> QED
    BY <1>1, <1>4, <1>5, <2>3 DEF expect
<1> HIDE DEF want, has, expect
<1>7. sub[s].pc # "append" /\ Cardinality(want) = 0
  BY <1>1, <1>4, <1>5 DEF expect
<1>8. want = {}
  BY <1>1, <1>7, FS_EmptySet
<1> QED
  BY <1>1, <1>3, <1>6, <1>7, <1>8 DEF want, AllJoined

(* end copies the subs it leaves. *)
LEMMA EndBegunLeaves ==
  ASSUME sub \in [Subs -> Sub], NEW s \in Subs
  PROVE  /\ EndBegun(s)[s] \in Sub
         /\ EndBegun(s)[s].has = sub[s].has /\ EndBegun(s)[s].want = sub[s].want
         /\ EndBegun(s)[s].expect = sub[s].expect /\ EndBegun(s)[s].pc = sub[s].pc
         /\ EndBegun(s)[s].at = sub[s].at /\ EndBegun(s)[s].refused = sub[s].refused
         /\ sub[s].end # "no" => EndBegun(s)[s].end = sub[s].end
                                 /\ EndBegun(s)[s].leaving = sub[s].leaving
         /\ sub[s].end = "no" => EndBegun(s)[s].end = "leaving"
                                 /\ EndBegun(s)[s].leaving = sub[s].has
<1>1. CASE sub[s].end # "no"
  BY <1>1 DEF EndBegun
<1>2. CASE sub[s].end = "no"
  <2> DEFINE v == [sub[s] EXCEPT !.end = "leaving", !.leaving = sub[s].has]
  <2>1. EndBegun(s)[s] = v
    BY <1>2 DEF EndBegun
  <2>2. sub[s] \in Sub
    OBVIOUS
  <2>3. /\ v \in Sub /\ v.end = "leaving" /\ v.leaving = sub[s].has
        /\ v.has = sub[s].has /\ v.want = sub[s].want /\ v.expect = sub[s].expect
        /\ v.pc = sub[s].pc /\ v.at = sub[s].at /\ v.refused = sub[s].refused
    BY <2>2 DEF Sub
  <2> HIDE DEF v
  <2> QED
    BY <1>2, <2>1, <2>3
<1> QED
  BY <1>1, <1>2

(* A step that lets s be: no entry gets s as a subscriber, or tells it what it
   would not have told it or what it is not a subscriber of. *)
LEMMA AccountKept ==
  ASSUME Inv, NEW s \in Subs, Account(s), sub'[s] = sub[s], Made \subseteq Made',
         \A d \in Made : entry'[d].key = entry[d].key,
         \A d \in Made' : s \in entry'[d].subs => d \in Made /\ s \in entry[d].subs,
         \A d \in Made' : s \in handler'[d].todo => d \in Made /\ s \in entry[d].subs \cup handler[d].todo
  PROVE  Account(s)'
<1>1. Joined(s)' = Joined(s)
  BY DEF Joined
<1>2. OncePerKey(s)'
  <2>1. sub[s].pc = "append" => sub[s].at \in Made
    BY DEF Inv, InMade
  <2> QED
    BY <2>1 DEF Account, OncePerKey
<1>3. InJoined(s)'
  BY <1>1 DEF Account, InJoined
<1>4. Leaving(s)'
  BY DEF Account, Leaving, AllJoined
<1> QED
  BY <1>2, <1>3, <1>4 DEF Account

(* A subscription's own steps that touch no entry. *)
LEMMA OwnStepAccount ==
  ASSUME Inv, NEW s \in Subs, Account(s), ~ closed,
         \/ Subscribe(s) \/ FetchFails(s) \/ AppendSub(s) \/ Opened(s) \/ Cancel(s)
         \/ Unsubscribe(s) \/ Ended(s)
  PROVE  Account(s)'
<1>1. sub \in [Subs -> Sub] /\ sub[s] \in Sub
  BY DEF Inv, TypeOK
<1>2. UNCHANGED <<entry, handler>> /\ Made' = Made
  BY DEF Subscribe, FetchFails, AppendSub, Opened, Cancel, Unsubscribe, Ended, Made
<1>3. CASE Subscribe(s)
  <2>1. PICK want \in SUBSET Keys \ {{}} :
          sub' = [sub EXCEPT ![s].pc = "fetch", ![s].want = want, ![s].expect = Cardinality(want)]
    BY <1>3 DEF Subscribe
  <2>2. Cardinality(want) \in Nat
    BY KeysFinite, FS_Subset, FS_CardinalityType
  <2>3. /\ sub'[s].pc = "fetch" /\ sub'[s].want = want /\ sub'[s].expect = Cardinality(want)
        /\ sub'[s].has = sub[s].has /\ sub'[s].refused = sub[s].refused
        /\ sub'[s].end = sub[s].end /\ sub'[s].leaving = sub[s].leaving
    BY <1>1, <2>1 DEF Sub
  <2>4. sub[s].pc = "new"
    BY <1>3 DEF Subscribe
  <2>5. sub[s].has = {} /\ Joined(s) = {} /\ Joined(s)' = {}
    BY <2>3, <2>4 DEF Account, OncePerKey, Joined
  <2>6. sub[s].end = "no"
    BY <2>4 DEF Account, Leaving, AllJoined
  <2>7. OncePerKey(s)'
    <3>1. Cardinality({}) = 0
      BY FS_EmptySet
    <3> QED
      BY <2>2, <2>3, <2>5, <3>1 DEF OncePerKey
  <2>8. InJoined(s)'
    BY <1>2, <2>3, <2>5 DEF Account, InJoined
  <2>9. Leaving(s)'
    BY <2>3, <2>6 DEF Leaving
  <2> QED
    BY <2>7, <2>8, <2>9 DEF Account
<1>4. CASE AppendSub(s)
  <2>1. /\ sub[s].pc = "append" /\ sub'[s].pc = "join" /\ sub'[s].has = sub[s].has \cup {sub[s].at}
        /\ sub'[s].at = sub[s].at /\ sub'[s].want = sub[s].want /\ sub'[s].expect = sub[s].expect
        /\ sub'[s].refused = sub[s].refused
        /\ sub'[s].end = sub[s].end /\ sub'[s].leaving = sub[s].leaving
    BY <1>1, <1>4 DEF AppendSub, Sub
  <2>2. sub[s].at \in Made /\ sub[s].at \notin sub[s].has /\ entry[sub[s].at].key \notin sub[s].want
    BY <2>1 DEF Account, OncePerKey, Inv, InMade
  <2>3. Joined(s) = sub[s].has /\ Joined(s)' = sub[s].has
    BY <2>1, <2>2 DEF Joined
  <2>4. sub[s].end = "no"
    BY <2>1 DEF Account, Leaving, AllJoined
  <2>5. OncePerKey(s)'
    <3>1. Cardinality(sub'[s].has) = Cardinality(sub[s].has) + 1
      BY <2>1, <2>2, SubFinite, FS_AddElement
    <3>2. Cardinality(sub[s].want) + Cardinality(sub[s].has) + 1 <= sub[s].expect
      BY <2>1 DEF Account, OncePerKey
    <3>3. Cardinality(sub[s].want) \in Nat /\ Cardinality(sub[s].has) \in Nat /\ sub[s].expect \in Nat
      BY SubFinite
    <3>4. Cardinality(sub'[s].want) + Cardinality(sub'[s].has) + 0 <= sub'[s].expect
      BY <2>1, <3>1, <3>2, <3>3
    <3>5. sub'[s].has \subseteq Made /\ \A d \in sub'[s].has : entry[d].key \notin sub[s].want
      BY <2>1, <2>2 DEF Account, OncePerKey
    <3> QED
      BY <1>2, <2>1, <3>4, <3>5 DEF OncePerKey
  <2>6. InJoined(s)'
    BY <1>2, <2>1, <2>3 DEF Account, InJoined
  <2>7. Leaving(s)'
    BY <2>1, <2>4 DEF Leaving
  <2> QED
    BY <2>5, <2>6, <2>7 DEF Account
<1>5. CASE Opened(s)
  <2>1. /\ sub[s].pc = "fetch" /\ sub'[s].pc = "open" /\ sub'[s].has = sub[s].has
        /\ sub'[s].want = sub[s].want /\ sub'[s].expect = sub[s].expect
        /\ sub'[s].refused = sub[s].refused
        /\ sub'[s].end = sub[s].end /\ sub'[s].leaving = sub[s].leaving
    BY <1>1, <1>5 DEF Opened, Sub
  <2>2. Joined(s) = sub[s].has /\ Joined(s)' = sub[s].has
    BY <2>1 DEF Joined
  <2>3. OncePerKey(s)' /\ InJoined(s)'
    BY <1>2, <2>1, <2>2 DEF Account, OncePerKey, InJoined
  <2>4. Leaving(s)'
    BY <1>2, <2>1 DEF Account, Leaving, AllJoined
  <2> QED
    BY <2>3, <2>4 DEF Account
<1>6. CASE Cancel(s) \/ Ended(s)
  <2>1. /\ sub'[s].pc = sub[s].pc /\ sub'[s].has = sub[s].has /\ sub'[s].at = sub[s].at
        /\ sub'[s].want = sub[s].want /\ sub'[s].expect = sub[s].expect
        /\ sub'[s].refused = sub[s].refused /\ sub'[s].leaving = sub[s].leaving
        /\ \/ sub'[s].end = sub[s].end
           \/ sub'[s].end = "done" /\ sub[s].end = "leaving" /\ sub[s].leaving = {}
    BY <1>1, <1>6 DEF Cancel, Ended, Sub
  <2>2. Joined(s)' = Joined(s)
    BY <2>1 DEF Joined
  <2>3. OncePerKey(s)' /\ InJoined(s)'
    BY <1>2, <2>1, <2>2 DEF Account, OncePerKey, InJoined
  <2>4. Leaving(s)'
    BY <1>2, <2>1 DEF Account, Leaving, AllJoined
  <2> QED
    BY <2>3, <2>4 DEF Account
<1>7. CASE Unsubscribe(s)
  <2> DEFINE b == EndBegun(s)
  <2>1. sub' = [b EXCEPT ![s].pc = "returned"] /\ sub[s].pc = "open"
    BY <1>7 DEF Unsubscribe
  <2>2. /\ b \in [Subs -> Sub] /\ b[s] \in Sub
        /\ b[s].has = sub[s].has /\ b[s].want = sub[s].want /\ b[s].expect = sub[s].expect
        /\ b[s].refused = sub[s].refused
        /\ sub[s].end # "no" => b[s].end = sub[s].end /\ b[s].leaving = sub[s].leaving
        /\ sub[s].end = "no" => b[s].end = "leaving" /\ b[s].leaving = sub[s].has
    BY <1>1, EndBegunIs, EndBegunLeaves
  <2> HIDE DEF b
  <2>3. /\ sub'[s].pc = "returned" /\ sub'[s].has = b[s].has /\ sub'[s].want = b[s].want
        /\ sub'[s].expect = b[s].expect /\ sub'[s].refused = b[s].refused
        /\ sub'[s].end = b[s].end /\ sub'[s].leaving = b[s].leaving
    BY <2>1, <2>2 DEF Sub
  <2>4. Joined(s) = sub[s].has /\ Joined(s)' = sub[s].has
    BY <2>1, <2>2, <2>3 DEF Joined
  <2>5. OncePerKey(s)' /\ InJoined(s)'
    BY <1>2, <2>1, <2>2, <2>3, <2>4 DEF Account, OncePerKey, InJoined
  <2>6. Leaving(s)'
    <3>1. \A d \in Made : s \in entry[d].subs => d \in sub'[s].leaving
      BY <2>2, <2>3, <2>4 DEF Account, InJoined, Leaving
    <3>2. sub'[s].end = "done" => sub'[s].leaving = {}
      BY <2>2, <2>3 DEF Account, Leaving
    <3> QED
      BY <1>2, <2>3, <3>1, <3>2 DEF Leaving, AllJoined
  <2> QED
    BY <2>5, <2>6 DEF Account
<1>8. CASE FetchFails(s)
  BY <1>8 DEF FetchFails
<1> QED
  BY <1>3, <1>4, <1>5, <1>6, <1>7, <1>8

LEMMA FetchAccount ==
  ASSUME Inv, NEW s \in Subs, Account(s), NEW k \in Keys, Fetch(s, k)
  PROVE  Account(s)'
<1>1. sub \in [Subs -> Sub] /\ sub[s] \in Sub /\ entries \subseteq Made
  BY DEF Inv, TypeOK
<1>2. \E e \in Ids :
        /\ sub' = [sub EXCEPT ![s].pc = "append", ![s].at = e, ![s].want = @ \ {k}]
        /\ \/ e \in Made /\ entry[e].key = k /\ UNCHANGED <<entry, handler>>
           \/ /\ e \notin Made
              /\ entry' = [d \in Made \cup {e} |->
                             IF d = e THEN [key |-> k, subs |-> {}, recent |-> FALSE, failed |-> FALSE,
                                            left |-> "no", stops |-> 0]
                             ELSE entry[d]]
              /\ handler' = [d \in Made \cup {e} |-> IF d = e THEN Resting ELSE handler[d]]
  <2>1. Cardinality(Made) + 1 \notin Made /\ Made \subseteq Ids
    BY NextNumber DEF Inv, TypeOK
  <2> QED
    BY <1>1, <2>1, Zenon DEF Fetch
<1>3. PICK e \in Ids :
        /\ sub' = [sub EXCEPT ![s].pc = "append", ![s].at = e, ![s].want = @ \ {k}]
        /\ \/ e \in Made /\ entry[e].key = k /\ UNCHANGED <<entry, handler>>
           \/ /\ e \notin Made
              /\ entry' = [d \in Made \cup {e} |->
                             IF d = e THEN [key |-> k, subs |-> {}, recent |-> FALSE, failed |-> FALSE,
                                            left |-> "no", stops |-> 0]
                             ELSE entry[d]]
              /\ handler' = [d \in Made \cup {e} |-> IF d = e THEN Resting ELSE handler[d]]
  BY <1>2
<1>4. /\ Made' = Made \cup {e} /\ entry'[e].key = k
      /\ \A d \in Made : entry'[d] = entry[d] /\ handler'[d] = handler[d]
      /\ e \notin Made => entry'[e].subs = {} /\ handler'[e].todo = {}
  <2>1. CASE e \in Made
    BY <1>3, <2>1 DEF Made
  <2>2. CASE e \notin Made
    <3>1. Made' = Made \cup {e} /\ \A d \in Made : d # e
      BY <1>3, <2>2 DEF Made
    <3>2. entry'[e].key = k /\ entry'[e].subs = {} /\ handler'[e] = Resting
      BY <1>3, <2>2
    <3>3. \A d \in Made : entry'[d] = entry[d] /\ handler'[d] = handler[d]
      BY <1>3, <2>2, <3>1
    <3> QED
      BY <3>1, <3>2, <3>3 DEF Resting
  <2> QED
    BY <2>1, <2>2
<1>5. sub[s].pc = "fetch" /\ k \in sub[s].want
  BY DEF Fetch
<1>6. /\ sub'[s].pc = "append" /\ sub'[s].at = e /\ sub'[s].want = sub[s].want \ {k}
      /\ sub'[s].has = sub[s].has /\ sub'[s].expect = sub[s].expect
      /\ sub'[s].refused = sub[s].refused
      /\ sub'[s].end = sub[s].end /\ sub'[s].leaving = sub[s].leaving
  BY <1>1, <1>3 DEF Sub
<1>7. Joined(s) = sub[s].has /\ Joined(s)' = sub[s].has
  BY <1>5, <1>6 DEF Joined
<1>8. sub[s].end = "no"
  BY <1>5 DEF Account, Leaving, AllJoined
<1>9. OncePerKey(s)'
  <2>1. \A d \in sub[s].has : d \in Made /\ entry[d].key \notin sub[s].want
    BY DEF Account, OncePerKey
  <2>2. e \notin sub[s].has
    BY <1>4, <1>5, <2>1
  <2>3. Cardinality(sub[s].want \ {k}) = Cardinality(sub[s].want) - 1
    BY <1>5, SubFinite, FS_RemoveElement
  <2>4. Cardinality(sub[s].want) + Cardinality(sub[s].has) + 0 <= sub[s].expect
    BY <1>5 DEF Account, OncePerKey
  <2>5. Cardinality(sub[s].want) \in Nat /\ Cardinality(sub[s].has) \in Nat /\ sub[s].expect \in Nat
    BY SubFinite
  <2>6. Cardinality(sub'[s].want) + Cardinality(sub'[s].has) + 1 <= sub'[s].expect
    BY <1>6, <2>3, <2>4, <2>5
  <2>7. \A d \in sub'[s].has : d \in Made' /\ entry'[d].key \notin sub'[s].want
    BY <1>4, <1>6, <2>1
  <2>8. entry'[sub'[s].at].key \notin sub'[s].want
    BY <1>4, <1>6
  <2> QED
    BY <1>6, <2>2, <2>6, <2>7, <2>8 DEF OncePerKey
<1>10. InJoined(s)'
  <2>1. \A d \in Made' : s \in entry'[d].subs \cup handler'[d].todo => d \in sub[s].has
    BY <1>4, <1>7 DEF Account, InJoined
  <2>2. sub'[s].refused \subseteq sub[s].has
    BY <1>6, <1>7 DEF Account, InJoined
  <2> QED
    BY <1>7, <2>1, <2>2 DEF InJoined
<1>11. Leaving(s)'
  BY <1>6, <1>8 DEF Leaving
<1> QED
  BY <1>9, <1>10, <1>11 DEF Account

(* Under the entry's lock: the last Join refused by all ends the subscription,
   which leaves this entry too. *)
LEMMA JoinAccount ==
  ASSUME Inv, NEW s \in Subs, Account(s), Join(s)
  PROVE  Account(s)'
<1> DEFINE e == sub[s].at
           late == IF e \in entries THEN sub[s].late ELSE sub[s].late \cup {e}
           refused == IF entry[e].failed THEN sub[s].refused \cup {e} ELSE sub[s].refused
           all == entry[e].failed /\ e \notin sub[s].refused /\ Cardinality(refused) >= sub[s].expect
           b == IF all THEN EndBegun(s) ELSE sub
           pc == IF all THEN "returned" ELSE "fetch"
<1>1. /\ sub \in [Subs -> Sub] /\ sub[s] \in Sub /\ e \in Made /\ e \in Ids
      /\ entry \in [Made -> Entry] /\ entry[e] \in Entry
  BY DEF Inv, TypeOK, InMade, Join
<1>2. sub[s].pc = "join" /\ e \in sub[s].has
  BY DEF Join, Account, OncePerKey
<1>3. sub[s].end = "no"
  BY <1>2 DEF Account, Leaving, AllJoined
<1>4. /\ entry' = [entry EXCEPT ![e].subs = @ \cup {s}, ![e].recent = FALSE]
      /\ handler' = handler
      /\ sub' = [b EXCEPT ![s].late = late, ![s].refused = refused, ![s].pc = pc]
  BY DEF Join
<1>5. /\ b \in [Subs -> Sub] /\ b[s] \in Sub
      /\ b[s].has = sub[s].has /\ b[s].want = sub[s].want /\ b[s].expect = sub[s].expect
      /\ IF all THEN b[s].end = "leaving" /\ b[s].leaving = sub[s].has
         ELSE b[s].end = "no"
  BY <1>1, <1>3, EndBegunIs, EndBegunLeaves
<1>6. refused \subseteq sub[s].has
  BY <1>2 DEF Account, InJoined, Joined
<1>7. pc = (IF all THEN "returned" ELSE "fetch")
  OBVIOUS
<1>8. Made' = Made /\ \A d \in Made : entry'[d].key = entry[d].key
      /\ (s \in entry'[d].subs => s \in entry[d].subs \/ d = e)
  <2>1. Made' = Made
    BY <1>1, <1>4 DEF Made
  <2>2. \A d \in Made : d # e => entry'[d] = entry[d]
    BY <1>1, <1>4
  <2>3. entry'[e].key = entry[e].key
    BY <1>1, <1>4 DEF Entry
  <2> QED
    BY <2>1, <2>2, <2>3
<1> HIDE DEF late, refused, all, b, pc
<1>9. /\ sub'[s].pc = pc /\ sub'[s].refused = refused /\ sub'[s].has = b[s].has
      /\ sub'[s].want = b[s].want /\ sub'[s].expect = b[s].expect
      /\ sub'[s].end = b[s].end /\ sub'[s].leaving = b[s].leaving
  BY <1>4, <1>5 DEF Sub
<1>10. Joined(s) \subseteq sub[s].has /\ Joined(s)' = sub[s].has
  BY <1>5, <1>7, <1>9 DEF Joined
<1> HIDE DEF e
<1>11. OncePerKey(s)'
  <2>1. Cardinality(sub[s].want) + Cardinality(sub[s].has) + 0 <= sub[s].expect
    BY <1>2 DEF Account, OncePerKey
  <2>2. \A d \in sub[s].has : d \in Made' /\ entry'[d].key \notin sub[s].want
    BY <1>8 DEF Account, OncePerKey
  <2> QED
    BY <1>5, <1>7, <1>9, <2>1, <2>2 DEF OncePerKey
<1>12. \A d \in Made' : s \in entry'[d].subs \cup handler'[d].todo => d \in sub[s].has
  BY <1>2, <1>4, <1>8, <1>10 DEF Account, InJoined
<1>13. InJoined(s)'
  BY <1>6, <1>9, <1>10, <1>12 DEF InJoined
<1>14. Leaving(s)'
  <2>1. CASE all
    BY <1>5, <1>7, <1>9, <1>12, <2>1 DEF Leaving, AllJoined
  <2>2. CASE ~ all
    BY <1>5, <1>9, <2>2 DEF Leaving
  <2> QED
    BY <2>1, <2>2
<1> QED
  BY <1>11, <1>13, <1>14 DEF Account

LEMMA LeaveAccount ==
  ASSUME Inv, NEW s \in Subs, Account(s), NEW e \in Made, Leave(s, e)
  PROVE  Account(s)'
<1>1. /\ sub \in [Subs -> Sub] /\ sub[s] \in Sub /\ entry \in [Made -> Entry] /\ entry[e] \in Entry
  BY DEF Inv, TypeOK
<1>2. /\ sub'[s].pc = sub[s].pc /\ sub'[s].has = sub[s].has /\ sub'[s].at = sub[s].at
      /\ sub'[s].want = sub[s].want /\ sub'[s].expect = sub[s].expect
      /\ sub'[s].refused = sub[s].refused /\ sub'[s].end = sub[s].end
      /\ sub'[s].leaving = sub[s].leaving \ {e}
  BY <1>1 DEF Leave, Sub
<1>3. Made' = Made /\ handler' = handler /\ entry'[e].subs = entry[e].subs \ {s} /\ entry'[e].key = entry[e].key
      /\ \A d \in Made : d # e => entry'[d] = entry[d]
  <2>1. /\ entry' = [entry EXCEPT ![e].subs = @ \ {s},
                                  ![e].recent = IF entry[e].subs \subseteq {s} THEN TRUE ELSE @]
        /\ handler' = handler
    BY DEF Leave
  <2> QED
    BY <1>1, <2>1 DEF Made, Entry
<1>4. Joined(s)' = Joined(s)
  BY <1>2 DEF Joined
<1>5. OncePerKey(s)'
  <2>1. sub[s].pc = "append" => sub[s].at \in Made
    BY DEF Inv, InMade
  <2>2. \A d \in Made : entry'[d].key = entry[d].key
    BY <1>3
  <2> QED
    BY <1>2, <1>3, <2>1, <2>2 DEF Account, OncePerKey
<1>6. InJoined(s)'
  BY <1>2, <1>3, <1>4 DEF Account, InJoined
<1>7. Leaving(s)'
  BY <1>2, <1>3 DEF Account, Leaving, AllJoined
<1> QED
  BY <1>5, <1>6, <1>7 DEF Account

(* refuse: a subscriber all of whose entries refuse it has no Join ahead. *)
LEMMA TellAccount ==
  ASSUME Inv, NEW s \in Subs, Account(s), NEW e \in Made, ForbidTell(e, s)
  PROVE  Account(s)'
<1> DEFINE all == e \notin sub[s].refused /\ Cardinality(sub[s].refused \cup {e}) >= sub[s].expect
           b == IF all THEN EndBegun(s) ELSE sub
<1>1. /\ sub \in [Subs -> Sub] /\ sub[s] \in Sub /\ e \in Ids
      /\ handler \in [Made -> Handling] /\ handler[e] \in Handling
  BY DEF Inv, TypeOK, Handling
<1>2. /\ sub' = [b EXCEPT ![s].refused = @ \cup {e}] /\ entry' = entry
      /\ handler' = [handler EXCEPT ![e].todo = @ \ {s}] /\ s \in handler[e].todo
  BY DEF ForbidTell
<1>3. e \in Joined(s) /\ sub[s].refused \cup {e} \subseteq Joined(s)
  BY <1>2 DEF Account, InJoined
<1>4. all => AllJoined(s)
  <2> SUFFICES ASSUME all PROVE AllJoined(s)
    OBVIOUS
  <2> DEFINE R == sub[s].refused \cup {e}
  <2>1. R \in SUBSET Joined(s) /\ e \in R /\ Cardinality(R) >= sub[s].expect /\ OncePerKey(s)
    BY <1>3 DEF Account
  <2> HIDE DEF R
  <2> QED
    BY <2>1, FullIsAllJoined
<1>5. /\ b \in [Subs -> Sub] /\ b[s] \in Sub
      /\ b[s].has = sub[s].has /\ b[s].want = sub[s].want /\ b[s].expect = sub[s].expect
      /\ b[s].pc = sub[s].pc /\ b[s].at = sub[s].at /\ b[s].refused = sub[s].refused
      /\ \/ b[s].end = sub[s].end /\ b[s].leaving = sub[s].leaving
         \/ all /\ b[s].end = "leaving" /\ b[s].leaving = sub[s].has
  BY <1>1, EndBegunIs, EndBegunLeaves
<1> HIDE DEF all, b
<1>6. /\ sub'[s].pc = sub[s].pc /\ sub'[s].has = sub[s].has /\ sub'[s].at = sub[s].at
      /\ sub'[s].want = sub[s].want /\ sub'[s].expect = sub[s].expect
      /\ sub'[s].refused = sub[s].refused \cup {e}
      /\ sub'[s].end = b[s].end /\ sub'[s].leaving = b[s].leaving
  BY <1>1, <1>2, <1>5 DEF Sub
<1>7. Made' = Made /\ \A d \in Made : handler'[d].todo \subseteq handler[d].todo
  BY <1>1, <1>2 DEF Made, Handling
<1>8. Joined(s)' = Joined(s) /\ Joined(s) \subseteq sub[s].has /\ AllJoined(s)' = AllJoined(s)
  BY <1>6 DEF Joined, AllJoined
<1>9. OncePerKey(s)'
  BY <1>2, <1>6, <1>7 DEF Account, OncePerKey
<1>10. InJoined(s)'
  BY <1>2, <1>3, <1>6, <1>7, <1>8 DEF Account, InJoined
<1>11. Leaving(s)'
  <2>1. CASE b[s].end = sub[s].end /\ b[s].leaving = sub[s].leaving
    BY <1>2, <1>6, <1>7, <1>8, <2>1 DEF Account, Leaving
  <2>2. CASE all /\ b[s].end = "leaving" /\ b[s].leaving = sub[s].has
    <3>1. AllJoined(s)'
      BY <1>4, <1>8, <2>2
    <3>2. \A d \in Made : s \in entry[d].subs => d \in sub[s].has
      BY <1>8 DEF Account, InJoined
    <3> QED
      BY <1>2, <1>6, <1>7, <2>2, <3>1, <3>2 DEF Leaving
  <2> QED
    BY <1>5, <2>1, <2>2
<1> QED
  BY <1>9, <1>10, <1>11 DEF Account

(* Steps of the handler and the sweeper that touch no subscription. *)
LEMMA EntryStepAccount ==
  ASSUME Inv, NEW s \in Subs, Account(s), NEW e \in Made,
         Age(e) \/ Sweep(e) \/ Forbid(e) \/ ForbidMark(e) \/ ForbidStop(e)
  PROVE  Account(s)'
<1>1. /\ entry \in [Made -> Entry] /\ entry[e] \in Entry
      /\ handler \in [Made -> Handling] /\ handler[e] \in Handling
  BY DEF Inv, TypeOK, Handling
<1>2. sub' = sub
  BY DEF Age, Sweep, Forbid, ForbidMark, ForbidStop
<1>3. /\ Made' = Made
      /\ \A d \in Made : entry'[d].key = entry[d].key /\ entry'[d].subs = entry[d].subs
      /\ \A d \in Made : handler'[d].todo \subseteq entry[d].subs \cup handler[d].todo
  <2>1. CASE Age(e)
    BY <1>1, <2>1 DEF Age, Made, Entry
  <2>2. CASE Sweep(e)
    BY <1>1, <2>2 DEF Sweep, Made, Entry
  <2>3. CASE Forbid(e)
    BY <1>1, <2>3 DEF Forbid, Made, Entry
  <2>4. CASE ForbidMark(e)
    BY <1>1, <2>4 DEF ForbidMark, Made, Entry, Handling
  <2>5. CASE ForbidStop(e)
    BY <1>1, <2>5 DEF ForbidStop, Made, Entry, Handling
  <2> QED
    BY <2>1, <2>2, <2>3, <2>4, <2>5
<1> QED
  BY <1>2, <1>3, AccountKept

(* Another subscription's steps. *)
LEMMA OthersAccount ==
  ASSUME Inv, NEW s \in Subs, Account(s), ~ closed, NEW t \in Subs, t # s,
         \/ Subscribe(t) \/ SubStep(t) \/ Cancel(t) \/ EndStep(t)
         \/ \E e \in Made : ForbidTell(e, t)
  PROVE  Account(s)'
<1>1. /\ sub \in [Subs -> Sub] /\ sub[s] \in Sub
      /\ entry \in [Made -> Entry] /\ handler \in [Made -> Handling]
  BY DEF Inv, TypeOK, Handling
<1>2. CASE \E k \in Keys : Fetch(t, k)
  <2>1. PICK k \in Keys : Fetch(t, k)
    BY <1>2
  <2>2. sub'[s] = sub[s]
    BY <1>1, <2>1 DEF Fetch
  <2>3. \/ UNCHANGED <<entry, handler>>
        \/ \E e \in Ids :
             /\ e = Cardinality(Made) + 1
             /\ entry' = [d \in Made \cup {e} |->
                            IF d = e THEN [key |-> k, subs |-> {}, recent |-> FALSE, failed |-> FALSE,
                                           left |-> "no", stops |-> 0]
                            ELSE entry[d]]
             /\ handler' = [d \in Made \cup {e} |-> IF d = e THEN Resting ELSE handler[d]]
    BY <2>1, Zenon DEF Fetch
  <2>4. CASE UNCHANGED <<entry, handler>>
    BY <2>2, <2>4, AccountKept DEF Made
  <2>5. ASSUME NEW e \in Ids, e = Cardinality(Made) + 1,
               entry' = [d \in Made \cup {e} |->
                           IF d = e THEN [key |-> k, subs |-> {}, recent |-> FALSE, failed |-> FALSE,
                                          left |-> "no", stops |-> 0]
                           ELSE entry[d]],
               handler' = [d \in Made \cup {e} |-> IF d = e THEN Resting ELSE handler[d]]
        PROVE  Account(s)'
    <3>1. e \notin Made
      BY <2>5, NextNumber DEF Inv
    <3>2. Made' = Made \cup {e} /\ entry'[e].subs = {} /\ handler'[e].todo = {}
      BY <2>5 DEF Made, Resting
    <3>3. \A d \in Made : entry'[d] = entry[d] /\ handler'[d] = handler[d]
      BY <2>5, <3>1
    <3> QED
      BY <2>2, <3>2, <3>3, AccountKept
  <2> QED
    BY <2>3, <2>4, <2>5
<1>3. CASE Subscribe(t) \/ FetchFails(t) \/ AppendSub(t) \/ Opened(t) \/ Cancel(t) \/ Unsubscribe(t) \/ Ended(t)
  <2>1. sub'[s] = sub[s]
    <3>1. \A u \in Subs : u # t => EndBegun(t)[u] = sub[u] /\ EndBegun(t) \in [Subs -> Sub]
      BY <1>1, EndBegunIs
    <3> QED
      BY <1>1, <1>3, <3>1
         DEF Subscribe, FetchFails, AppendSub, Opened, Cancel, Unsubscribe, Ended
  <2>2. UNCHANGED <<entry, handler>>
    BY <1>3 DEF Subscribe, FetchFails, AppendSub, Opened, Cancel, Unsubscribe, Ended
  <2> QED
    BY <2>1, <2>2, AccountKept DEF Made
<1>4. CASE Join(t)
  <2> DEFINE e == sub[t].at
  <2>1. e \in Made /\ handler' = handler /\ entry' = [entry EXCEPT ![e].subs = @ \cup {t}, ![e].recent = FALSE]
    BY <1>4 DEF Join, Inv, InMade
  <2>2. sub'[s] = sub[s]
    <3>1. \E b \in {EndBegun(t), sub} : \E late, refused, pc :
            sub' = [b EXCEPT ![t].late = late, ![t].refused = refused, ![t].pc = pc]
      BY <1>4 DEF Join
    <3>2. \A b \in {EndBegun(t), sub} : b \in [Subs -> Sub] /\ b[s] = sub[s]
      BY <1>1, EndBegunIs
    <3> QED
      BY <3>1, <3>2
  <2> HIDE DEF e
  <2>3. entry[e] \in Entry
    BY <1>1, <2>1
  <2>4. Made' = Made /\ entry'[e].subs = entry[e].subs \cup {t} /\ entry'[e].key = entry[e].key
        /\ \A d \in Made : d # e => entry'[d] = entry[d]
    BY <1>1, <2>1, <2>3 DEF Made, Entry
  <2> QED
    BY <2>1, <2>2, <2>4, AccountKept
<1>5. CASE \E e \in Made : Leave(t, e)
  <2>1. PICK e \in Made : Leave(t, e)
    BY <1>5
  <2>2. sub'[s] = sub[s] /\ handler' = handler
    BY <1>1, <2>1 DEF Leave
  <2>3. /\ entry' = [entry EXCEPT ![e].subs = @ \ {t},
                                  ![e].recent = IF entry[e].subs \subseteq {t} THEN TRUE ELSE @]
        /\ entry[e] \in Entry
    BY <1>1, <2>1 DEF Leave
  <2>4. Made' = Made /\ entry'[e].subs = entry[e].subs \ {t} /\ entry'[e].key = entry[e].key
        /\ \A d \in Made : d # e => entry'[d] = entry[d]
    BY <1>1, <2>3 DEF Made, Entry
  <2> QED
    BY <2>2, <2>4, AccountKept
<1>6. CASE \E e \in Made : ForbidTell(e, t)
  <2>1. PICK e \in Made : ForbidTell(e, t)
    BY <1>6
  <2>2. sub'[s] = sub[s]
    <3>1. \E b \in {EndBegun(t), sub} : sub' = [b EXCEPT ![t].refused = @ \cup {e}]
      BY <2>1 DEF ForbidTell
    <3>2. \A b \in {EndBegun(t), sub} : b \in [Subs -> Sub] /\ b[s] = sub[s]
      BY <1>1, EndBegunIs
    <3> QED
      BY <3>1, <3>2
  <2>3. entry' = entry /\ handler' = [handler EXCEPT ![e].todo = @ \ {t}] /\ handler[e] \in Handling
    BY <1>1, <2>1 DEF ForbidTell
  <2>4. Made' = Made /\ \A d \in Made : handler'[d].todo \subseteq handler[d].todo
    BY <1>1, <2>3 DEF Made, Handling
  <2> QED
    BY <2>2, <2>3, <2>4, AccountKept
<1> QED
  BY <1>2, <1>3, <1>4, <1>5, <1>6 DEF SubStep, EndStep

LEMMA AccountedNext == Accounted /\ [Next]_vars => Accounted'
<1> SUFFICES ASSUME Accounted, [Next]_vars PROVE Accounted'
  OBVIOUS
<1>1. Inv /\ Inv'
  BY NextInv DEF Accounted
<1>0. \/ closed' = closed /\ (closed => entries' \subseteq entries)
      \/ closed' /\ entries' = {}
  <2>1. ASSUME NEW t \in Subs, Subscribe(t) \/ SubStep(t) \/ Cancel(t) \/ EndStep(t)
        PROVE  closed' = closed /\ (closed => entries' \subseteq entries)
    BY <2>1 DEF Subscribe, SubStep, Cancel, EndStep, Fetch, FetchFails, AppendSub, Join, Opened,
               Unsubscribe, Leave, Ended
  <2>2. ASSUME NEW e \in Made, Age(e) \/ Sweep(e) \/ Forbid(e) \/ HandlerStep(e)
        PROVE  closed' = closed /\ entries' \subseteq entries
    BY <2>2 DEF Age, Sweep, Forbid, HandlerStep, ForbidMark, ForbidTell, ForbidStop
  <2>3. CASE Close
    BY <2>3 DEF Close
  <2>4. CASE CloseStep
    BY <2>4 DEF CloseStep, CloseCopy, CloseEnd, CloseEnded, CloseStop
  <2>5. CASE UNCHANGED vars
    BY <2>5 DEF vars
  <2> QED
    BY <2>1, <2>2, <2>3, <2>4, <2>5 DEF Next
<1>2. /\ closed' => entries' = {}
      /\ closed => closed'
  BY <1>0 DEF Accounted
<1>3. ASSUME ~ closed', NEW s \in Subs PROVE Account(s)'
  <2>1. ~ closed
    BY <1>2, <1>3
  <2>2. Account(s)
    BY <2>1 DEF Accounted
  <2>3. ASSUME NEW t \in Subs, Subscribe(t) \/ SubStep(t) \/ Cancel(t) \/ EndStep(t) PROVE Account(s)'
    <3>1. CASE t # s
      BY <1>1, <2>1, <2>2, <2>3, <3>1, OthersAccount
    <3>2. CASE t = s
      BY <1>1, <2>1, <2>2, <2>3, <3>2, OwnStepAccount, FetchAccount, JoinAccount, LeaveAccount
         DEF SubStep, EndStep
    <3> QED
      BY <3>1, <3>2
  <2>4. ASSUME NEW e \in Made, Age(e) \/ Sweep(e) \/ Forbid(e) \/ HandlerStep(e) PROVE Account(s)'
    <3>1. CASE \E t \in Subs : ForbidTell(e, t)
      BY <1>1, <2>1, <2>2, <3>1, OthersAccount, TellAccount
    <3> QED
      BY <1>1, <2>2, <2>4, <3>1, EntryStepAccount DEF HandlerStep
  <2>5. ~ Close
    BY <1>3 DEF Close
  <2>6. ~ CloseStep
    <3>1. closer.left = {} /\ closer.pc = "idle" /\ closer.todo = {}
      BY <1>1, <2>1 DEF Inv, Closing
    <3> QED
      BY <3>1 DEF CloseStep, CloseCopy, CloseStop, CloseEnd, CloseEnded
  <2>7. CASE UNCHANGED vars
    BY <1>1, <2>2, <2>7, AccountKept DEF vars, Made
  <2> QED
    BY <2>3, <2>4, <2>5, <2>6, <2>7 DEF Next
<1> QED
  BY <1>1, <1>2, <1>3 DEF Accounted

LEMMA AccountedInit == Init => Accounted
<1> SUFFICES ASSUME Init, NEW s \in Subs PROVE Account(s)
  BY InitInv DEF Accounted, Init
<1>1. Made = {} /\ sub[s] = NewSub
  BY DEF Init, Made
<1> QED
  BY <1>1 DEF Account, OncePerKey, InJoined, Leaving, Joined, NewSub

(* An ended subscription is in no entry of the pool, whoever ended it and
   however its Joins, its refusals and its client's leaving interleave: its
   entries can be swept. *)
THEOREM NobodyIsLeftBehind == Spec => []NothingLeftBehind
<1>1. Accounted => NothingLeftBehind
  <2> SUFFICES ASSUME Accounted, NEW s \in Subs, sub[s].end = "done", NEW e \in entries
               PROVE  s \notin entry[e].subs
    BY DEF NothingLeftBehind
  <2>1. e \in Made /\ Account(s)
    BY DEF Accounted, Inv, TypeOK
  <2> QED
    BY <2>1 DEF Account, Leaving
<1> QED
  BY <1>1, AccountedInit, AccountedNext, PTL DEF Spec

-----------------------------------------------------------------------------
(* HistoryStore: the inductive invariant *)

Tally == [ns : [Names -> Nat], sick : [Workloads -> Nat]]
OpenHour == [hour : 0 .. MaxHour, of : Tally]
File(keys) == [n : [keys -> Nat], torn : BOOLEAN]

Disk ==
  [lock : [owner : Engines \cup {""}, fresh : BOOLEAN], meta : BOOLEAN, open : OpenHour,
   day : [Hours -> File(Names)], health : [Hours -> File(Sick)]]

Process ==
  [mode : {"off", "opening", "writer", "readonly"},
   pc : {"idle", "flush", "health", "checkpoint", "beat", "erase"},
   cached : BOOLEAN, meta : BOOLEAN, open : OpenHour, at : 0 .. MaxHour,
   obs : Obs \cup {NoObs}]

StoreTypes ==
  /\ disk \in Disk
  /\ engine \in [Engines -> Process]
  /\ acked \in [Hours -> Tally] /\ tried \in [Hours -> Tally]
  /\ remains \in BOOLEAN

(* Tick by tick, one tally is within another. *)
Within(a, b) ==
  /\ \A x \in Names : a.ns[x] <= b.ns[x]
  /\ \A w \in Workloads : a.sick[w] <= b.sick[w]

(* The files of hour h hold tally a, but for the lines that were lost; a broken
   workload may be missing where the hour says that some are. *)
DayHolds(a, h, d, g) ==
  \A x \in Names : <<<<"day", h>>, x>> \in g \/ a.ns[x] <= d.day[h].n[x]

HealthHolds(a, h, d, g) ==
  \A w \in Workloads :
    \/ <<<<"health", h>>, w>> \in g
    \/ a.sick[w] <= d.health[h].n[w]
    \/ d.health[h].n[w] = 0 /\ d.health[h].n[Overflow] > 0

(* Whoever reads from this open hour finds what was acknowledged, a: the hours
   before it in their files, itself in memory, and nothing was acknowledged later. *)
Holds(open, a, d, g) ==
  \A h \in Hours :
    /\ h > open.hour => a[h] = Zero
    /\ h = open.hour => Within(a[h], open.of)
    /\ h < open.hour => DayHolds(a[h], h, d, g) /\ HealthHolds(a[h], h, d, g)

(* ... and nothing that was not counted. *)
Bounded(open, t) == open.hour \in Hours => Within(open.of, t[open.hour])

FilesBounded(d, t) ==
  \A h \in Hours :
    /\ \A x \in Names : d.day[h].n[x] <= t[h].ns[x]
    /\ \A w \in Workloads : d.health[h].n[w] <= t[h].sick[w]

(* What a step of Record has yet to do can be done. *)
Recording(c, a, d, g) ==
  /\ c.pc \in {"flush", "health", "checkpoint", "beat"} =>
       c.cached /\ c.meta /\ c.open.hour \in Hours /\ c.at \in Hours /\ c.obs \in Obs
  /\ c.pc \in {"flush", "health"} => c.at > c.open.hour
  /\ c.pc = "health" => DayHolds(a[c.open.hour], c.open.hour, d, g)
  /\ c.pc \in {"checkpoint", "beat"} =>
       c.at = c.open.hour /\ Within(Add(a[c.at], c.obs), c.open.of)
  /\ c.pc = "beat" => d.open = c.open
  /\ c.pc = "erase" => a = Nothing

(* Engine c is sound: it is a writer if it does anything, and what it holds in
   memory is no older than the checkpoint. *)
Sound(c, d, a, t, g, r) ==
  /\ c.mode \in {"off", "opening"} => ~c.cached /\ ~c.meta
  /\ c.mode # "writer" => c.pc = "idle"
  /\ Recording(c, a, d, g)
  /\ c.mode = "writer" /\ c.cached =>
       /\ Holds(c.open, a, d, g) /\ d.open.hour <= c.open.hour
       /\ r \/ Bounded(c.open, t)

(* The directory is blank, and so is the memory of a writer. *)
Blank(d) ==
  /\ d.open.hour = 0
  /\ \A h \in Hours : /\ \A x \in Names : d.day[h].n[x] = 0
                      /\ \A w \in Workloads : d.health[h].n[w] = 0
Fresh(c) == c.mode = "writer" => ~c.meta /\ (c.cached => c.open.hour = 0)

(* A directory without a meta file is blank, unless it is being erased, or was. *)
Named ==
  \/ remains \/ disk.meta \/ \E e \in Engines : engine[e].pc = "erase"
  \/ Blank(disk) /\ \A e \in Engines : Fresh(engine[e])

StoreInv ==
  /\ StoreTypes
  /\ \A e \in Engines : Sound(engine[e], disk, acked, tried, glued, remains)
  /\ Holds(disk.open, acked, disk, glued)
  /\ remains \/ (FilesBounded(disk, tried) /\ Bounded(disk.open, tried))
  /\ Named

(* OneWriter, without counting. *)
Alone == \A d, e \in Engines : Writes(d) /\ Writes(e) => d = e

LEMMA OneIsAlone == OneWriter => Alone
<1> SUFFICES ASSUME OneWriter, NEW d \in Engines, NEW e \in Engines, Writes(d), Writes(e), d # e
             PROVE  FALSE
  BY DEF Alone
<1> DEFINE W == {x \in Engines : Writes(x)}
<1>1. IsFiniteSet(W) /\ Cardinality(W) \in Nat
  BY DataShape, FS_Subset, FS_CardinalityType
<1>2. IsFiniteSet({d}) /\ Cardinality({d}) = 1
  BY FS_Singleton
<1>3. {d} \in SUBSET W /\ e \in W /\ e \notin {d}
  OBVIOUS
<1>4. Cardinality({d}) <= Cardinality(W) /\ (Cardinality(W) = Cardinality({d}) => W = {d})
  BY <1>1, <1>3, FS_Subset
<1> QED
  BY <1>1, <1>2, <1>3, <1>4 DEF OneWriter

-----------------------------------------------------------------------------
(* Tallies *)

LEMMA TallyIs ==
  /\ Zero \in Tally
  /\ NoHour \in OpenHour /\ NoHour.hour = 0 /\ NoHour.of = Zero
  /\ \A x \in Names : Zero.ns[x] = 0
  /\ \A w \in Workloads : Zero.sick[w] = 0
  /\ \A h \in Hours : h \in 1 .. MaxHour /\ h \in Nat /\ h # 0
<1>1. Zero \in Tally
  BY DEF Zero, Tally
<1>2. 0 \in 0 .. MaxHour
  BY DataShape
<1> QED
  BY <1>1, <1>2, DataShape DEF NoHour, OpenHour, Zero, Hours

LEMMA AddIs ==
  ASSUME NEW a \in Tally, NEW o
  PROVE  /\ Add(a, o) \in Tally
         /\ Within(a, Add(a, o))
<1>1. a.ns \in [Names -> Nat] /\ a.sick \in [Workloads -> Nat]
  BY DEF Tally
<1>2. \A x \in Names : /\ Add(a, o).ns[x] \in Nat
                       /\ a.ns[x] <= Add(a, o).ns[x]
  BY <1>1 DEF Add
<1>3. \A w \in Workloads : /\ Add(a, o).sick[w] \in Nat
                           /\ a.sick[w] <= Add(a, o).sick[w]
  BY <1>1 DEF Add
<1>4. /\ Add(a, o).ns = [x \in Names |-> Add(a, o).ns[x]]
      /\ Add(a, o).sick = [w \in Workloads |-> Add(a, o).sick[w]]
      /\ Add(a, o) = [ns |-> Add(a, o).ns, sick |-> Add(a, o).sick]
  BY DEF Add
<1>5. Add(a, o).ns \in [Names -> Nat] /\ Add(a, o).sick \in [Workloads -> Nat]
  BY <1>2, <1>3, <1>4
<1> QED
  BY <1>2, <1>3, <1>4, <1>5 DEF Tally, Within

LEMMA AddWithin ==
  ASSUME NEW a \in Tally, NEW b \in Tally, NEW o, Within(a, b)
  PROVE  Within(Add(a, o), Add(b, o))
<1>1. /\ a.ns \in [Names -> Nat] /\ a.sick \in [Workloads -> Nat]
      /\ b.ns \in [Names -> Nat] /\ b.sick \in [Workloads -> Nat]
  BY DEF Tally
<1>2. \A x \in Names : Add(a, o).ns[x] <= Add(b, o).ns[x]
  BY <1>1 DEF Add, Within
<1>3. \A w \in Workloads : Add(a, o).sick[w] <= Add(b, o).sick[w]
  BY <1>1 DEF Add, Within
<1> QED
  BY <1>2, <1>3 DEF Within

LEMMA WithinIs ==
  /\ \A a \in Tally : Within(a, a) /\ Within(Zero, a)
  /\ \A a, b, c \in Tally : Within(a, b) /\ Within(b, c) => Within(a, c)
<1> USE DEF Within
<1>1. \A a \in Tally : a.ns \in [Names -> Nat] /\ a.sick \in [Workloads -> Nat]
  BY DEF Tally
<1>2. \A a \in Tally : Within(a, a)
  BY <1>1
<1>3. \A a \in Tally : Within(Zero, a)
  BY <1>1, TallyIs
<1>4. \A a, b, c \in Tally : Within(a, b) /\ Within(b, c) => Within(a, c)
  BY <1>1
<1> QED
  BY <1>2, <1>3, <1>4

(* What is nothing holds everywhere. *)
LEMMA FilesHoldZero ==
  ASSUME NEW d \in Disk, NEW g, NEW h \in Hours
  PROVE  DayHolds(Zero, h, d, g) /\ HealthHolds(Zero, h, d, g)
<1>1. d.day[h] \in File(Names) /\ d.health[h] \in File(Sick)
  BY DEF Disk
<1>2. d.day[h].n \in [Names -> Nat] /\ d.health[h].n \in [Sick -> Nat]
  BY <1>1 DEF File
<1> QED
  BY <1>2, TallyIs DEF DayHolds, HealthHolds, Sick

LEMMA NothingHolds ==
  ASSUME NEW d \in Disk, NEW g, NEW open \in OpenHour
  PROVE  Holds(open, Nothing, d, g) /\ Nothing \in [Hours -> Tally]
<1>1. \A h \in Hours : Nothing[h] = Zero
  BY DEF Nothing
<1>2. open.of \in Tally
  BY DEF OpenHour
<1>3. Nothing \in [Hours -> Tally]
  BY TallyIs DEF Nothing
<1> QED
  BY <1>1, <1>2, <1>3, WithinIs, FilesHoldZero DEF Holds

-----------------------------------------------------------------------------
(* What is written *)

(* When of any two elements one comes before the other, the elements are told apart
   by how many come before them: a sequence that has, at each place, the one that so
   many come before lists them all. *)
Ranked(S, T, before, L) ==
  /\ IsFiniteSet(S) /\ before \in [S -> SUBSET S] /\ L \in [1 .. Cardinality(S) -> T]
  /\ \A x \in S : x \notin before[x]
  /\ \A x, z \in S : x # z => \/ before[x] \subseteq before[z] /\ x \in before[z]
                              \/ before[z] \subseteq before[x] /\ z \in before[x]
  /\ \A i \in 1 .. Cardinality(S) :
       (\E x \in S : Cardinality(before[x]) = i - 1)
       => L[i] \in S /\ Cardinality(before[L[i]]) = i - 1

LEMMA RankedAll ==
  ASSUME NEW S, NEW T, NEW before, NEW L, Ranked(S, T, before, L)
  PROVE  Len(L) = Cardinality(S) /\ \A x \in S : \E i \in 1 .. Cardinality(S) : L[i] = x
<1> USE DEF Ranked
<1>1. Cardinality(S) \in Nat
  BY FS_CardinalityType
<1>2. \A x \in S : IsFiniteSet(before[x]) /\ Cardinality(before[x]) \in Nat
  BY FS_Subset, FS_CardinalityType
<1>3. \A x, z \in S :
        before[x] \subseteq before[z] /\ x \in before[z] => Cardinality(before[x]) < Cardinality(before[z])
  <2> SUFFICES ASSUME NEW x \in S, NEW z \in S, before[x] \subseteq before[z], x \in before[z]
               PROVE  Cardinality(before[x]) < Cardinality(before[z])
    OBVIOUS
  <2>1. /\ Cardinality(before[x]) <= Cardinality(before[z])
        /\ Cardinality(before[z]) = Cardinality(before[x]) => before[z] = before[x]
    BY <1>2, FS_Subset
  <2>2. before[z] # before[x]
    OBVIOUS
  <2> QED
    BY <1>2, <2>1, <2>2
<1>4. \A x, z \in S : Cardinality(before[x]) = Cardinality(before[z]) => x = z
  BY <1>2, <1>3
<1>5. Len(L) = Cardinality(S)
  BY <1>1
<1>6. \A x \in S : \E i \in 1 .. Cardinality(S) : L[i] = x
  <2> TAKE x \in S
  <2>1. before[x] \in SUBSET (S \ {x})
    OBVIOUS
  <2>2. IsFiniteSet(S \ {x}) /\ Cardinality(S \ {x}) = Cardinality(S) - 1
    BY FS_RemoveElement
  <2>3. Cardinality(before[x]) <= Cardinality(S) - 1
    BY <2>1, <2>2, FS_Subset
  <2>4. PICK i \in 1 .. Cardinality(S) : i - 1 = Cardinality(before[x])
    <3>1. Cardinality(before[x]) + 1 \in 1 .. Cardinality(S)
      BY <1>1, <1>2, <2>3
    <3> QED
      BY <1>2, <3>1
  <2>5. L[i] \in S /\ Cardinality(before[L[i]]) = i - 1
    BY <2>4
  <2> QED
    BY <1>4, <2>4, <2>5
<1> QED
  BY <1>5, <1>6

(* The namespaces that were seen are all listed, ... *)
LEMMA DayLinesAll ==
  ASSUME NEW of \in Tally
  PROVE  /\ Len(DayLines(of)) \in Nat
         /\ \A x \in Names : of.ns[x] > 0 => \E i \in 1 .. Len(DayLines(of)) : DayLines(of)[i] = x
<1> DEFINE S == {x \in Names : of.ns[x] > 0}
           before == [x \in S |-> {y \in S : y < x}]
           at(i) == CHOOSE x \in S : Cardinality({y \in S : y < x}) = i - 1
           T == {at(i) : i \in 1 .. Cardinality(S)}
           L == [i \in 1 .. Cardinality(S) |-> at(i)]
<1>1. DayLines(of) = L
  BY Zenon DEF DayLines, InOrder
<1>2. IsFiniteSet(S) /\ Cardinality(S) \in Nat
  BY DataShape, FS_Subset, FS_CardinalityType
<1>3. S \in SUBSET Nat
  BY DataShape
<1>4. before \in [S -> SUBSET S]
  OBVIOUS
<1>5. /\ \A x \in S : x \notin before[x]
      /\ \A x, z \in S : x # z => \/ before[x] \subseteq before[z] /\ x \in before[z]
                                  \/ before[z] \subseteq before[x] /\ z \in before[x]
  <2> HIDE DEF S
  <2>1. \A x \in S : ~(x < x)
    BY <1>3
  <2>2. \A x, z \in S : x # z => x < z \/ z < x
    BY <1>3
  <2>3. \A x, y, z \in S : x < y /\ y < z => x < z
    BY <1>3
  <2> QED
    BY <2>1, <2>2, <2>3
<1>6. \A i \in 1 .. Cardinality(S) :
        (\E x \in S : Cardinality(before[x]) = i - 1)
        => L[i] \in S /\ Cardinality(before[L[i]]) = i - 1
  <2> SUFFICES ASSUME NEW i \in 1 .. Cardinality(S), \E x \in S : Cardinality(before[x]) = i - 1
               PROVE  L[i] \in S /\ Cardinality(before[L[i]]) = i - 1
    OBVIOUS
  <2> HIDE DEF S
  <2>1. L[i] = CHOOSE x \in S : Cardinality({y \in S : y < x}) = i - 1
    OBVIOUS
  <2>2. \E x \in S : Cardinality({y \in S : y < x}) = i - 1
    OBVIOUS
  <2>3. L[i] \in S /\ Cardinality({y \in S : y < L[i]}) = i - 1
    <3> HIDE DEF L
    <3> QED
      BY <2>1, <2>2, Zenon
  <2> HIDE DEF L
  <2> QED
    BY <2>3
<1>7. L \in [1 .. Cardinality(S) -> T]
  <2> HIDE DEF at
  <2> QED
    OBVIOUS
<1> HIDE DEF S, before, L, T
<1>8. Len(L) = Cardinality(S) /\ \A x \in S : \E i \in 1 .. Cardinality(S) : L[i] = x
  <2>1. Ranked(S, T, before, L)
    BY <1>2, <1>4, <1>5, <1>6, <1>7 DEF Ranked
  <2> QED
    BY <2>1, RankedAll
<1> QED
  BY <1>1, <1>2, <1>8 DEF S

(* ... and so are the broken workloads, but that a line may say that some are not. *)
LEMMA HealthLinesAll ==
  ASSUME NEW of \in Tally
  PROVE  /\ Len(HealthLines(of)) \in Nat
         /\ \A w \in Workloads : of.sick[w] > 0 =>
              \/ \E i \in 1 .. Len(HealthLines(of)) : HealthLines(of)[i] = w
              \/ \E i \in 2 .. Len(HealthLines(of)) : HealthLines(of)[i] = Overflow
<1> DEFINE S == {w \in Workloads : of.sick[w] > 0}
           Worse(a, b) == of.sick[a] > of.sick[b] \/ (of.sick[a] = of.sick[b] /\ a < b)
           before == [x \in S |-> {y \in S : Worse(y, x)}]
           at(i) == CHOOSE x \in S : Cardinality({y \in S : Worse(y, x)}) = i - 1
           T == {at(i) : i \in 1 .. Cardinality(S)}
           L == [i \in 1 .. Cardinality(S) |-> at(i)]
<1>1. HealthLines(of) = IF Len(L) > MaxHealthLines THEN SubSeq(L, 1, MaxHealthLines) \o <<Overflow>> ELSE L
  BY Zenon DEF HealthLines, InOrder
<1>2. IsFiniteSet(S) /\ Cardinality(S) \in Nat
  BY DataShape, FS_Subset, FS_CardinalityType
<1>3. S \in SUBSET Nat /\ \A w \in S : of.sick[w] \in Nat
  BY DataShape DEF Tally
<1>4. before \in [S -> SUBSET S]
  OBVIOUS
<1>5. /\ \A x \in S : x \notin before[x]
      /\ \A x, z \in S : x # z => \/ before[x] \subseteq before[z] /\ x \in before[z]
                                  \/ before[z] \subseteq before[x] /\ z \in before[x]
  <2> HIDE DEF S
  <2>1. \A x \in S : ~Worse(x, x)
    BY <1>3
  <2>2. \A x, z \in S : x # z => Worse(x, z) \/ Worse(z, x)
    BY <1>3
  <2>3. \A x, y, z \in S : Worse(x, y) /\ Worse(y, z) => Worse(x, z)
    BY <1>3
  <2> HIDE DEF Worse
  <2> QED
    BY <2>1, <2>2, <2>3
<1>6. \A i \in 1 .. Cardinality(S) :
        (\E x \in S : Cardinality(before[x]) = i - 1)
        => L[i] \in S /\ Cardinality(before[L[i]]) = i - 1
  <2> SUFFICES ASSUME NEW i \in 1 .. Cardinality(S), \E x \in S : Cardinality(before[x]) = i - 1
               PROVE  L[i] \in S /\ Cardinality(before[L[i]]) = i - 1
    OBVIOUS
  <2> HIDE DEF S, Worse
  <2>1. L[i] = CHOOSE x \in S : Cardinality({y \in S : Worse(y, x)}) = i - 1
    OBVIOUS
  <2>2. \E x \in S : Cardinality({y \in S : Worse(y, x)}) = i - 1
    OBVIOUS
  <2>3. L[i] \in S /\ Cardinality({y \in S : Worse(y, L[i])}) = i - 1
    <3> HIDE DEF L
    <3> QED
      BY <2>1, <2>2, Zenon
  <2> HIDE DEF L
  <2> QED
    BY <2>3
<1>7. L \in [1 .. Cardinality(S) -> T]
  <2> HIDE DEF at
  <2> QED
    OBVIOUS
<1> HIDE DEF S, before, L, T
<1>8. Len(L) = Cardinality(S) /\ \A x \in S : \E i \in 1 .. Cardinality(S) : L[i] = x
  <2>1. Ranked(S, T, before, L)
    BY <1>2, <1>4, <1>5, <1>6, <1>7 DEF Ranked
  <2> QED
    BY <2>1, RankedAll
<1>9. CASE Len(L) <= MaxHealthLines
  BY <1>1, <1>2, <1>8, <1>9, DataShape DEF S
<1>10. CASE Len(L) > MaxHealthLines
  <2> DEFINE P == SubSeq(L, 1, MaxHealthLines)
             H == P \o <<Overflow>>
  <2>1. L \in [1 .. Cardinality(S) -> T] /\ MaxHealthLines \in Nat /\ MaxHealthLines >= 1
    BY <1>7, DataShape
  <2>2. L \in Seq(T) /\ MaxHealthLines \in 0 .. Len(L)
    BY <1>2, <1>8, <1>10, <2>1
  <2>3. P \in Seq(T) /\ Len(P) = MaxHealthLines
    <3>1. 1 \in Int /\ MaxHealthLines \in Int /\ \A i \in 1 .. MaxHealthLines : L[i] \in T
      BY <1>2, <1>8, <1>10, <2>1
    <3>2. P \in Seq(T) /\ Len(P) = IF 1 <= MaxHealthLines THEN MaxHealthLines - 1 + 1 ELSE 0
      BY <3>1, SubSeqProperties
    <3> QED
      BY <2>1, <3>2
  <2>4. Len(H) = MaxHealthLines + 1 /\ H[MaxHealthLines + 1] = Overflow
    <3> HIDE DEF P
    <3> DEFINE U == T \cup {Overflow}
    <3>1. P \in Seq(U) /\ <<Overflow>> \in Seq(U) /\ Len(<<Overflow>>) = 1
      BY <2>3
    <3> HIDE DEF U
    <3> QED
      BY <2>1, <2>3, <3>1
  <2>5. MaxHealthLines + 1 \in 2 .. Len(H)
    BY <2>1, <2>4
  <2>6. HealthLines(of) = H
    BY <1>1, <1>10
  <2> HIDE DEF H
  <2> QED
    BY <2>1, <2>4, <2>5, <2>6
<1> QED
  BY <1>2, <1>8, <1>9, <1>10, DataShape

(* A line of a file is what was written or what it was; it is what was written if it
   is among the first k and is not swallowed. *)
Rewritten(K, file, lines, of, k, new) ==
  /\ new \in File(K)
  /\ \A x \in K :
       /\ new.n[x] \in {file.n[x], of[x]}
       /\ (\E i \in 2 .. k : lines[i] = x) => new.n[x] = of[x]
       /\ (\E i \in 1 .. k : lines[i] = x) => new.n[x] = of[x] \/ x \in Swallowed(file, lines, of, k)
       /\ ~(\E i \in 1 .. k : lines[i] = x) => new.n[x] = file.n[x]

LEMMA WrittenIs ==
  ASSUME NEW K, NEW file \in File(K), NEW lines, NEW of \in [K -> Nat], NEW k \in Nat,
         NEW torn \in BOOLEAN
  PROVE  Rewritten(K, file, lines, of, k, Written(file, lines, of, k, torn))
<1> DEFINE f == Written(file, lines, of, k, torn)
           W == Whole(file, lines, k)
<1>1. file.n \in [K -> Nat] /\ file.torn \in BOOLEAN
  BY DEF File
<1>2. f = [n |-> [x \in K |-> IF x \in W THEN of[x] ELSE file.n[x]],
           torn |-> torn \/ (k = 0 /\ file.torn)]
  BY <1>1 DEF Written
<1>3. \A x \in K : f.n[x] = IF x \in W THEN of[x] ELSE file.n[x]
  BY <1>2
<1>4. f \in File(K)
  <2>1. f.n \in [K -> Nat] /\ f.torn \in BOOLEAN /\ f = [n |-> f.n, torn |-> f.torn]
    BY <1>1, <1>2
  <2> HIDE DEF f
  <2> QED
    BY <2>1 DEF File
<1>5. \A i \in 2 .. k : lines[i] \in W
  BY DEF Whole
<1>6. \A i \in 1 .. k : lines[i] \in W \/ (i = 1 /\ file.torn)
  BY <1>1 DEF Whole
<1>7. \A x \in W : \E i \in 1 .. k : lines[i] = x
  BY <1>1 DEF Whole
<1>8. ASSUME NEW x \in K, file.torn, k > 0, lines[1] = x, f.n[x] # of[x]
      PROVE  x \in Swallowed(file, lines, of, k)
  BY <1>3, <1>8 DEF Swallowed
<1> HIDE DEF f, W
<1>9. \A x \in K : (\E i \in 1 .. k : lines[i] = x) => f.n[x] = of[x] \/ x \in Swallowed(file, lines, of, k)
  BY <1>3, <1>6, <1>8
<1> QED
  BY <1>3, <1>4, <1>5, <1>7, <1>9 DEF f, Rewritten

LEMMA DiskIs ==
  ASSUME NEW d \in Disk
  PROVE  /\ d.open \in OpenHour /\ d.open.hour \in 0 .. MaxHour /\ d.open.of \in Tally
         /\ d.day \in [Hours -> File(Names)] /\ d.health \in [Hours -> File(Sick)]
         /\ \A h \in Hours : /\ d.day[h] \in File(Names) /\ d.health[h] \in File(Sick)
                             /\ d.day[h].n \in [Names -> Nat] /\ d.health[h].n \in [Sick -> Nat]
                             /\ d.health[h].n[Overflow] \in Nat
                             /\ \A w \in Workloads : d.health[h].n[w] \in Nat
<1>1. /\ d.open \in OpenHour /\ d.open.hour \in 0 .. MaxHour /\ d.open.of \in Tally
      /\ d.day \in [Hours -> File(Names)] /\ d.health \in [Hours -> File(Sick)]
  BY DEF Disk, OpenHour
<1>2. \A h \in Hours : /\ d.day[h] \in File(Names) /\ d.health[h] \in File(Sick)
                       /\ d.day[h].n \in [Names -> Nat] /\ d.health[h].n \in [Sick -> Nat]
  BY <1>1 DEF File
<1>3. \A h \in Hours : d.health[h].n[Overflow] \in Nat /\ \A w \in Workloads : d.health[h].n[w] \in Nat
  BY <1>2 DEF Sick
<1> QED
  BY <1>1, <1>2, <1>3

(* A write changes one part of the disk. *)
LEMMA DiskWith ==
  ASSUME NEW d \in Disk
  PROVE  /\ \A f \in [Hours -> File(Names)] : \A u :
              u = [d EXCEPT !.day = f]
              => u \in Disk /\ u.day = f /\ u.health = d.health /\ u.open = d.open /\ u.meta = d.meta
         /\ \A f \in [Hours -> File(Sick)] : \A u :
              u = [d EXCEPT !.health = f]
              => u \in Disk /\ u.day = d.day /\ u.health = f /\ u.open = d.open /\ u.meta = d.meta
         /\ \A o \in OpenHour : \A u :
              u = [d EXCEPT !.open = o]
              => u \in Disk /\ u.day = d.day /\ u.health = d.health /\ u.open = o /\ u.meta = d.meta
         /\ \A b \in BOOLEAN : \A u :
              u = [d EXCEPT !.meta = b]
              => u \in Disk /\ u.day = d.day /\ u.health = d.health /\ u.open = d.open /\ u.meta = b
         /\ \A l \in [owner : Engines \cup {""}, fresh : BOOLEAN] : \A u :
              u = [d EXCEPT !.lock = l]
              => u \in Disk /\ u.day = d.day /\ u.health = d.health /\ u.open = d.open /\ u.meta = d.meta
BY DEF Disk

(* A flush writes the open hour into its files, and all of it unless it is cut short. *)
Flushed(e, k) ==
  LET c == engine[e]
      h == c.open.hour
  IN  /\ disk' \in Disk /\ disk'.open = disk.open /\ disk'.meta = disk.meta
      /\ glued \subseteq glued'
      /\ \A i \in Hours \ {h} : disk'.day[i] = disk.day[i] /\ disk'.health[i] = disk.health[i]
      /\ \A x \in Names : disk'.day[h].n[x] \in {disk.day[h].n[x], c.open.of.ns[x]}
      /\ \A w \in Workloads : disk'.health[h].n[w] \in {disk.health[h].n[w], c.open.of.sick[w]}
      /\ c.pc = "flush" /\ k = Len(LinesDue(e)) => DayHolds(c.open.of, h, disk', glued')
      /\ c.pc = "health" => disk'.day = disk.day
      /\ c.pc = "health" /\ k = Len(LinesDue(e)) => HealthHolds(c.open.of, h, disk', glued')

LEMMA FlushIs ==
  ASSUME StoreTypes, NEW e \in Engines, engine[e].open.hour \in Hours,
         NEW k \in Nat, NEW torn \in BOOLEAN, Flush(e, k, torn)
  PROVE  Flushed(e, k)
<1> DEFINE c == engine[e]
           h == c.open.hour
           of == c.open.of
           sick == [x \in Sick |-> IF x = Overflow THEN 1 ELSE of.sick[x]]
           due == LinesDue(e)
           day == Written(disk.day[h], due, of.ns, k, torn)
           health == Written(disk.health[h], due, sick, k, torn)
<1>1. disk \in Disk /\ c \in Process /\ c.open \in OpenHour /\ of \in Tally /\ h \in Hours
  BY DEF StoreTypes, Process, OpenHour
<1>2. of.ns \in [Names -> Nat] /\ of.sick \in [Workloads -> Nat]
  BY <1>1 DEF Tally
<1>3. sick \in [Sick -> Nat] /\ sick[Overflow] = 1 /\ \A w \in Workloads : sick[w] = of.sick[w]
  BY <1>2, DataShape DEF Sick
<1>4. disk.day[h] \in File(Names) /\ disk.health[h] \in File(Sick)
  <2> HIDE DEF h
  <2> QED
    BY <1>1, DiskIs
<1>5. CASE /\ c.pc = "flush"
           /\ disk' = [disk EXCEPT !.day[h] = day]
           /\ glued' = glued \cup ({<<"day", h>>} \X Swallowed(disk.day[h], due, of.ns, k))
  <2> DEFINE f == [disk.day EXCEPT ![h] = day]
  <2>1. /\ day \in File(Names)
        /\ \A x \in Names :
             /\ day.n[x] \in {disk.day[h].n[x], of.ns[x]}
             /\ (\E i \in 2 .. k : due[i] = x) => day.n[x] = of.ns[x]
             /\ (\E i \in 1 .. k : due[i] = x)
                => day.n[x] = of.ns[x] \/ x \in Swallowed(disk.day[h], due, of.ns, k)
             /\ ~(\E i \in 1 .. k : due[i] = x) => day.n[x] = disk.day[h].n[x]
    <3>1. Rewritten(Names, disk.day[h], due, of.ns, k, day)
      <4> HIDE DEF due, h, of
      <4> QED
        BY <1>2, <1>4, WrittenIs
    <3> HIDE DEF due, day, h, of
    <3> QED
      BY <3>1 DEF Rewritten
  <2>2. f \in [Hours -> File(Names)] /\ f[h] = day /\ \A i \in Hours \ {h} : f[i] = disk.day[i]
    <3> HIDE DEF day, h
    <3> QED
      BY <1>1, <2>1, DiskIs
  <2>3. disk' = [disk EXCEPT !.day = f]
    BY <1>5
  <2>4. /\ disk' \in Disk /\ disk'.day = f /\ disk'.health = disk.health
        /\ disk'.open = disk.open /\ disk'.meta = disk.meta
    <3> HIDE DEF f, h, day, health
    <3> QED
      BY <1>1, <2>2, <2>3 DEF Disk
  <2>5. \A x \in Names : day.n[x] \in {disk.day[h].n[x], of.ns[x]}
    BY <2>1
  <2>6. ASSUME k = Len(due) PROVE DayHolds(of, h, disk', glued')
    <3> SUFFICES ASSUME NEW x \in Names PROVE <<<<"day", h>>, x>> \in glued' \/ of.ns[x] <= day.n[x]
      BY <2>2, <2>4 DEF DayHolds
    <3>1. CASE of.ns[x] > 0
      <4>1. due = DayLines(of)
        BY <1>5 DEF LinesDue
      <4>2. \E i \in 1 .. k : due[i] = x
        BY <1>1, <2>6, <3>1, <4>1, DayLinesAll
      <4>3. day.n[x] = of.ns[x] \/ x \in Swallowed(disk.day[h], due, of.ns, k)
        BY <2>1, <4>2
      <4>4. x \in Swallowed(disk.day[h], due, of.ns, k) => <<<<"day", h>>, x>> \in glued'
        BY <1>5
      <4> QED
        BY <1>2, <4>3, <4>4
    <3>2. CASE ~(of.ns[x] > 0)
      <4>1. of.ns[x] \in Nat /\ day.n[x] \in Nat
        BY <1>2, <2>1 DEF File
      <4> HIDE DEF c, h, of, sick, due, day, health, f
      <4> QED
        BY <3>2, <4>1
    <3> QED
      BY <3>1, <3>2
  <2> HIDE DEF day, due
  <2> QED
    BY <1>5, <2>2, <2>4, <2>5, <2>6 DEF due, Flushed
<1>6. CASE /\ c.pc = "health"
           /\ disk' = [disk EXCEPT !.health[h] = health]
           /\ glued' = glued \cup ({<<"health", h>>} \X (Swallowed(disk.health[h], due, sick, k)
                                                         \cup Outdated(disk.health[h], due, sick, k)))
  <2> DEFINE f == [disk.health EXCEPT ![h] = health]
  <2>1. /\ health \in File(Sick)
        /\ \A x \in Sick :
             /\ health.n[x] \in {disk.health[h].n[x], sick[x]}
             /\ (\E i \in 2 .. k : due[i] = x) => health.n[x] = sick[x]
             /\ (\E i \in 1 .. k : due[i] = x)
                => health.n[x] = sick[x] \/ x \in Swallowed(disk.health[h], due, sick, k)
             /\ ~(\E i \in 1 .. k : due[i] = x) => health.n[x] = disk.health[h].n[x]
    <3>1. Rewritten(Sick, disk.health[h], due, sick, k, health)
      <4> HIDE DEF due, h, of, sick
      <4> QED
        BY <1>3, <1>4, WrittenIs
    <3> HIDE DEF due, health, h, of, sick
    <3> QED
      BY <3>1 DEF Rewritten
  <2>2. f \in [Hours -> File(Sick)] /\ f[h] = health /\ \A i \in Hours \ {h} : f[i] = disk.health[i]
    <3> HIDE DEF health, h
    <3> QED
      BY <1>1, <2>1, DiskIs
  <2>3. disk' = [disk EXCEPT !.health = f]
    BY <1>6
  <2>4. /\ disk' \in Disk /\ disk'.health = f /\ disk'.day = disk.day
        /\ disk'.open = disk.open /\ disk'.meta = disk.meta
    <3> HIDE DEF f, h, day, health
    <3> QED
      BY <1>1, <2>2, <2>3 DEF Disk
  <2>5. \A w \in Workloads : health.n[w] \in {disk.health[h].n[w], of.sick[w]}
    BY <1>3, <2>1 DEF Sick
  <2>6. ASSUME k = Len(due) PROVE HealthHolds(of, h, disk', glued')
    <3> SUFFICES ASSUME NEW w \in Workloads
                 PROVE  \/ <<<<"health", h>>, w>> \in glued'
                        \/ of.sick[w] <= health.n[w]
                        \/ health.n[w] = 0 /\ health.n[Overflow] > 0
      BY <2>2, <2>4 DEF HealthHolds
    <3>1. w \in Sick /\ Overflow \in Sick /\ of.sick[w] \in Nat /\ health.n[w] \in Nat
      BY <1>2, <2>1 DEF Sick, File
    <3>2. CASE of.sick[w] > 0
      <4>1. due = HealthLines(of)
        BY <1>6 DEF LinesDue
      <4>2. \/ \E i \in 1 .. k : due[i] = w
            \/ \E i \in 2 .. k : due[i] = Overflow
        BY <1>1, <2>6, <3>2, <4>1, HealthLinesAll
      <4>3. CASE \E i \in 1 .. k : due[i] = w
        <5>1. health.n[w] = sick[w] \/ w \in Swallowed(disk.health[h], due, sick, k)
          BY <2>1, <3>1, <4>3
        <5>2. w \in Swallowed(disk.health[h], due, sick, k) => <<<<"health", h>>, w>> \in glued'
          BY <1>6
        <5> HIDE DEF sick, health
        <5> QED
          BY <1>3, <3>1, <5>1, <5>2
      <4>4. CASE ~ \E i \in 1 .. k : due[i] = w
        <5>1. health.n[w] = disk.health[h].n[w]
          BY <2>1, <3>1, <4>4
        <5>2. health.n[Overflow] = 1
          BY <1>3, <2>1, <3>1, <4>2, <4>4
        <5>3. health.n[w] \notin {0, sick[w]} => w \in Outdated(disk.health[h], due, sick, k)
          <6>1. DOMAIN disk.health[h].n = Sick
            BY <1>4 DEF File
          <6> QED
            BY <2>6, <3>1, <4>4, <5>1, <6>1 DEF Outdated
        <5>4. w \in Outdated(disk.health[h], due, sick, k) => <<<<"health", h>>, w>> \in glued'
          BY <1>6
        <5> HIDE DEF sick, health
        <5> QED
          BY <1>3, <3>1, <5>2, <5>3, <5>4
      <4> QED
        BY <4>3, <4>4
    <3>3. CASE ~(of.sick[w] > 0)
      <4> HIDE DEF c, h, of, sick, due, day, health, f
      <4> QED
        BY <3>1, <3>3
    <3> QED
      BY <3>2, <3>3
  <2> HIDE DEF health, due
  <2> QED
    BY <1>6, <2>2, <2>4, <2>5, <2>6 DEF due, Flushed
<1>7. QED
  BY <1>5, <1>6 DEF Flush

-----------------------------------------------------------------------------
(* Steps *)

SameFiles(d, d2) ==
  d2 \in Disk /\ d2.open = d.open /\ d2.day = d.day /\ d2.health = d.health

(* A lock or a meta file that is written changes nothing that is read. *)
LEMMA SameFilesKeep ==
  ASSUME NEW d, NEW d2, SameFiles(d, d2), NEW a, NEW t, NEW g
  PROVE  /\ \A open : Holds(open, a, d, g) => Holds(open, a, d2, g)
         /\ FilesBounded(d, t) => FilesBounded(d2, t)
         /\ Blank(d) => Blank(d2)
         /\ \A c, r, b : Sound(c, d, a, t, g, r) => Sound(c, d2, a, t, g, r \/ b)
<1> USE DEF SameFiles
<1>1. \A open : Holds(open, a, d, g) => Holds(open, a, d2, g)
  BY DEF Holds, DayHolds, HealthHolds
<1>2. FilesBounded(d, t) => FilesBounded(d2, t)
  BY DEF FilesBounded
<1>3. Blank(d) => Blank(d2)
  BY DEF Blank
<1>4. \A c : Recording(c, a, d, g) => Recording(c, a, d2, g)
  BY DEF Recording, DayHolds
<1>5. \A c, r, b : Sound(c, d, a, t, g, r) => Sound(c, d2, a, t, g, r \/ b)
  BY <1>1, <1>4 DEF Sound
<1> QED
  BY <1>1, <1>2, <1>3, <1>5

LEMMA InitStoreInv == StoreInit => StoreInv
<1> SUFFICES ASSUME StoreInit PROVE StoreInv
  OBVIOUS
<1> USE DEF StoreInit
<1>1. disk \in Disk
  <2>1. NoLock \in [owner : Engines \cup {""}, fresh : BOOLEAN]
    BY DEF NoLock
  <2>2. Empty(Names) \in File(Names) /\ Empty(Sick) \in File(Sick)
    BY DEF Empty, File
  <2> QED
    BY <2>1, <2>2, TallyIs DEF Disk
<1>2. Off \in Process
  BY TallyIs, DataShape DEF Off, Process
<1>3. StoreTypes
  <2>1. acked \in [Hours -> Tally] /\ tried \in [Hours -> Tally]
    BY TallyIs
  <2> QED
    BY <1>1, <1>2, <2>1 DEF StoreTypes
<1>4. acked = Nothing
  BY DEF Nothing
<1>5. Holds(disk.open, acked, disk, glued)
  BY <1>1, <1>4, NothingHolds, TallyIs
<1>6. \A e \in Engines : Sound(engine[e], disk, acked, tried, glued, remains) /\ Fresh(engine[e])
  BY DEF Sound, Recording, Off, Fresh
<1>7. Blank(disk)
  <2>1. disk.open.hour = 0
    BY TallyIs
  <2>2. \A h \in Hours : disk.day[h] = Empty(Names) /\ disk.health[h] = Empty(Sick)
    OBVIOUS
  <2> QED
    BY <2>1, <2>2 DEF Blank, Empty, Sick
<1>8. FilesBounded(disk, tried) /\ Bounded(disk.open, tried)
  <2>1. \A h \in Hours : tried[h] = Zero
    OBVIOUS
  <2> QED
    BY <1>7, <2>1, TallyIs DEF FilesBounded, Bounded, Blank
<1> QED
  BY <1>3, <1>5, <1>6, <1>7, <1>8 DEF StoreInv, Named

(* An engine that starts, takes the lock, closes or is killed holds nothing after. *)
LEMMA QuietStep ==
  ASSUME StoreInv, NEW e \in Engines, NEW c \in Process, engine' = [engine EXCEPT ![e] = c],
         ~c.cached, ~c.meta, c.pc = "idle",
         SameFiles(disk, disk'), disk'.meta = disk.meta, UNCHANGED <<acked, tried, glued>>,
         remains' = (remains \/ engine[e].pc = "erase")
  PROVE  StoreInv'
<1>1. engine' \in [Engines -> Process] /\ engine'[e] = c /\ \A d \in Engines \ {e} : engine'[d] = engine[d]
  BY DEF StoreInv, StoreTypes
<1>2. StoreTypes'
  BY <1>1 DEF StoreInv, StoreTypes, SameFiles
<1>3. \A d \in Engines : Sound(engine[d], disk', acked, tried, glued, remains \/ engine[e].pc = "erase")
  BY SameFilesKeep DEF StoreInv
<1>4. Sound(c, disk', acked, tried, glued, remains \/ engine[e].pc = "erase")
  BY DEF Sound, Recording
<1>5. \A d \in Engines : Sound(engine'[d], disk', acked', tried', glued', remains')
  BY <1>1, <1>3, <1>4
<1>6. Holds(disk.open, acked, disk', glued)
  BY SameFilesKeep DEF StoreInv
<1>7. remains \/ (FilesBounded(disk', tried) /\ Bounded(disk.open, tried))
  BY SameFilesKeep DEF StoreInv
<1>8. Named'
  <2> SUFFICES ASSUME ~remains', ~disk'.meta, \A d \in Engines : engine'[d].pc # "erase"
               PROVE  Blank(disk') /\ \A d \in Engines : Fresh(engine'[d])
    BY DEF Named
  <2>1. \A d \in Engines : engine[d].pc # "erase"
    BY <1>1
  <2>2. Blank(disk) /\ \A d \in Engines : Fresh(engine[d])
    BY <2>1 DEF StoreInv, Named
  <2>3. Fresh(c)
    BY DEF Fresh
  <2> QED
    BY <1>1, <2>2, <2>3, SameFilesKeep
<1> QED
  BY <1>2, <1>5, <1>6, <1>7, <1>8 DEF StoreInv, SameFiles

(* A step of the one engine that writes. *)
LEMMA WriterStep ==
  ASSUME StoreInv, Alone, NEW e \in Engines, Writes(e), NEW c \in Process,
         engine' = [engine EXCEPT ![e] = c],
         disk' \in Disk, acked' \in [Hours -> Tally], tried' \in [Hours -> Tally], remains' \in BOOLEAN,
         Sound(c, disk', acked', tried', glued', remains'),
         Holds(disk'.open, acked', disk', glued'),
         remains' \/ (FilesBounded(disk', tried') /\ Bounded(disk'.open, tried')),
         remains' \/ disk'.meta \/ c.pc = "erase" \/ (Blank(disk') /\ Fresh(c))
  PROVE  StoreInv'
<1>1. engine' \in [Engines -> Process] /\ engine'[e] = c /\ \A d \in Engines \ {e} : engine'[d] = engine[d]
  BY DEF StoreInv, StoreTypes
<1>2. \A d \in Engines \ {e} : engine[d].mode # "writer"
  BY DEF Alone, Writes
<1>3. \A d \in Engines \ {e} : Sound(engine[d], disk', acked', tried', glued', remains') /\ Fresh(engine[d])
  BY <1>2 DEF StoreInv, Sound, Recording, Fresh
<1>4. \A d \in Engines : Sound(engine'[d], disk', acked', tried', glued', remains')
  BY <1>1, <1>3
<1>5. Named'
  BY <1>1, <1>3 DEF Named
<1>6. StoreTypes'
  BY <1>1 DEF StoreTypes
<1> QED
  BY <1>4, <1>5, <1>6 DEF StoreInv

(* What is known of the writer. *)
LEMMA WriterIs ==
  ASSUME StoreInv, NEW e \in Engines, Writes(e)
  PROVE  /\ engine[e] \in Process /\ engine[e].mode = "writer"
         /\ engine[e].open \in OpenHour /\ engine[e].open.hour \in 0 .. MaxHour /\ engine[e].open.of \in Tally
         /\ engine[e].at \in 0 .. MaxHour
         /\ Recording(engine[e], acked, disk, glued)
         /\ engine[e].cached =>
              /\ Holds(engine[e].open, acked, disk, glued) /\ disk.open.hour <= engine[e].open.hour
              /\ remains \/ Bounded(engine[e].open, tried)
         /\ StoreTypes /\ disk \in Disk
         /\ Alone /\ engine[e].pc # "erase" /\ engine[e].meta => remains \/ disk.meta
<1>1. Alone => \A d \in Engines \ {e} : engine[d].pc = "idle"
  BY DEF Alone, StoreInv, Sound, Writes
<1>2. Alone /\ engine[e].pc # "erase" /\ engine[e].meta => remains \/ disk.meta
  BY <1>1 DEF StoreInv, Named, Fresh, Writes
<1> QED
  BY <1>2 DEF StoreInv, StoreTypes, Process, OpenHour, Sound, Writes

LEMMA LockKeeps ==
  ASSUME disk \in Disk, NEW l \in [owner : Engines \cup {""}, fresh : BOOLEAN],
         disk' = [disk EXCEPT !.lock = l]
  PROVE  SameFiles(disk, disk') /\ disk'.meta = disk.meta
BY DEF SameFiles, Disk

LEMMA LockAgesInv ==
  ASSUME StoreInv, LockAges
  PROVE  StoreInv'
<1> USE DEF LockAges
<1>1. SameFiles(disk, disk') /\ disk'.meta = disk.meta
  <2>1. disk \in Disk
    BY DEF StoreInv, StoreTypes
  <2>2. [disk.lock EXCEPT !.fresh = FALSE] \in [owner : Engines \cup {""}, fresh : BOOLEAN]
    BY <2>1 DEF Disk
  <2>3. disk' = [disk EXCEPT !.lock = [disk.lock EXCEPT !.fresh = FALSE]]
    BY <2>1 DEF Disk
  <2> QED
    BY <2>1, <2>2, <2>3, LockKeeps
<1>2. StoreTypes'
  BY <1>1 DEF StoreInv, StoreTypes, SameFiles
<1>3. \A d \in Engines : Sound(engine[d], disk', acked, tried, glued, remains)
  <2>1. (remains \/ remains) = remains
    BY DEF StoreInv, StoreTypes
  <2> QED
    BY <1>1, <2>1, SameFilesKeep DEF StoreInv
<1>4. Holds(disk.open, acked, disk', glued)
  BY <1>1, SameFilesKeep DEF StoreInv
<1>5. remains \/ (FilesBounded(disk', tried) /\ Bounded(disk.open, tried))
  BY <1>1, SameFilesKeep DEF StoreInv
<1>6. Named'
  BY <1>1, SameFilesKeep DEF StoreInv, Named
<1> QED
  BY <1>1, <1>2, <1>3, <1>4, <1>5, <1>6 DEF StoreInv, SameFiles

LEMMA OffIs == Off \in Process /\ Off.mode = "off" /\ Off.pc = "idle" /\ ~Off.cached /\ ~Off.meta
BY TallyIs, DataShape DEF Off, Process

LEMMA ComesAndGoesInv ==
  ASSUME StoreInv, NEW e \in Engines,
         OpenStore(e) \/ Acquire(e) \/ CloseStore(e) \/ Crash(e)
  PROVE  StoreInv'
<1> DEFINE Moded(m) == [engine[e] EXCEPT !.mode = m]
<1>1. /\ engine \in [Engines -> Process] /\ engine[e] \in Process /\ disk \in Disk
      /\ Sound(engine[e], disk, acked, tried, glued, remains) /\ remains \in BOOLEAN
  BY DEF StoreInv, StoreTypes
<1>2. SameFiles(disk, disk)
  BY <1>1 DEF SameFiles
<1>3. \A m \in {"off", "opening", "writer", "readonly"} :
        /\ Moded(m) \in Process
        /\ Moded(m).pc = engine[e].pc /\ Moded(m).cached = engine[e].cached /\ Moded(m).meta = engine[e].meta
  BY <1>1 DEF Process
<1>4. CASE OpenStore(e)
  <2>1. PICK m \in {"readonly", "opening"} : engine' = [engine EXCEPT ![e] = Moded(m)]
    BY <1>4 DEF OpenStore
  <2>2. ~engine[e].cached /\ ~engine[e].meta /\ engine[e].pc = "idle"
    BY <1>1, <1>4 DEF OpenStore, Sound
  <2> QED
    BY <1>1, <1>2, <1>3, <1>4, <2>1, <2>2, QuietStep DEF OpenStore
<1>5. CASE Acquire(e)
  <2>1. engine' = [engine EXCEPT ![e] = Moded("writer")]
    BY <1>5 DEF Acquire
  <2>2. ~engine[e].cached /\ ~engine[e].meta /\ engine[e].pc = "idle"
    BY <1>1, <1>5 DEF Acquire, Sound
  <2>3. SameFiles(disk, disk') /\ disk'.meta = disk.meta
    BY <1>1, <1>5, LockKeeps DEF Acquire
  <2> QED
    BY <1>1, <1>3, <1>5, <2>1, <2>2, <2>3, QuietStep DEF Acquire
<1>6. CASE CloseStore(e)
  <2>1. SameFiles(disk, disk') /\ disk'.meta = disk.meta
    <3>1. NoLock \in [owner : Engines \cup {""}, fresh : BOOLEAN]
      BY DEF NoLock
    <3> QED
      BY <1>1, <1>2, <1>6, <3>1, LockKeeps DEF CloseStore
  <2> QED
    BY <1>1, <1>6, <2>1, OffIs, QuietStep DEF CloseStore, Idle
<1>7. CASE Crash(e)
  BY <1>1, <1>2, <1>7, OffIs, QuietStep DEF Crash
<1> QED
  BY <1>4, <1>5, <1>6, <1>7

-----------------------------------------------------------------------------
(* Record *)

(* load: what is in memory is as sound as the checkpoint it is read from. *)
LEMMA LoadedIs ==
  ASSUME StoreInv, NEW e \in Engines
  PROVE  /\ Loaded(e) \in Process /\ Loaded(e).cached /\ Loaded(e).open \in OpenHour
         /\ Loaded(e).mode = engine[e].mode /\ Loaded(e).pc = engine[e].pc
         /\ Loaded(e).open \in {engine[e].open, disk.open}
         /\ Loaded(e).meta => engine[e].meta
         /\ Writes(e) => /\ Holds(Loaded(e).open, acked, disk, glued)
                         /\ disk.open.hour <= Loaded(e).open.hour
                         /\ remains \/ Bounded(Loaded(e).open, tried)
         /\ Fresh(engine[e]) /\ Writes(e) /\ disk.open.hour = 0 => Loaded(e).open.hour = 0
<1>1. engine[e] \in Process /\ disk.open \in OpenHour /\ engine[e].open \in OpenHour
  BY DEF StoreInv, StoreTypes, Disk, Process
<1>2. CASE engine[e].cached
  BY <1>1, <1>2 DEF Loaded, StoreInv, Sound, Writes, Fresh
<1>3. CASE ~engine[e].cached
  <2>1. Loaded(e) = [engine[e] EXCEPT !.cached = TRUE, !.meta = FALSE, !.open = disk.open]
    BY <1>3 DEF Loaded
  <2>2. /\ Loaded(e) \in Process /\ Loaded(e).cached /\ Loaded(e).open = disk.open
        /\ Loaded(e).mode = engine[e].mode /\ Loaded(e).pc = engine[e].pc /\ Loaded(e).meta = FALSE
    BY <1>1, <2>1 DEF Process
  <2>3. disk.open.hour <= disk.open.hour
    BY <1>1 DEF OpenHour
  <2> QED
    BY <1>1, <2>2, <2>3 DEF StoreInv
<1> QED
  BY <1>2, <1>3

(* What Count makes of an engine. *)
LEMMA CountIs ==
  ASSUME NEW c \in Process, NEW h \in Hours, NEW o \in Obs
  PROVE  LET n == Count(c, h, o) IN
         /\ n \in Process /\ n.mode = c.mode /\ n.cached = c.cached /\ n.meta = c.meta
         /\ n.pc = "checkpoint" /\ n.at = h /\ n.obs = o
         /\ n.open \in OpenHour /\ n.open.hour = h
         /\ n.open.of = Add(IF c.open.hour = h THEN c.open.of ELSE Zero, o)
         /\ n.open.of \in Tally
<1> DEFINE old == IF c.open.hour = h THEN c.open.of ELSE Zero
           open == [hour |-> h, of |-> Add(old, o)]
<1>1. old \in Tally
  BY TallyIs DEF Process, OpenHour
<1>2. Add(old, o) \in Tally
  BY <1>1, AddIs
<1>3. open \in OpenHour /\ open.hour = h /\ open.of = Add(old, o) /\ h \in 0 .. MaxHour
  BY <1>2, DataShape DEF OpenHour, Hours
<1>4. Count(c, h, o) = [c EXCEPT !.pc = "checkpoint", !.at = h, !.obs = o, !.open = open]
  BY DEF Count
<1> HIDE DEF open, old
<1>5. /\ Count(c, h, o) \in Process
      /\ Count(c, h, o).mode = c.mode /\ Count(c, h, o).cached = c.cached /\ Count(c, h, o).meta = c.meta
      /\ Count(c, h, o).pc = "checkpoint" /\ Count(c, h, o).at = h /\ Count(c, h, o).obs = o
      /\ Count(c, h, o).open = open
  BY <1>3, <1>4 DEF Process
<1> QED
  BY <1>2, <1>3, <1>5 DEF old

(* The tick may be counted in hour h: the open hour is that one, or closed. *)
CanCount(c, d, a, t, g, r, h) ==
  /\ c \in Process /\ d \in Disk /\ a \in [Hours -> Tally] /\ t \in [Hours -> Tally] /\ r \in BOOLEAN
  /\ c.mode = "writer" /\ c.cached /\ c.meta /\ c.open.hour <= h /\ d.open.hour <= h
  /\ Holds(c.open, a, d, g) /\ (r \/ Bounded(c.open, t))
  /\ c.open.hour \notin {0, h} =>
       DayHolds(a[c.open.hour], c.open.hour, d, g) /\ HealthHolds(a[c.open.hour], c.open.hour, d, g)

More(t, h, o) == [t EXCEPT ![h] = Add(@, o)]

(* A tick that is counted leaves the new open hour sound. *)
LEMMA CountSound ==
  ASSUME NEW c, NEW d, NEW a, NEW t, NEW g, NEW r, NEW h \in Hours, NEW o \in Obs,
         CanCount(c, d, a, t, g, r, h)
  PROVE  /\ Sound(Count(c, h, o), d, a, More(t, h, o), g, r)
         /\ More(t, h, o) \in [Hours -> Tally]
         /\ r \/ FilesBounded(d, t) => r \/ FilesBounded(d, More(t, h, o))
         /\ \A open \in OpenHour : r \/ Bounded(open, t) => r \/ Bounded(open, More(t, h, o))
<1> DEFINE t2 == More(t, h, o)
<1> USE DEF CanCount
<1> DEFINE n == Count(c, h, o)
           old == IF c.open.hour = h THEN c.open.of ELSE Zero
<1>1. /\ n \in Process /\ n.mode = "writer" /\ n.cached /\ n.meta
      /\ n.pc = "checkpoint" /\ n.at = h /\ n.obs = o
      /\ n.open \in OpenHour /\ n.open.hour = h /\ n.open.of = Add(old, o) /\ n.open.of \in Tally
  BY CountIs
<1>2. c.open \in OpenHour /\ c.open.hour \in 0 .. MaxHour /\ c.open.of \in Tally /\ old \in Tally
  <2>1. c.open \in OpenHour
    BY DEF Process
  <2>2. c.open.hour \in 0 .. MaxHour /\ c.open.of \in Tally
    BY <2>1 DEF OpenHour
  <2> QED
    BY <2>1, <2>2, TallyIs
<1>3. h \in Nat /\ c.open.hour \in Nat /\ d.open.hour \in Nat
  <2>1. d.open.hour \in 0 .. MaxHour
    BY DiskIs
  <2> HIDE DEF n, old
  <2> QED
    BY <1>2, <2>1, TallyIs, DataShape
<1>4. Within(a[h], old)
  BY <1>2, <1>3, WithinIs, TallyIs DEF Holds
<1>5. Within(Add(a[h], o), Add(old, o)) /\ Within(a[h], Add(a[h], o)) /\ Add(a[h], o) \in Tally
  BY <1>2, <1>4, AddWithin, AddIs
<1>6. Within(a[h], n.open.of)
  BY <1>1, <1>2, <1>5, WithinIs
<1>7. Holds(n.open, a, d, g)
  <2> SUFFICES ASSUME NEW i \in Hours
               PROVE  /\ i > h => a[i] = Zero
                      /\ i < h => DayHolds(a[i], i, d, g) /\ HealthHolds(a[i], i, d, g)
    BY <1>1, <1>6 DEF Holds
  <2>1. i \in Nat /\ i # 0
    BY TallyIs
  <2>2. CASE i > h
    BY <1>3, <2>1, <2>2 DEF Holds
  <2>3. CASE i < h /\ i > c.open.hour
    <3>1. a[i] = Zero
      BY <2>3 DEF Holds
    <3> QED
      BY <2>1, <2>3, <1>3, <3>1, FilesHoldZero
  <2>4. CASE i < h /\ i = c.open.hour
    BY <1>3, <2>1, <2>4
  <2>5. CASE i < h /\ i < c.open.hour
    BY <1>3, <2>1, <2>5 DEF Holds
  <2> QED
    BY <1>3, <2>1, <2>2, <2>3, <2>4, <2>5
<1>8. /\ t2 \in [Hours -> Tally] /\ t2[h] = Add(t[h], o)
      /\ \A i \in Hours : Within(t[i], t2[i])
  <2>1. Add(t[h], o) \in Tally /\ Within(t[h], Add(t[h], o))
    BY AddIs
  <2>2. t2 \in [Hours -> Tally] /\ t2[h] = Add(t[h], o) /\ \A i \in Hours \ {h} : t2[i] = t[i]
    BY <2>1 DEF More
  <2>3. \A i \in Hours : Within(t[i], t2[i])
    BY <2>1, <2>2, WithinIs
  <2> QED
    BY <2>2, <2>3
<1> HIDE DEF t2
<1>9. r \/ Bounded(n.open, t2)
  <2> SUFFICES ASSUME ~r PROVE Within(n.open.of, t2[h])
    BY <1>1 DEF Bounded
  <2>1. Within(old, t[h])
    BY WithinIs DEF Bounded
  <2>2. Within(Add(old, o), Add(t[h], o))
    BY <1>2, <2>1, AddWithin
  <2> QED
    BY <1>1, <1>8, <2>2
<1>10. Sound(n, d, a, t2, g, r)
  <2> HIDE DEF n, old
  <2>1. Recording(n, a, d, g)
    BY <1>1, <1>5 DEF Recording, old
  <2> QED
    BY <1>1, <1>7, <1>9, <2>1 DEF Sound
<1>11. FilesBounded(d, t) => FilesBounded(d, t2)
  <2> SUFFICES ASSUME FilesBounded(d, t), NEW i \in Hours
               PROVE  /\ \A x \in Names : d.day[i].n[x] <= t2[i].ns[x]
                      /\ \A w \in Workloads : d.health[i].n[w] <= t2[i].sick[w]
    BY DEF FilesBounded
  <2>1. /\ t[i].ns \in [Names -> Nat] /\ t[i].sick \in [Workloads -> Nat]
        /\ t2[i].ns \in [Names -> Nat] /\ t2[i].sick \in [Workloads -> Nat]
    BY <1>8 DEF Tally
  <2>2. /\ d.day[i].n \in [Names -> Nat]
        /\ \A w \in Workloads : d.health[i].n[w] \in Nat
    BY DiskIs
  <2>3. Within(t[i], t2[i])
    BY <1>8
  <2>4. \A x \in Names : d.day[i].n[x] <= t[i].ns[x] /\ t[i].ns[x] <= t2[i].ns[x]
    BY <2>3 DEF FilesBounded, Within
  <2>5. \A w \in Workloads : d.health[i].n[w] <= t[i].sick[w] /\ t[i].sick[w] <= t2[i].sick[w]
    BY <2>3 DEF FilesBounded, Within
  <2>6. \A x \in Names : d.day[i].n[x] <= t2[i].ns[x]
    BY <2>1, <2>2, <2>4
  <2>7. \A w \in Workloads : d.health[i].n[w] <= t2[i].sick[w]
    BY <2>1, <2>2, <2>5
  <2> QED
    BY <2>6, <2>7
<1>12. \A open \in OpenHour : Bounded(open, t) => Bounded(open, t2)
  <2>1. \A open \in OpenHour : open.of \in Tally
    BY DEF OpenHour
  <2> QED
    BY <1>8, <2>1, WithinIs DEF Bounded
<1> QED
  BY <1>8, <1>10, <1>11, <1>12 DEF t2

LEMMA RecordInv ==
  ASSUME StoreInv, Alone, NEW e \in Engines, NEW h \in Hours, NEW o \in Obs, Record(e, h, o)
  PROVE  StoreInv'
<1> DEFINE l == Loaded(e)
           c == [l EXCEPT !.meta = TRUE]
<1>1. Writes(e) /\ engine[e].pc = "idle"
  BY DEF Record, Idle
<1>2. /\ l \in Process /\ l.cached /\ l.open \in OpenHour /\ l.mode = "writer" /\ l.pc = "idle"
      /\ Holds(l.open, acked, disk, glued) /\ disk.open.hour <= l.open.hour
      /\ remains \/ Bounded(l.open, tried)
      /\ l.meta => remains \/ disk.meta
  BY <1>1, LoadedIs, WriterIs DEF Writes
<1>3. /\ c \in Process /\ c.cached /\ c.meta /\ c.open = l.open /\ c.mode = "writer" /\ c.pc = "idle"
      /\ c.at = l.at /\ c.obs = l.obs
  <2> HIDE DEF l
  <2> QED
    BY <1>2 DEF Process
<1>4. SameFiles(disk, disk') /\ (remains \/ disk'.meta)
  <2>1. disk \in Disk
    BY <1>1, WriterIs
  <2>2. disk' = disk \/ disk' = [disk EXCEPT !.meta = TRUE]
    BY DEF Record
  <2>3. l.meta \/ disk' = [disk EXCEPT !.meta = TRUE]
    BY DEF Record
  <2> HIDE DEF l
  <2> QED
    BY <1>2, <2>1, <2>2, <2>3 DEF SameFiles, Disk
<1>5. Holds(l.open, acked, disk', glued) /\ Holds(disk.open, acked, disk', glued)
  BY <1>2, <1>4, SameFilesKeep DEF StoreInv
<1>6. remains \/ (FilesBounded(disk', tried) /\ Bounded(disk.open, tried))
  BY <1>4, SameFilesKeep DEF StoreInv
<1>7. /\ disk' \in Disk /\ disk'.open = disk.open /\ remains' = remains /\ remains \in BOOLEAN
      /\ acked' = acked /\ glued' = glued /\ acked \in [Hours -> Tally] /\ tried \in [Hours -> Tally]
      /\ disk.open \in OpenHour
  BY <1>4, DiskIs DEF SameFiles, Record, StoreInv, StoreTypes
<1>8. l.open.hour \in Nat /\ h \in Nat
  BY <1>2, DataShape DEF OpenHour, Hours
<1>9. CASE h < l.open.hour /\ engine' = [engine EXCEPT ![e] = c] /\ tried' = tried
  <2>1. Sound(c, disk', acked, tried, glued, remains)
    <3> HIDE DEF c, l
    <3> QED
      BY <1>2, <1>3, <1>5, <1>7 DEF Sound, Recording
  <2> HIDE DEF c, l
  <2> QED
    BY <1>1, <1>3, <1>4, <1>5, <1>6, <1>7, <1>9, <2>1, WriterStep
<1>10. CASE /\ l.open.hour # 0 /\ h > l.open.hour
            /\ engine' = [engine EXCEPT ![e] = [c EXCEPT !.pc = "flush", !.at = h, !.obs = o]]
            /\ tried' = tried
  <2> DEFINE n == [c EXCEPT !.pc = "flush", !.at = h, !.obs = o]
  <2>1. /\ n \in Process /\ n.cached /\ n.meta /\ n.open = l.open /\ n.mode = "writer"
        /\ n.pc = "flush" /\ n.at = h /\ n.obs = o
    <3>1. h \in 0 .. MaxHour
      BY DataShape DEF Hours
    <3> HIDE DEF c, l
    <3> QED
      BY <1>3, <3>1 DEF Process
  <2>2. l.open.hour \in Hours
    BY <1>2, <1>8, <1>10, DataShape DEF OpenHour, Hours
  <2> HIDE DEF c, l, n
  <2>3. Sound(n, disk', acked, tried, glued, remains)
    BY <1>2, <1>5, <1>7, <1>10, <2>1, <2>2 DEF Sound, Recording
  <2> QED
    BY <1>1, <1>4, <1>5, <1>6, <1>7, <1>10, <2>1, <2>3, WriterStep DEF n
<1>11. CASE /\ l.open.hour \in {0, h} /\ engine' = [engine EXCEPT ![e] = Count(c, h, o)]
            /\ tried' = [tried EXCEPT ![h] = Add(@, o)]
  <2> HIDE DEF c, l
  <2> DEFINE n == Count(c, h, o)
  <2>1. c.open.hour <= h /\ disk'.open.hour <= h
    <3>1. disk.open.hour \in Nat
      BY <1>7, DataShape DEF OpenHour
    <3> QED
      BY <1>2, <1>3, <1>7, <1>8, <1>11, <3>1
  <2>2. c.open.hour = 0 \/ c.open.hour = h
    BY <1>3, <1>11
  <2>3. Holds(c.open, acked, disk', glued) /\ (remains \/ Bounded(c.open, tried))
    BY <1>2, <1>3, <1>5
  <2>10. CanCount(c, disk', acked, tried, glued, remains, h)
    BY <1>3, <1>7, <2>1, <2>2, <2>3 DEF CanCount
  <2>4. /\ Sound(n, disk', acked, tried', glued, remains)
        /\ tried' \in [Hours -> Tally]
        /\ remains \/ FilesBounded(disk', tried) => remains \/ FilesBounded(disk', tried')
        /\ \A open \in OpenHour : remains \/ Bounded(open, tried) => remains \/ Bounded(open, tried')
    <3>1. tried' = More(tried, h, o)
      BY <1>11 DEF More
    <3> QED
      BY <2>10, <3>1, CountSound
  <2>5. n \in Process
    BY <1>3, CountIs
  <2> HIDE DEF n
  <2>6. remains \/ (FilesBounded(disk', tried') /\ Bounded(disk.open, tried'))
    BY <1>6, <1>7, <2>4
  <2> QED
    BY <1>1, <1>4, <1>5, <1>7, <1>11, <2>4, <2>5, <2>6, WriterStep DEF n
<1> QED
  BY <1>3, <1>9, <1>10, <1>11 DEF Record, Counted

(* Only a writer is at work, and all that it needs is there. *)
LEMMA BusyIs ==
  ASSUME StoreInv, NEW e \in Engines, engine[e].pc # "idle"
  PROVE  Writes(e)
BY DEF StoreInv, Sound, Writes

LEMMA RecordingIs ==
  ASSUME StoreInv, Alone, NEW e \in Engines,
         engine[e].pc \in {"flush", "health", "checkpoint", "beat"}
  PROVE  /\ Writes(e) /\ engine[e] \in Process /\ engine[e].mode = "writer"
         /\ engine[e].cached /\ engine[e].meta /\ engine[e].obs \in Obs
         /\ engine[e].open \in OpenHour /\ engine[e].open.hour \in Hours /\ engine[e].open.of \in Tally
         /\ engine[e].at \in Hours /\ engine[e].at \in Nat /\ engine[e].open.hour \in Nat
         /\ disk \in Disk /\ disk.open \in OpenHour /\ disk.open.hour \in Nat
         /\ disk.open.hour <= engine[e].open.hour
         /\ acked \in [Hours -> Tally] /\ tried \in [Hours -> Tally] /\ remains \in BOOLEAN
         /\ Holds(engine[e].open, acked, disk, glued)
         /\ Within(acked[engine[e].open.hour], engine[e].open.of)
         /\ acked[engine[e].open.hour] \in Tally
         /\ remains \/ Bounded(engine[e].open, tried)
         /\ remains \/ disk.meta
<1>1. Writes(e)
  BY BusyIs
<1>2. /\ engine[e].cached /\ engine[e].meta /\ engine[e].obs \in Obs
      /\ engine[e].open.hour \in Hours /\ engine[e].at \in Hours
  BY <1>1, WriterIs DEF Recording
<1>3. disk \in Disk /\ disk.open \in OpenHour /\ disk.open.hour \in 0 .. MaxHour
  BY <1>1, WriterIs, DiskIs
<1>4. disk.open.hour \in Nat /\ engine[e].open.hour \in Nat /\ engine[e].at \in Nat
  BY <1>2, <1>3, DataShape DEF Hours
<1>5. Holds(engine[e].open, acked, disk, glued) /\ acked \in [Hours -> Tally]
  BY <1>1, <1>2, WriterIs DEF StoreTypes
<1>6. Within(acked[engine[e].open.hour], engine[e].open.of) /\ acked[engine[e].open.hour] \in Tally
  BY <1>2, <1>5 DEF Holds
<1> QED
  BY <1>1, <1>2, <1>3, <1>4, <1>5, <1>6, WriterIs DEF StoreTypes

(* Record returns. *)
LEMMA ReturnedIs ==
  ASSUME NEW c \in Process
  PROVE  LET n == Returned(c) IN
         /\ n \in Process /\ n.mode = c.mode /\ n.cached = c.cached /\ n.meta = c.meta
         /\ n.open = c.open /\ n.pc = "idle"
<1>1. 0 \in 0 .. MaxHour
  BY DataShape
<1> QED
  BY <1>1 DEF Returned, Process

(* The files of an hour that hold a tally hold one within it. *)
LEMMA HoldLess ==
  ASSUME NEW a \in Tally, NEW b \in Tally, Within(a, b), NEW h \in Hours, NEW d \in Disk, NEW g
  PROVE  /\ DayHolds(b, h, d, g) => DayHolds(a, h, d, g)
         /\ HealthHolds(b, h, d, g) => HealthHolds(a, h, d, g)
<1>1. /\ a.ns \in [Names -> Nat] /\ a.sick \in [Workloads -> Nat]
      /\ b.ns \in [Names -> Nat] /\ b.sick \in [Workloads -> Nat]
  BY DEF Tally
<1>2. /\ d.day[h].n \in [Names -> Nat]
      /\ \A w \in Workloads : d.health[h].n[w] \in Nat
  BY DiskIs
<1>3. \A x \in Names : b.ns[x] <= d.day[h].n[x] => a.ns[x] <= d.day[h].n[x]
  BY <1>1, <1>2 DEF Within
<1>4. \A w \in Workloads : b.sick[w] <= d.health[h].n[w] => a.sick[w] <= d.health[h].n[w]
  BY <1>1, <1>2 DEF Within
<1> QED
  BY <1>3, <1>4 DEF DayHolds, HealthHolds

(* A flush touches the hour that is open alone, and writes no more than was counted;
   when it is done, the day file, and then the health file, holds the hour. *)
LEMMA FlushKeeps ==
  ASSUME StoreInv, Alone, NEW e \in Engines, engine[e].pc \in {"flush", "health"},
         NEW k \in Nat, NEW torn \in BOOLEAN, Flush(e, k, torn)
  PROVE  LET h == engine[e].open.hour IN
         /\ disk' \in Disk /\ disk'.open = disk.open /\ disk'.meta = disk.meta
         /\ Holds(engine[e].open, acked, disk', glued')
         /\ Holds(disk.open, acked, disk', glued')
         /\ FilesBounded(disk, tried) /\ Bounded(engine[e].open, tried) => FilesBounded(disk', tried)
         /\ engine[e].pc = "flush" /\ k = Len(LinesDue(e)) => DayHolds(acked[h], h, disk', glued')
         /\ engine[e].pc = "health" => DayHolds(acked[h], h, disk', glued')
         /\ engine[e].pc = "health" /\ k = Len(LinesDue(e)) => HealthHolds(acked[h], h, disk', glued')
<1> DEFINE c == engine[e]
           h == c.open.hour
           of == c.open.of
<1>1. /\ c.open \in OpenHour /\ h \in Hours /\ of \in Tally /\ h \in Nat
      /\ disk \in Disk /\ disk.open.hour \in Nat /\ disk.open.hour <= h
      /\ acked \in [Hours -> Tally] /\ tried \in [Hours -> Tally]
      /\ Holds(c.open, acked, disk, glued) /\ Within(acked[h], of) /\ acked[h] \in Tally
  BY RecordingIs
<1>2. /\ disk' \in Disk /\ disk'.open = disk.open /\ disk'.meta = disk.meta
      /\ glued \subseteq glued'
      /\ \A i \in Hours \ {h} : disk'.day[i] = disk.day[i] /\ disk'.health[i] = disk.health[i]
      /\ \A x \in Names : disk'.day[h].n[x] \in {disk.day[h].n[x], of.ns[x]}
      /\ \A w \in Workloads : disk'.health[h].n[w] \in {disk.health[h].n[w], of.sick[w]}
      /\ c.pc = "flush" /\ k = Len(LinesDue(e)) => DayHolds(of, h, disk', glued')
      /\ c.pc = "health" => disk'.day = disk.day
      /\ c.pc = "health" /\ k = Len(LinesDue(e)) => HealthHolds(of, h, disk', glued')
  <2>1. StoreTypes /\ c.open.hour \in Hours
    BY <1>1 DEF StoreInv
  <2>2. Flushed(e, k)
    BY <2>1, FlushIs
  <2> QED
    BY <2>2 DEF Flushed
<1>3. ASSUME NEW open, open.hour \in Nat, open.hour <= h, Holds(open, acked, disk, glued)
      PROVE  Holds(open, acked, disk', glued')
  <2> SUFFICES ASSUME NEW i \in Hours, i < open.hour
               PROVE  DayHolds(acked[i], i, disk', glued') /\ HealthHolds(acked[i], i, disk', glued')
    BY <1>3 DEF Holds
  <2>1. i # h
    BY <1>1, <1>3, TallyIs
  <2>2. DayHolds(acked[i], i, disk, glued) /\ HealthHolds(acked[i], i, disk, glued)
    BY <1>3 DEF Holds
  <2>3. disk'.day[i] = disk.day[i] /\ disk'.health[i] = disk.health[i] /\ glued \subseteq glued'
    BY <1>2, <2>1
  <2> QED
    BY <2>2, <2>3 DEF DayHolds, HealthHolds
<1>4. Holds(c.open, acked, disk', glued') /\ Holds(disk.open, acked, disk', glued')
  <2>1. h <= h
    BY <1>1
  <2> QED
    BY <1>1, <1>3, <2>1 DEF StoreInv
<1>5. ASSUME FilesBounded(disk, tried), Bounded(c.open, tried) PROVE FilesBounded(disk', tried)
  <2> SUFFICES ASSUME NEW i \in Hours
               PROVE  /\ \A x \in Names : disk'.day[i].n[x] <= tried[i].ns[x]
                      /\ \A w \in Workloads : disk'.health[i].n[w] <= tried[i].sick[w]
    BY DEF FilesBounded
  <2>1. CASE i # h
    BY <1>2, <1>5, <2>1 DEF FilesBounded
  <2>2. CASE i = h
    <3>1. Within(of, tried[h])
      BY <1>1, <1>5 DEF Bounded
    <3> QED
      BY <1>1, <1>2, <1>5, <2>2, <3>1 DEF FilesBounded, Within
  <2> QED
    BY <2>1, <2>2
<1>6. c.pc = "health" => DayHolds(acked[h], h, disk', glued')
  <2>1. c.pc = "health" => DayHolds(acked[h], h, disk, glued)
    BY DEF StoreInv, Sound, Recording
  <2> QED
    BY <1>2, <2>1 DEF DayHolds
<1>7. /\ DayHolds(of, h, disk', glued') => DayHolds(acked[h], h, disk', glued')
      /\ HealthHolds(of, h, disk', glued') => HealthHolds(acked[h], h, disk', glued')
  BY <1>1, <1>2, HoldLess
<1> QED
  BY <1>2, <1>4, <1>5, <1>6, <1>7

LEMMA DueIs ==
  ASSUME StoreInv, Alone, NEW e \in Engines, engine[e].pc \in {"flush", "health"}
  PROVE  Len(LinesDue(e)) \in Nat
BY RecordingIs, DayLinesAll, HealthLinesAll DEF LinesDue

LEMMA FlushDayInv ==
  ASSUME StoreInv, Alone, NEW e \in Engines, FlushDay(e)
  PROVE  StoreInv'
<1> DEFINE n == [engine[e] EXCEPT !.pc = "health"]
           k == Len(LinesDue(e))
<1>1. engine[e].pc = "flush" /\ Flush(e, k, FALSE) /\ k \in Nat
  BY DueIs DEF FlushDay
<1>2. /\ disk' \in Disk /\ disk'.open = disk.open /\ disk'.meta = disk.meta
      /\ Holds(engine[e].open, acked, disk', glued')
      /\ Holds(disk.open, acked, disk', glued')
      /\ FilesBounded(disk, tried) /\ Bounded(engine[e].open, tried) => FilesBounded(disk', tried)
      /\ DayHolds(acked[engine[e].open.hour], engine[e].open.hour, disk', glued')
  BY <1>1, FlushKeeps
<1>3. /\ n \in Process /\ n.mode = "writer" /\ n.cached /\ n.meta /\ n.pc = "health"
      /\ n.open = engine[e].open /\ n.at = engine[e].at /\ n.obs = engine[e].obs
  BY <1>1, RecordingIs DEF Process
<1>4. engine' = [engine EXCEPT ![e] = n]
  BY DEF FlushDay
<1> HIDE DEF n
<1>5. engine[e].at > engine[e].open.hour
  BY <1>1 DEF StoreInv, Sound, Recording
<1>6. Sound(n, disk', acked, tried, glued', remains)
  BY <1>1, <1>2, <1>3, <1>5, RecordingIs DEF Sound, Recording
<1>7. remains \/ (FilesBounded(disk', tried) /\ Bounded(disk.open, tried))
  BY <1>1, <1>2, RecordingIs DEF StoreInv
<1>8. UNCHANGED <<acked, tried, remains>>
  BY DEF FlushDay
<1> QED
  BY <1>1, <1>2, <1>3, <1>4, <1>6, <1>7, <1>8, RecordingIs, WriterStep

LEMMA FlushHealthInv ==
  ASSUME StoreInv, Alone, NEW e \in Engines, FlushHealth(e)
  PROVE  StoreInv'
<1> DEFINE c == engine[e]
           n == Count(c, c.at, c.obs)
           k == Len(LinesDue(e))
<1>1. c.pc = "health" /\ Flush(e, k, FALSE) /\ k \in Nat
  BY DueIs DEF FlushHealth
<1>2. /\ disk' \in Disk /\ disk'.open = disk.open /\ disk'.meta = disk.meta
      /\ Holds(c.open, acked, disk', glued')
      /\ Holds(disk.open, acked, disk', glued')
      /\ FilesBounded(disk, tried) /\ Bounded(c.open, tried) => FilesBounded(disk', tried)
      /\ DayHolds(acked[c.open.hour], c.open.hour, disk', glued')
      /\ HealthHolds(acked[c.open.hour], c.open.hour, disk', glued')
  BY <1>1, FlushKeeps
<1>3. /\ c.at > c.open.hour /\ c \in Process /\ c.at \in Hours /\ c.obs \in Obs
      /\ c.at \in Nat /\ c.open.hour \in Nat /\ disk.open.hour \in Nat /\ disk.open.hour <= c.open.hour
  BY <1>1, RecordingIs DEF StoreInv, Sound, Recording
<1>4. Count([c EXCEPT !.open = NoHour], c.at, c.obs) = n
  <2>1. c.open.hour # c.at /\ NoHour.hour = 0 /\ c.at # 0
    BY <1>3, TallyIs
  <2>2. [c EXCEPT !.open = NoHour].open = NoHour
    BY <1>3 DEF Process
  <2> QED
    BY <1>3, <2>1, <2>2 DEF Count, Process
<1>5. engine' = [engine EXCEPT ![e] = n] /\ tried' = More(tried, c.at, c.obs)
  BY <1>4 DEF FlushHealth, Counted, More
<1>6. CanCount(c, disk', acked, tried, glued', remains, c.at)
  <2>1. c.open.hour <= c.at /\ disk'.open.hour <= c.at
    BY <1>2, <1>3
  <2> QED
    BY <1>1, <1>2, <1>3, <2>1, RecordingIs DEF CanCount
<1>7. /\ Sound(n, disk', acked, tried', glued', remains)
      /\ tried' \in [Hours -> Tally]
      /\ remains \/ FilesBounded(disk', tried) => remains \/ FilesBounded(disk', tried')
      /\ \A open \in OpenHour : remains \/ Bounded(open, tried) => remains \/ Bounded(open, tried')
  BY <1>3, <1>5, <1>6, CountSound
<1>8. remains \/ (FilesBounded(disk', tried') /\ Bounded(disk.open, tried'))
  <2>1. remains \/ (FilesBounded(disk', tried) /\ Bounded(disk.open, tried))
    BY <1>1, <1>2, RecordingIs DEF StoreInv
  <2> QED
    BY <1>1, <1>7, <2>1, RecordingIs
<1>9. n \in Process
  BY <1>3, CountIs
<1>10. UNCHANGED <<acked, remains>>
  BY DEF FlushHealth
<1> HIDE DEF n
<1> QED
  BY <1>1, <1>2, <1>5, <1>7, <1>8, <1>9, <1>10, RecordingIs, WriterStep

LEMMA FlushShortInv ==
  ASSUME StoreInv, Alone, NEW e \in Engines, FlushShort(e)
  PROVE  StoreInv'
<1> DEFINE n == Returned(engine[e])
<1>1. engine[e].pc \in {"flush", "health"}
  BY DEF FlushShort
<1>2. PICK k \in 0 .. (Len(LinesDue(e)) - 1), torn \in BOOLEAN : Flush(e, k, torn)
  BY DEF FlushShort
<1>3. k \in Nat
  BY <1>1, DueIs
<1>4. /\ disk' \in Disk /\ disk'.open = disk.open /\ disk'.meta = disk.meta
      /\ Holds(engine[e].open, acked, disk', glued')
      /\ Holds(disk.open, acked, disk', glued')
      /\ FilesBounded(disk, tried) /\ Bounded(engine[e].open, tried) => FilesBounded(disk', tried)
  BY <1>1, <1>2, <1>3, FlushKeeps
<1>5. /\ n \in Process /\ n.mode = "writer" /\ n.cached /\ n.meta /\ n.pc = "idle"
      /\ n.open = engine[e].open
  BY <1>1, RecordingIs, ReturnedIs
<1>6. engine' = [engine EXCEPT ![e] = n]
  BY DEF FlushShort
<1> HIDE DEF n
<1>7. Sound(n, disk', acked, tried, glued', remains)
  BY <1>1, <1>4, <1>5, RecordingIs DEF Sound, Recording
<1>8. remains \/ (FilesBounded(disk', tried) /\ Bounded(disk.open, tried))
  BY <1>1, <1>4, RecordingIs DEF StoreInv
<1>9. UNCHANGED <<acked, tried, remains>>
  BY DEF FlushShort
<1> QED
  BY <1>1, <1>4, <1>5, <1>6, <1>7, <1>8, <1>9, RecordingIs, WriterStep

LEMMA CheckpointInv ==
  ASSUME StoreInv, Alone, NEW e \in Engines, Checkpoint(e)
  PROVE  StoreInv'
<1> DEFINE c == engine[e]
           n == [c EXCEPT !.pc = "beat"]
<1>1. c.pc = "checkpoint"
  BY DEF Checkpoint
<1>2. /\ disk' \in Disk /\ disk'.open = c.open /\ disk'.meta = disk.meta
      /\ disk'.day = disk.day /\ disk'.health = disk.health
  BY <1>1, RecordingIs DEF Checkpoint, Disk
<1>3. /\ n \in Process /\ n.mode = "writer" /\ n.cached /\ n.meta /\ n.pc = "beat"
      /\ n.open = c.open /\ n.at = c.at /\ n.obs = c.obs
  BY <1>1, RecordingIs DEF Process
<1>4. engine' = [engine EXCEPT ![e] = n] /\ UNCHANGED <<acked, tried, glued, remains>>
  BY DEF Checkpoint
<1> HIDE DEF n
<1>5. Holds(c.open, acked, disk', glued)
  BY <1>1, <1>2, RecordingIs DEF Holds, DayHolds, HealthHolds
<1>6. c.at = c.open.hour /\ Within(Add(acked[c.at], c.obs), c.open.of) /\ c.open.hour <= c.open.hour
  BY <1>1, RecordingIs DEF StoreInv, Sound, Recording
<1>7. Sound(n, disk', acked, tried, glued, remains)
  BY <1>1, <1>2, <1>3, <1>5, <1>6, RecordingIs DEF Sound, Recording
<1>8. remains \/ (FilesBounded(disk', tried) /\ Bounded(disk'.open, tried))
  BY <1>1, <1>2, RecordingIs DEF StoreInv, FilesBounded
<1> QED
  BY <1>1, <1>2, <1>3, <1>4, <1>5, <1>7, <1>8, RecordingIs, WriterStep

LEMMA HeartbeatInv ==
  ASSUME StoreInv, Alone, NEW e \in Engines, Heartbeat(e)
  PROVE  StoreInv'
<1> DEFINE c == engine[e]
           n == Returned(c)
           h == c.open.hour
<1>1. c.pc = "beat"
  BY DEF Heartbeat
<1>2. SameFiles(disk, disk') /\ disk'.meta = disk.meta
  BY <1>1, RecordingIs, LockKeeps DEF Heartbeat
<1>3. n \in Process /\ n.mode = "writer" /\ n.cached /\ n.meta /\ n.pc = "idle" /\ n.open = c.open
  BY <1>1, RecordingIs, ReturnedIs
<1>4. engine' = [engine EXCEPT ![e] = n] /\ UNCHANGED <<tried, glued, remains>>
  BY DEF Heartbeat
<1> HIDE DEF n
<1>5. c.at = h /\ Within(Add(acked[h], c.obs), c.open.of) /\ disk.open = c.open
  BY <1>1 DEF StoreInv, Sound, Recording
<1>6. acked' = [acked EXCEPT ![h] = Add(@, c.obs)]
  BY <1>5 DEF Heartbeat
<1>7. acked' \in [Hours -> Tally] /\ acked'[h] = Add(acked[h], c.obs) /\ \A i \in Hours \ {h} : acked'[i] = acked[i]
  <2>1. Add(acked[h], c.obs) \in Tally
    BY <1>1, RecordingIs, AddIs
  <2> QED
    BY <1>1, <1>6, <2>1, RecordingIs
<1>8. Holds(c.open, acked, disk', glued)
  BY <1>1, <1>2, RecordingIs, SameFilesKeep
<1>9. Holds(c.open, acked', disk', glued)
  <2> SUFFICES ASSUME NEW i \in Hours
               PROVE  /\ i > h => acked'[i] = Zero
                      /\ i = h => Within(acked'[i], c.open.of)
                      /\ i < h => DayHolds(acked'[i], i, disk', glued) /\ HealthHolds(acked'[i], i, disk', glued)
    BY DEF Holds
  <2>1. CASE i = h
    <3>1. ~(h > h) /\ ~(h < h)
      BY <1>1, RecordingIs
    <3> QED
      BY <1>5, <1>7, <2>1, <3>1
  <2>2. CASE i # h
    <3>1. acked'[i] = acked[i]
      BY <1>7, <2>2
    <3> QED
      BY <1>8, <2>2, <3>1 DEF Holds
  <2> QED
    BY <2>1, <2>2
<1>10. disk'.open = c.open /\ c.open.hour <= c.open.hour
  BY <1>1, <1>2, <1>5, RecordingIs DEF SameFiles
<1>11. Sound(n, disk', acked', tried, glued, remains)
  BY <1>1, <1>3, <1>9, <1>10, RecordingIs DEF Sound, Recording
<1>12. remains \/ (FilesBounded(disk', tried) /\ Bounded(disk'.open, tried))
  BY <1>2, <1>10, <1>5, SameFilesKeep DEF StoreInv
<1> QED
  BY <1>1, <1>2, <1>3, <1>4, <1>7, <1>9, <1>10, <1>11, <1>12, RecordingIs, WriterStep DEF SameFiles

(* A step that changes the engine alone. *)
LEMMA EngineStep ==
  ASSUME StoreInv, Alone, NEW e \in Engines, Writes(e), NEW c \in Process,
         engine' = [engine EXCEPT ![e] = c], UNCHANGED <<disk, acked, tried, glued, remains>>,
         Sound(c, disk, acked, tried, glued, remains),
         engine[e].pc # "erase" /\ (Fresh(engine[e]) /\ disk.open.hour = 0 => Fresh(c))
  PROVE  StoreInv'
<1>1. /\ disk \in Disk /\ acked \in [Hours -> Tally] /\ tried \in [Hours -> Tally] /\ remains \in BOOLEAN
      /\ Holds(disk.open, acked, disk, glued)
      /\ remains \/ (FilesBounded(disk, tried) /\ Bounded(disk.open, tried))
  BY DEF StoreInv, StoreTypes
<1>2. \A d \in Engines : engine[d].pc # "erase"
  BY BusyIs DEF Alone
<1>3. remains \/ disk.meta \/ (Blank(disk) /\ Fresh(c))
  BY <1>2 DEF StoreInv, Named, Blank
<1> QED
  BY <1>1, <1>3, WriterStep

LEMMA RecordFailsInv ==
  ASSUME StoreInv, Alone, NEW e \in Engines, RecordFails(e)
  PROVE  StoreInv'
<1> DEFINE n == Returned(engine[e])
<1>1. engine[e].pc \in {"checkpoint", "beat"}
  BY DEF RecordFails
<1>2. /\ n \in Process /\ n.mode = "writer" /\ n.cached /\ n.meta /\ n.pc = "idle"
      /\ n.open = engine[e].open
  BY <1>1, RecordingIs, ReturnedIs
<1>3. engine' = [engine EXCEPT ![e] = n] /\ UNCHANGED <<disk, acked, tried, glued, remains>>
  BY DEF RecordFails
<1> HIDE DEF n
<1>4. Sound(n, disk, acked, tried, glued, remains)
  BY <1>1, <1>2, RecordingIs DEF Sound, Recording
<1>5. ~Fresh(engine[e])
  BY <1>1, RecordingIs DEF Fresh
<1> QED
  BY <1>1, <1>2, <1>3, <1>4, <1>5, RecordingIs, EngineStep

LEMMA QueryInv ==
  ASSUME StoreInv, Alone, NEW e \in Engines, Query(e)
  PROVE  StoreInv'
<1> DEFINE n == Loaded(e)
<1>1. /\ engine[e].mode \in {"writer", "readonly"} /\ engine[e].pc = "idle" /\ ~engine[e].cached
      /\ engine' = [engine EXCEPT ![e] = n] /\ UNCHANGED <<disk, acked, tried, glued, remains>>
  BY DEF Query, Idle
<1>2. /\ n \in Process /\ n.cached /\ n.open \in OpenHour
      /\ n.mode = engine[e].mode /\ n.pc = "idle"
      /\ n.meta => engine[e].meta
      /\ Writes(e) => /\ Holds(n.open, acked, disk, glued)
                      /\ disk.open.hour <= n.open.hour
                      /\ remains \/ Bounded(n.open, tried)
      /\ Fresh(engine[e]) /\ Writes(e) /\ disk.open.hour = 0 => n.open.hour = 0
  BY <1>1, LoadedIs
<1> HIDE DEF n
<1>3. Sound(n, disk, acked, tried, glued, remains)
  BY <1>1, <1>2 DEF Sound, Recording, Writes
<1>4. CASE Writes(e)
  <2>1. Fresh(engine[e]) /\ disk.open.hour = 0 => Fresh(n)
    BY <1>2, <1>4 DEF Fresh, Writes
  <2> QED
    BY <1>1, <1>2, <1>3, <1>4, <2>1, EngineStep
<1>5. CASE ~Writes(e)
  <2>1. Fresh(n)
    BY <1>2, <1>5 DEF Fresh, Writes
  <2>2. engine' \in [Engines -> Process] /\ engine'[e] = n /\ \A d \in Engines \ {e} : engine'[d] = engine[d]
    BY <1>1, <1>2 DEF StoreInv, StoreTypes
  <2>3. StoreTypes'
    BY <1>1, <2>2 DEF StoreInv, StoreTypes
  <2>4. \A d \in Engines : Sound(engine'[d], disk, acked, tried, glued, remains)
    BY <1>3, <2>2 DEF StoreInv
  <2>5. Named'
    BY <1>1, <2>1, <2>2 DEF StoreInv, Named
  <2> QED
    BY <1>1, <2>3, <2>4, <2>5 DEF StoreInv
<1> QED
  BY <1>4, <1>5

-----------------------------------------------------------------------------
(* EraseCluster *)

LEMMA EraseInv ==
  ASSUME StoreInv, Alone, NEW e \in Engines, Erase(e)
  PROVE  StoreInv'
<1> DEFINE c == engine[e]
<1>1. /\ Writes(e) /\ c.pc = "idle" /\ acked' = Nothing /\ UNCHANGED <<disk, glued, remains>>
      /\ c \in Process /\ c.mode = "writer" /\ c.open \in OpenHour
      /\ disk \in Disk /\ disk.open \in OpenHour /\ tried \in [Hours -> Tally] /\ remains \in BOOLEAN
  BY WriterIs, DiskIs DEF Erase, Idle, StoreTypes
<1>2. /\ Nothing \in [Hours -> Tally]
      /\ Holds(disk.open, Nothing, disk, glued) /\ Holds(c.open, Nothing, disk, glued)
  BY <1>1, NothingHolds
<1>3. /\ c.cached => disk.open.hour <= c.open.hour /\ (remains \/ Bounded(c.open, tried))
      /\ c.meta => remains \/ disk.meta
      /\ remains \/ (FilesBounded(disk, tried) /\ Bounded(disk.open, tried))
  BY <1>1, WriterIs DEF StoreInv
<1>4. CASE disk.meta
  <2> DEFINE n == [c EXCEPT !.pc = "erase"]
  <2>1. /\ n \in Process /\ n.mode = "writer" /\ n.pc = "erase" /\ n.cached = c.cached
        /\ n.meta = c.meta /\ n.open = c.open
    BY <1>1 DEF Process
  <2>2. engine' = [engine EXCEPT ![e] = n] /\ tried' = tried
    BY <1>4 DEF Erase
  <2> HIDE DEF n
  <2>3. Sound(n, disk, Nothing, tried, glued, remains)
    BY <1>2, <1>3, <2>1 DEF Sound, Recording
  <2> QED
    BY <1>1, <1>2, <1>3, <2>1, <2>2, <2>3, WriterStep
<1>5. CASE ~disk.meta
  <2>1. engine' = engine /\ tried' = Nothing
    BY <1>5 DEF Erase
  <2>2. engine' = [engine EXCEPT ![e] = c]
    BY <2>1 DEF StoreInv, StoreTypes
  <2>3. \A d \in Engines : engine[d].pc # "erase"
    BY <1>1, BusyIs DEF Alone
  <2>4. remains \/ (Blank(disk) /\ Fresh(c))
    BY <1>5, <2>3 DEF StoreInv, Named
  <2>5. remains \/ (FilesBounded(disk, Nothing) /\ Bounded(disk.open, Nothing))
    <3>1. \A h \in Hours : Nothing[h] = Zero
      BY DEF Nothing
    <3> QED
      BY <2>4, <3>1, TallyIs DEF Blank, FilesBounded, Bounded
  <2>6. c.cached => remains \/ Bounded(c.open, Nothing)
    BY <1>1, <2>4, TallyIs DEF Fresh, Bounded
  <2>7. Sound(c, disk, Nothing, Nothing, glued, remains)
    <3>1. ~(c.mode \in {"off", "opening"}) /\ ~(c.pc \in {"flush", "health", "checkpoint", "beat", "erase"})
      BY <1>1
    <3> QED
      BY <1>1, <1>2, <1>3, <2>6, <3>1 DEF Sound, Recording
  <2> QED
    BY <1>1, <1>2, <2>1, <2>2, <2>4, <2>5, <2>7, WriterStep
<1> QED
  BY <1>4, <1>5

(* While it erases. *)
LEMMA ErasingIs ==
  ASSUME StoreInv, Alone, NEW e \in Engines, engine[e].pc = "erase"
  PROVE  /\ Writes(e) /\ engine[e] \in Process /\ engine[e].mode = "writer" /\ engine[e].open \in OpenHour
         /\ engine[e].open.hour \in Nat
         /\ acked = Nothing /\ Nothing \in [Hours -> Tally]
         /\ disk \in Disk /\ disk.open \in OpenHour /\ disk.open.hour \in Nat
         /\ tried \in [Hours -> Tally] /\ remains \in BOOLEAN
         /\ engine[e].cached => /\ disk.open.hour <= engine[e].open.hour
                                /\ remains \/ Bounded(engine[e].open, tried)
         /\ remains \/ (FilesBounded(disk, tried) /\ Bounded(disk.open, tried))
<1>1. Writes(e)
  BY BusyIs
<1>2. acked = Nothing
  BY DEF StoreInv, Sound, Recording
<1>3. disk \in Disk /\ disk.open \in OpenHour /\ disk.open.hour \in 0 .. MaxHour
  BY <1>1, WriterIs, DiskIs
<1>4. disk.open.hour \in Nat /\ engine[e].open.hour \in Nat
  BY <1>1, <1>3, WriterIs, DataShape
<1>5. engine[e].cached => /\ disk.open.hour <= engine[e].open.hour
                          /\ remains \/ Bounded(engine[e].open, tried)
  BY <1>1, WriterIs
<1> QED
  BY <1>1, <1>2, <1>3, <1>4, <1>5, WriterIs DEF StoreInv, StoreTypes

LEMMA EmptyIs ==
  /\ Empty(Names) \in File(Names) /\ Empty(Sick) \in File(Sick)
  /\ \A x \in Names : Empty(Names).n[x] = 0
  /\ \A w \in Workloads : Empty(Sick).n[w] = 0
BY DEF Empty, File, Sick

LEMMA EraseFileInv ==
  ASSUME StoreInv, Alone, NEW e \in Engines, EraseFile(e)
  PROVE  StoreInv'
<1> DEFINE c == engine[e]
<1>1. /\ c.pc = "erase" /\ UNCHANGED <<engine, acked, tried, glued, remains>>
      /\ disk' \in Parts
  BY DEF EraseFile
<1>2. engine' = [engine EXCEPT ![e] = c]
  BY <1>1 DEF StoreInv, StoreTypes
<1>3. /\ disk' \in Disk /\ disk'.open \in OpenHour /\ disk'.open.hour \in Nat
      /\ disk'.open.hour <= disk.open.hour
      /\ Bounded(disk.open, tried) => Bounded(disk'.open, tried)
      /\ \A h \in Hours : /\ disk'.day[h] \in {disk.day[h], Empty(Names)}
                          /\ disk'.health[h] \in {disk.health[h], Empty(Sick)}
  <2>1. disk \in Disk /\ disk.open \in OpenHour /\ disk.open.hour \in Nat
    BY <1>1, ErasingIs
  <2>2. disk.open.hour <= disk.open.hour /\ 0 <= disk.open.hour
    BY <2>1
  <2>3. Bounded(NoHour, tried)
    BY TallyIs DEF Bounded
  <2>4. CASE disk' = [disk EXCEPT !.meta = FALSE]
    BY <2>1, <2>2, <2>4 DEF Disk
  <2>5. CASE disk' = [disk EXCEPT !.open = NoHour]
    <3>1. /\ disk' \in Disk /\ disk'.open = NoHour
          /\ disk'.day = disk.day /\ disk'.health = disk.health
      BY <2>1, <2>5, TallyIs DEF Disk
    <3> QED
      BY <2>1, <2>2, <2>3, <3>1, TallyIs
  <2>6. CASE \E h \in Hours : disk' = [disk EXCEPT !.day[h] = Empty(Names)]
    <3>1. PICK h \in Hours : disk' = [disk EXCEPT !.day[h] = Empty(Names)]
      BY <2>6
    <3>2. disk' \in Disk /\ disk'.open = disk.open /\ disk'.health = disk.health
          /\ disk'.day = [disk.day EXCEPT ![h] = Empty(Names)]
      BY <2>1, <3>1, EmptyIs DEF Disk
    <3> QED
      BY <2>1, <2>2, <3>2, DiskIs
  <2>7. CASE \E h \in Hours : disk' = [disk EXCEPT !.health[h] = Empty(Sick)]
    <3>1. PICK h \in Hours : disk' = [disk EXCEPT !.health[h] = Empty(Sick)]
      BY <2>7
    <3>2. disk' \in Disk /\ disk'.open = disk.open /\ disk'.day = disk.day
          /\ disk'.health = [disk.health EXCEPT ![h] = Empty(Sick)]
      BY <2>1, <3>1, EmptyIs DEF Disk
    <3> QED
      BY <2>1, <2>2, <3>2, DiskIs
  <2> QED
    BY <1>1, <2>4, <2>5, <2>6, <2>7 DEF Parts
<1>4. Holds(disk'.open, Nothing, disk', glued) /\ Holds(c.open, Nothing, disk', glued)
  BY <1>1, <1>3, ErasingIs, NothingHolds
<1>5. FilesBounded(disk, tried) => FilesBounded(disk', tried)
  <2> SUFFICES ASSUME FilesBounded(disk, tried), NEW h \in Hours
               PROVE  /\ \A x \in Names : disk'.day[h].n[x] <= tried[h].ns[x]
                      /\ \A w \in Workloads : disk'.health[h].n[w] <= tried[h].sick[w]
    BY DEF FilesBounded
  <2>1. tried[h].ns \in [Names -> Nat] /\ tried[h].sick \in [Workloads -> Nat]
    BY <1>1, ErasingIs DEF Tally
  <2>2. /\ \A x \in Names : 0 <= tried[h].ns[x]
        /\ \A w \in Workloads : 0 <= tried[h].sick[w]
    BY <2>1
  <2> QED
    BY <1>3, <2>2, EmptyIs DEF FilesBounded
<1>6. Sound(c, disk', acked, tried, glued, remains)
  <2>1. c.cached => disk'.open.hour <= c.open.hour
    BY <1>1, <1>3, ErasingIs
  <2> QED
    BY <1>1, <1>4, <2>1, ErasingIs DEF Sound, Recording
<1>7. remains \/ (FilesBounded(disk', tried) /\ Bounded(disk'.open, tried))
  BY <1>1, <1>3, <1>5, ErasingIs
<1>8. /\ Writes(e) /\ c \in Process
      /\ acked' \in [Hours -> Tally] /\ tried' \in [Hours -> Tally] /\ remains' \in BOOLEAN
      /\ acked' = Nothing
  BY <1>1, ErasingIs
<1>9. /\ Sound(c, disk', acked', tried', glued', remains')
      /\ Holds(disk'.open, acked', disk', glued')
      /\ remains' \/ (FilesBounded(disk', tried') /\ Bounded(disk'.open, tried'))
  BY <1>1, <1>4, <1>6, <1>7, <1>8
<1>10. c.pc = "erase" /\ disk' \in Disk
  BY <1>1, <1>3
<1> HIDE DEF c
<1> QED
  BY <1>2, <1>8, <1>9, <1>10, WriterStep

LEMMA EraseEndsInv ==
  ASSUME StoreInv, Alone, NEW e \in Engines, EraseEnds(e)
  PROVE  StoreInv'
<1> DEFINE n == [Off EXCEPT !.mode = "writer"]
<1>1. /\ engine[e].pc = "erase" /\ Parts = {} /\ engine' = [engine EXCEPT ![e] = n]
      /\ tried' = Nothing /\ glued' = {} /\ remains' = FALSE /\ UNCHANGED <<disk, acked>>
  BY DEF EraseEnds
<1>2. n \in Process /\ n.mode = "writer" /\ n.pc = "idle" /\ ~n.cached /\ ~n.meta
  BY OffIs DEF Process
<1>3. Blank(disk)
  <2>1. disk \in Disk
    BY <1>1, ErasingIs
  <2>2. disk = [disk EXCEPT !.open = NoHour]
    BY <1>1 DEF Parts
  <2>3. disk.open = NoHour
    BY <2>1, <2>2 DEF Disk
  <2>4. \A h \in Hours : disk = [disk EXCEPT !.day[h] = Empty(Names)]
    BY <1>1 DEF Parts
  <2>5. \A h \in Hours : disk = [disk EXCEPT !.health[h] = Empty(Sick)]
    BY <1>1 DEF Parts
  <2>6. \A h \in Hours : disk.day[h] = Empty(Names)
    <3> TAKE h \in Hours
    <3>1. disk.day = [disk EXCEPT !.day[h] = Empty(Names)].day
      BY <2>4
    <3>2. disk.day = [disk.day EXCEPT ![h] = Empty(Names)]
      BY <2>1, <3>1 DEF Disk
    <3> QED
      BY <2>1, <3>2, DiskIs
  <2>7. \A h \in Hours : disk.health[h] = Empty(Sick)
    <3> TAKE h \in Hours
    <3>1. disk.health = [disk EXCEPT !.health[h] = Empty(Sick)].health
      BY <2>5
    <3>2. disk.health = [disk.health EXCEPT ![h] = Empty(Sick)]
      BY <2>1, <3>1 DEF Disk
    <3> QED
      BY <2>1, <3>2, DiskIs
  <2> QED
    BY <2>3, <2>6, <2>7, EmptyIs, TallyIs DEF Blank
<1>4. FilesBounded(disk, Nothing) /\ Bounded(disk.open, Nothing)
  <2>1. \A h \in Hours : Nothing[h] = Zero
    BY DEF Nothing
  <2> QED
    BY <1>3, <2>1, TallyIs DEF Blank, FilesBounded, Bounded
<1>5. Holds(disk.open, Nothing, disk, {})
  BY <1>1, ErasingIs, NothingHolds
<1> HIDE DEF n
<1>6. Sound(n, disk, acked, Nothing, {}, FALSE) /\ Fresh(n)
  BY <1>2 DEF Sound, Recording, Fresh
<1> QED
  BY <1>1, <1>2, <1>3, <1>4, <1>5, <1>6, ErasingIs, WriterStep

LEMMA EraseFailsInv ==
  ASSUME StoreInv, Alone, NEW e \in Engines, EraseFails(e)
  PROVE  StoreInv'
<1> DEFINE c == engine[e]
           n == [c EXCEPT !.pc = "idle"]
<1>1. /\ c.pc = "erase" /\ engine' = [engine EXCEPT ![e] = n]
      /\ remains' = TRUE /\ UNCHANGED <<disk, acked, tried, glued>>
  BY DEF EraseFails
<1>2. /\ n \in Process /\ n.mode = "writer" /\ n.pc = "idle" /\ n.cached = c.cached /\ n.open = c.open
  BY <1>1, ErasingIs DEF Process
<1> HIDE DEF n
<1>3. Holds(disk.open, Nothing, disk, glued) /\ Holds(c.open, Nothing, disk, glued)
  BY <1>1, ErasingIs, NothingHolds
<1>4. Sound(n, disk, acked, tried, glued, TRUE)
  BY <1>1, <1>2, <1>3, ErasingIs DEF Sound, Recording
<1> QED
  BY <1>1, <1>2, <1>3, <1>4, ErasingIs, WriterStep

-----------------------------------------------------------------------------
(* HistoryStore: theorems *)

LEMMA StoreNextInv == StoreInv /\ OneWriter /\ [StoreNext]_storeVars => StoreInv'
<1> SUFFICES ASSUME StoreInv, OneWriter, [StoreNext]_storeVars PROVE StoreInv'
  OBVIOUS
<1>1. Alone
  BY OneIsAlone
<1>2. CASE UNCHANGED storeVars
  BY <1>2 DEF storeVars, StoreInv, StoreTypes, Named
<1>3. CASE LockAges
  BY <1>3, LockAgesInv
<1>4. CASE \E e \in Engines : OpenStore(e) \/ Acquire(e) \/ CloseStore(e) \/ Crash(e)
  BY <1>4, ComesAndGoesInv
<1>5. CASE \E e \in Engines, h \in Hours, o \in Obs : Record(e, h, o)
  BY <1>1, <1>5, RecordInv
<1>6. CASE \E e \in Engines : FlushDay(e) \/ FlushHealth(e) \/ FlushShort(e)
  BY <1>1, <1>6, FlushDayInv, FlushHealthInv, FlushShortInv
<1>7. CASE \E e \in Engines : Checkpoint(e) \/ Heartbeat(e) \/ RecordFails(e) \/ Query(e)
  BY <1>1, <1>7, CheckpointInv, HeartbeatInv, RecordFailsInv, QueryInv
<1>8. CASE \E e \in Engines : Erase(e) \/ EraseFile(e) \/ EraseEnds(e) \/ EraseFails(e)
  BY <1>1, <1>8, EraseInv, EraseFileInv, EraseEndsInv, EraseFailsInv
<1> QED
  BY <1>2, <1>3, <1>4, <1>5, <1>6, <1>7, <1>8 DEF StoreNext

LEMMA StoreAlwaysInv == StoreSpec /\ []OneWriter => []StoreInv
BY InitStoreInv, StoreNextInv, PTL DEF StoreSpec

(* brokenTicksFor grows with the ticks of the hour, and is never zero. *)
LEMMA MoreTicksNeedMore ==
  ASSUME NEW m \in Nat, NEW n \in Nat, m <= n
  PROVE  BrokenTicksFor(m) <= BrokenTicksFor(n) /\ BrokenTicksFor(m) \in Nat /\ BrokenTicksFor(n) \in Nat
         /\ BrokenTicksFor(n) > 0
BY DEF BrokenTicksFor

(* What is read of hour h from a view: all that was acknowledged, but for lines that
   were lost, and no more than was counted. *)
LEMMA ViewReads ==
  ASSUME StoreInv, NEW open \in Views, NEW h \in Hours
  PROVE  /\ open \in OpenHour /\ open.of \in Tally /\ open.hour \in Nat
         /\ Holds(open, acked, disk, glued)
         /\ remains \/ (FilesBounded(disk, tried) /\ Bounded(open, tried))
         /\ acked[h].ns \in [Names -> Nat] /\ acked[h].sick \in [Workloads -> Nat]
         /\ tried[h].ns \in [Names -> Nat] /\ tried[h].sick \in [Workloads -> Nat]
         /\ open.of.ns \in [Names -> Nat] /\ open.of.sick \in [Workloads -> Nat]
         /\ disk.day[h].n \in [Names -> Nat]
         /\ disk.health[h].n[Overflow] \in Nat /\ \A w \in Workloads : disk.health[h].n[w] \in Nat
<1>1. disk \in Disk /\ acked \in [Hours -> Tally] /\ tried \in [Hours -> Tally]
  BY DEF StoreInv, StoreTypes
<1>2. /\ open \in OpenHour /\ Holds(open, acked, disk, glued)
      /\ remains \/ (FilesBounded(disk, tried) /\ Bounded(open, tried))
  <2>1. CASE open = disk.open
    BY <1>1, <2>1, DiskIs DEF StoreInv
  <2>2. CASE \E e \in Engines : Writes(e) /\ engine[e].cached /\ open = engine[e].open
    BY <2>2, WriterIs DEF StoreInv
  <2> QED
    BY <2>1, <2>2 DEF Views
<1>3. open.of \in Tally /\ open.hour \in 0 .. MaxHour
  BY <1>2 DEF OpenHour
<1>4. open.hour \in Nat
  BY <1>3, DataShape
<1>5. \A t \in Tally : t.ns \in [Names -> Nat] /\ t.sick \in [Workloads -> Nat]
  BY DEF Tally
<1> QED
  BY <1>1, <1>2, <1>3, <1>4, <1>5, DiskIs

(* A reading of the samples, and of the broken ticks, is what was counted at most. *)
LEMMA ReadsNoMore ==
  ASSUME StoreInv, NEW open \in Views, NEW h \in Hours, ~remains
  PROVE  /\ \A x \in Names : Samples(open, h, x) \in Nat /\ Samples(open, h, x) <= tried[h].ns[x]
         /\ \A w \in Workloads : Broken(open, h, w) <= tried[h].sick[w]
<1>1. \A x \in Names : disk.day[h].n[x] <= tried[h].ns[x]
  BY ViewReads DEF FilesBounded
<1>2. \A w \in Workloads : disk.health[h].n[w] <= tried[h].sick[w]
  BY ViewReads DEF FilesBounded
<1>3. open.hour = h => Within(open.of, tried[h])
  BY ViewReads DEF Bounded
<1>4. \A x \in Names : open.of.ns[x] \in Nat /\ disk.day[h].n[x] \in Nat
  BY ViewReads
<1> QED
  BY <1>1, <1>2, <1>3, <1>4 DEF Samples, Broken, Within

(* While one engine writes at a time, every hour keeps what was acknowledged and
   counts nothing twice. *)
THEOREM CountsAlwaysStand == StoreSpec /\ []OneWriter => []CountsStand
<1>1. StoreInv => CountsStand
  <2> SUFFICES ASSUME StoreInv, NEW open \in Views, NEW h \in Hours
               PROVE  /\ \A x \in Names :
                           /\ <<<<"day", h>>, x>> \in glued \/ Samples(open, h, x) >= acked[h].ns[x]
                           /\ remains \/ Samples(open, h, x) <= tried[h].ns[x]
                      /\ remains \/ \A w \in Workloads : Broken(open, h, w) <= tried[h].sick[w]
    BY DEF CountsStand
  <2>1. remains \/ (/\ \A x \in Names : Samples(open, h, x) <= tried[h].ns[x]
                    /\ \A w \in Workloads : Broken(open, h, w) <= tried[h].sick[w])
    BY ReadsNoMore
  <2>2. ASSUME NEW x \in Names
        PROVE  <<<<"day", h>>, x>> \in glued \/ Samples(open, h, x) >= acked[h].ns[x]
    <3>1. /\ acked[h].ns[x] \in Nat /\ open.of.ns[x] \in Nat /\ disk.day[h].n[x] \in Nat
          /\ open.hour \in Nat /\ h \in Nat
      BY ViewReads, TallyIs
    <3>2. CASE h > open.hour
      <4>1. acked[h].ns[x] = 0
        BY <3>2, ViewReads, TallyIs DEF Holds
      <4>2. Samples(open, h, x) \in Nat
        BY <3>1 DEF Samples
      <4> QED
        BY <4>1, <4>2
    <3>3. CASE h = open.hour
      <4>1. acked[h].ns[x] <= open.of.ns[x]
        BY <3>3, ViewReads DEF Holds, Within
      <4> QED
        BY <3>1, <3>3, <4>1 DEF Samples
    <3>4. CASE h < open.hour
      <4>1. <<<<"day", h>>, x>> \in glued \/ acked[h].ns[x] <= disk.day[h].n[x]
        BY <3>4, ViewReads DEF Holds, DayHolds
      <4>2. Samples(open, h, x) = disk.day[h].n[x]
        BY <3>1, <3>4 DEF Samples
      <4> QED
        BY <3>1, <4>1, <4>2
    <3> QED
      BY <3>1, <3>2, <3>3, <3>4
  <2> QED
    BY <2>1, <2>2
<1> QED
  BY <1>1, StoreAlwaysInv, PTL

(* While one engine writes at a time, an hour in which a workload was broken long
   enough never reads as a clean one. *)
THEOREM BrokenNeverReadsAsClean == StoreSpec /\ []OneWriter => []NeverReadsAsClean
<1>1. StoreInv => NeverReadsAsClean
  <2> SUFFICES ASSUME StoreInv, NEW open \in Views, NEW h \in Hours, NEW w \in Workloads, ~remains,
                      <<<<"health", h>>, w>> \notin glued,
                      acked[h].sick[w] >= BrokenTicksFor(tried[h].ns[Total])
               PROVE  Verdict(open, h, w) # "clean"
    BY DEF NeverReadsAsClean
  <2> DEFINE n == Samples(open, h, Total)
             b == Broken(open, h, w)
  <2>1. n \in Nat /\ n <= tried[h].ns[Total] /\ tried[h].ns[Total] \in Nat
    BY ReadsNoMore, ViewReads, DataShape
  <2>2. /\ acked[h].sick[w] \in Nat /\ open.of.sick[w] \in Nat /\ disk.health[h].n[w] \in Nat
        /\ open.hour \in Nat /\ h \in Nat
    BY ViewReads, TallyIs
  <2>3. acked[h].sick[w] > 0 /\ acked[h].sick[w] >= BrokenTicksFor(n) /\ BrokenTicksFor(n) \in Nat
    BY <2>1, <2>2, MoreTicksNeedMore
  <2>4. \/ b \in Nat /\ b >= acked[h].sick[w]
        \/ b = 0 /\ disk.health[h].n[Overflow] > 0
    <3>1. CASE h > open.hour
      <4>1. acked[h].sick[w] = 0
        BY <3>1, ViewReads, TallyIs DEF Holds
      <4> QED
        BY <2>3, <4>1
    <3>2. CASE h = open.hour
      <4>1. acked[h].sick[w] <= open.of.sick[w]
        BY <3>2, ViewReads DEF Holds, Within
      <4> QED
        BY <2>2, <2>3, <3>2, <4>1 DEF Broken
    <3>3. CASE h < open.hour
      <4>1. \/ acked[h].sick[w] <= disk.health[h].n[w]
            \/ disk.health[h].n[w] = 0 /\ disk.health[h].n[Overflow] > 0
        BY <3>3, ViewReads DEF Holds, HealthHolds
      <4>2. b = disk.health[h].n[w]
        BY <2>2, <3>3 DEF Broken
      <4> QED
        BY <2>2, <4>1, <4>2
    <3> QED
      BY <2>2, <3>1, <3>2, <3>3
  <2>5. b >= BrokenTicksFor(n) \/ (b = 0 /\ disk.health[h].n[Overflow] > 0)
    <3> HIDE DEF b, n
    <3> QED
      BY <2>2, <2>3, <2>4
  <2> QED
    BY <2>5 DEF Verdict
<1> QED
  BY <1>1, StoreAlwaysInv, PTL
=============================================================================
