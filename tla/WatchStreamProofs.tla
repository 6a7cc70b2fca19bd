-------------------------- MODULE WatchStreamProofs --------------------------
(***************************************************************************)
(* Theorems about WatchStream, for any namespaces and objects, any         *)
(* capacity of the fanouts and any bounds.                                 *)
(***************************************************************************)
EXTENDS WatchStream, SequenceTheorems, WellFoundedInduction, TLAPS

-----------------------------------------------------------------------------
(* The inductive invariant *)

(* What a namespace of the subscription has come to is what its entry has. *)
Lives(n) ==
  /\ entry[n].synced => entry[n].listed
  /\ ~ entry[n].listed => Len(entry[n].events) = 0 /\ Len(entry[n].fanout) = 0
  /\ n \in sub.due \cup sub.answered \cup sub.refused => sub.at[n] = "joined"
  /\ n \in sub.due \cup sub.answered => entry[n].synced
  /\ n \in sub.refused => entry[n].failed
  /\ \A k \in Keys : Has(entry[n].events, k) \/ Has(entry[n].fanout, k) => Home(k) = n

(* The merge of the answers of a subscription s, and how far the hub is with it. *)
Merges(s) ==
  /\ s.answered \cap s.refused = {}
  /\ s.snapshot \subseteq s.answered \cup s.refused
  /\ s.snapshot # {} => s.snapshot \cup s.refused = Namespaces
  /\ s.answered \cup s.refused = Namespaces /\ s.answered # {} => s.snapshot # {}
  /\ s.ended => s.refused = Namespaces
  /\ \A i \in DOMAIN s.deny : s.deny[i] \in s.refused

Merging ==
  /\ Merges(sub)
  /\ hub \in {"begun", "filled", "live"} => sub.snapshot # {}

(* Object k: a row captured and not changed since is the cluster's, the buffer of a
   snapshot has what was captured, and the queue only what a joined entry sent. *)
Kept(k) ==
  /\ Home(k) \in sub.answered /\ k \notin sub.changed => sub.captured[k] = live[k]
  /\ hub = "filled" /\ Home(k) \in sub.snapshot => client.buffer[k] = Shown(sub.captured[k])
  /\ Has(sub.queue, k) => sub.at[Home(k)] = "joined" /\ entry[Home(k)].listed

(* The newest event of k on its way says what k is; if none is, the client does. *)
Current(k) ==
  /\ Has(entry[Home(k)].events, k) => Newest(entry[Home(k)].events, k) = live[k]
  /\ k \notin missed /\ ~ Has(entry[Home(k)].events, k) =>
       /\ Has(entry[Home(k)].fanout, k) => Newest(entry[Home(k)].fanout, k) = live[k]
       /\ ~ Has(entry[Home(k)].fanout, k) =>
            /\ Has(sub.queue, k) => Newest(sub.queue, k) = live[k]
            /\ Home(k) \in sub.answered /\ ~ Has(sub.queue, k) =>
                 k \in early \/ Held(k) = Shown(live[k])

Inv ==
  /\ TypeOK /\ Merging
  /\ \A n \in Namespaces : Lives(n)
  /\ \A k \in Keys : Kept(k)
  /\ \A k \in Keys : ~ entry[Home(k)].failed => Current(k)

-----------------------------------------------------------------------------
(* The newest op of a key *)

LEMMA Smallest ==
  ASSUME NEW T \in SUBSET Nat, T # {}
  PROVE  \E x \in T : \A y \in T : x <= y
<1> DEFINE R == OpToRel(<, Nat)
<1>1. IsWellFoundedOn(R, Nat)
  BY NatLessThanWellFounded
<1>2. \A x, y \in Nat : x < y => <<x, y>> \in R
  BY DEF OpToRel
<1> HIDE DEF R
<1>3. PICK x \in T : \A y \in T : ~ (<<y, x>> \in R)
  BY <1>1, WFMin
<1>4. \A y \in T : ~ (y < x)
  BY <1>2, <1>3, Zenon
<1>5. x \in Nat /\ \A y \in T : y \in Nat
  OBVIOUS
<1> QED
  BY <1>4, <1>5

(* Where the newest op is. *)
LastOf(s, k, i) ==
  i \in DOMAIN s /\ s[i].key = k /\ \A j \in DOMAIN s : s[j].key = k => j <= i

LEMMA NewestAt ==
  ASSUME NEW s \in Seq(Op), NEW k, NEW i, LastOf(s, k, i)
  PROVE  Newest(s, k) = s[i].row
<1> DEFINE P(c) == s[c].key = k /\ \A j \in DOMAIN s : s[j].key = k => j <= c
<1>1. i \in DOMAIN s /\ P(i)
  BY DEF LastOf
<1>2. \A c \in DOMAIN s : P(c) => c = i
  BY <1>1
<1>3. (CHOOSE c \in DOMAIN s : P(c)) = i
  BY <1>1, <1>2
<1> QED
  BY <1>3 DEF Newest

LEMMA NewestExists ==
  ASSUME NEW s \in Seq(Op), NEW k, Has(s, k)
  PROVE  \E i : LastOf(s, k, i)
<1> DEFINE T == {Len(s) - i : i \in {j \in DOMAIN s : s[j].key = k}}
<1>1. PICK i \in DOMAIN s : s[i].key = k
  BY DEF Has
<1>2. T \in SUBSET Nat /\ T # {}
  BY <1>1
<1>3. PICK x \in T : \A y \in T : x <= y
  BY <1>2, Smallest
<1>4. PICK c \in {j \in DOMAIN s : s[j].key = k} : x = Len(s) - c
  BY <1>3
<1>5. \A j \in DOMAIN s : s[j].key = k => Len(s) - c <= Len(s) - j
  BY <1>3, <1>4
<1>6. LastOf(s, k, c)
  BY <1>4, <1>5 DEF LastOf
<1> QED
  BY <1>6

LEMMA NewestOfAppend ==
  ASSUME NEW s \in Seq(Op), NEW op \in Op, NEW k
  PROVE  /\ Has(Append(s, op), k) <=> Has(s, k) \/ op.key = k
         /\ op.key = k => Newest(Append(s, op), k) = op.row
         /\ op.key # k /\ Has(s, k) => Newest(Append(s, op), k) = Newest(s, k)
<1> DEFINE t == Append(s, op)
<1>1. /\ t \in Seq(Op) /\ DOMAIN s = 1 .. Len(s) /\ DOMAIN t = 1 .. (Len(s) + 1) /\ Len(s) \in Nat
      /\ t[Len(s) + 1] = op /\ \A i \in 1 .. Len(s) : t[i] = s[i]
  BY AppendProperties
<1> HIDE DEF t
<1>2. Has(t, k) <=> Has(s, k) \/ op.key = k
  BY <1>1 DEF Has
<1>3. ASSUME op.key = k PROVE Newest(t, k) = op.row
  <2>1. LastOf(t, k, Len(s) + 1)
    BY <1>1, <1>3 DEF LastOf
  <2> QED
    BY <1>1, <2>1, NewestAt
<1>4. ASSUME op.key # k, Has(s, k) PROVE Newest(t, k) = Newest(s, k)
  <2>1. PICK i : LastOf(s, k, i)
    BY <1>4, NewestExists
  <2>2. LastOf(t, k, i) /\ t[i] = s[i]
    BY <1>1, <1>4, <2>1 DEF LastOf
  <2> QED
    BY <1>1, <2>1, <2>2, NewestAt
<1> QED
  BY <1>2, <1>3, <1>4 DEF t

LEMMA NewestOfSuffix ==
  ASSUME NEW s \in Seq(Op), NEW n \in 0 .. Len(s), NEW k
  PROVE  /\ SubSeq(s, n + 1, Len(s)) \in Seq(Op) /\ SubSeq(s, 1, n) \in Seq(Op)
         /\ Has(SubSeq(s, n + 1, Len(s)), k) =>
              Has(s, k) /\ Newest(s, k) = Newest(SubSeq(s, n + 1, Len(s)), k)
         /\ Has(s, k) /\ ~ Has(SubSeq(s, n + 1, Len(s)), k) =>
              Has(SubSeq(s, 1, n), k) /\ Newest(s, k) = Newest(SubSeq(s, 1, n), k)
         /\ ~ Has(s, k) => ~ Has(SubSeq(s, 1, n), k)
<1> DEFINE f == SubSeq(s, 1, n)
           t == SubSeq(s, n + 1, Len(s))
<1>1. n \in Nat /\ Len(s) \in Nat /\ DOMAIN s = 1 .. Len(s)
  OBVIOUS
<1>2. f \in Seq(Op) /\ DOMAIN f = 1 .. n /\ \A i \in 1 .. n : f[i] = s[i]
  BY <1>1, SubSeqProperties
<1>3. t \in Seq(Op) /\ DOMAIN t = 1 .. (Len(s) - n) /\ \A i \in 1 .. (Len(s) - n) : t[i] = s[n + i]
  BY <1>1, SubSeqProperties
<1> HIDE DEF f, t
<1>4. ASSUME Has(t, k) PROVE Has(s, k) /\ Newest(s, k) = Newest(t, k)
  <2>1. PICK i : LastOf(t, k, i)
    BY <1>3, <1>4, NewestExists
  <2>2. i \in 1 .. (Len(s) - n) /\ n + i \in DOMAIN s /\ t[i] = s[n + i]
    BY <1>1, <1>3, <2>1 DEF LastOf
  <2>3. ASSUME NEW j \in DOMAIN s, s[j].key = k PROVE j <= n + i
    <3>1. CASE j <= n
      BY <1>1, <2>2, <3>1
    <3>2. CASE j > n
      <4>1. j - n \in DOMAIN t /\ t[j - n] = s[j]
        BY <1>1, <1>3, <3>2
      <4> QED
        BY <1>1, <1>3, <2>1, <2>2, <2>3, <4>1 DEF LastOf
    <3> QED
      BY <1>1, <3>1, <3>2
  <2>4. LastOf(s, k, n + i)
    BY <2>1, <2>2, <2>3 DEF LastOf
  <2>5. Newest(s, k) = s[n + i].row /\ Newest(t, k) = t[i].row
    BY <1>3, <2>1, <2>4, NewestAt
  <2>6. Has(s, k)
    BY <2>4 DEF LastOf, Has
  <2> QED
    BY <2>2, <2>5, <2>6
<1>5. ASSUME Has(s, k), ~ Has(t, k) PROVE Has(f, k) /\ Newest(s, k) = Newest(f, k)
  <2>1. PICK i : LastOf(s, k, i)
    BY <1>5, NewestExists
  <2>2. i \in 1 .. n
    <3>1. ASSUME i > n PROVE FALSE
      <4>1. i - n \in DOMAIN t /\ t[i - n] = s[i]
        BY <1>1, <1>3, <2>1, <3>1 DEF LastOf
      <4> QED
        BY <1>5, <2>1, <4>1 DEF LastOf, Has
    <3> QED
      BY <1>1, <2>1, <3>1 DEF LastOf
  <2>3. LastOf(f, k, i) /\ f[i] = s[i]
    BY <1>1, <1>2, <2>1, <2>2 DEF LastOf
  <2> QED
    BY <1>2, <2>1, <2>3, NewestAt DEF LastOf, Has
<1>6. ASSUME ~ Has(s, k) PROVE ~ Has(f, k)
  BY <1>1, <1>2, <1>6 DEF Has
<1> QED
  BY <1>2, <1>3, <1>4, <1>5, <1>6 DEF f, t

LEMMA NewestOfTail ==
  ASSUME NEW s \in Seq(Op), s # <<>>, NEW k
  PROVE  /\ Tail(s) \in Seq(Op) /\ Head(s) \in Op
         /\ Has(Tail(s), k) => Has(s, k) /\ Newest(s, k) = Newest(Tail(s), k)
         /\ Has(s, k) /\ ~ Has(Tail(s), k) => Head(s).key = k /\ Newest(s, k) = Head(s).row
         /\ Head(s).key = k => Has(s, k)
<1>1. Len(s) \in Nat \ {0} /\ DOMAIN s = 1 .. Len(s)
  BY EmptySeq
<1>2. Tail(s) \in Seq(Op) /\ Head(s) \in Op /\ Head(s) = s[1]
  OBVIOUS
<1>3. DOMAIN Tail(s) = 1 .. (Len(s) - 1) /\ \A i \in 1 .. (Len(s) - 1) : Tail(s)[i] = s[i + 1]
  BY <1>1
<1> DEFINE t == Tail(s)
<1> HIDE DEF t
<1>4. t \in Seq(Op) /\ DOMAIN t = 1 .. (Len(s) - 1) /\ \A i \in 1 .. (Len(s) - 1) : t[i] = s[i + 1]
  BY <1>2, <1>3 DEF t
<1>5. ASSUME Has(t, k) PROVE Has(s, k) /\ Newest(s, k) = Newest(t, k)
  <2>1. PICK i : LastOf(t, k, i)
    BY <1>4, <1>5, NewestExists
  <2>2. i \in 1 .. (Len(s) - 1) /\ i + 1 \in DOMAIN s /\ t[i] = s[i + 1]
    BY <1>1, <1>4, <2>1 DEF LastOf
  <2>3. ASSUME NEW j \in DOMAIN s, s[j].key = k PROVE j <= i + 1
    <3>1. CASE j = 1
      BY <2>2, <3>1
    <3>2. CASE j # 1
      <4>1. j - 1 \in DOMAIN t /\ t[j - 1] = s[j]
        BY <1>1, <1>4, <3>2
      <4> QED
        BY <1>1, <1>4, <2>1, <2>2, <2>3, <4>1 DEF LastOf
    <3> QED
      BY <3>1, <3>2
  <2>4. LastOf(s, k, i + 1)
    BY <2>1, <2>2, <2>3 DEF LastOf
  <2>5. Newest(s, k) = s[i + 1].row /\ Newest(t, k) = t[i].row
    BY <1>4, <2>1, <2>4, NewestAt
  <2> QED
    BY <2>2, <2>4, <2>5 DEF LastOf, Has
<1>6. ASSUME Has(s, k), ~ Has(t, k) PROVE s[1].key = k /\ Newest(s, k) = s[1].row
  <2>1. PICK i : LastOf(s, k, i)
    BY <1>6, NewestExists
  <2>2. ASSUME i # 1 PROVE FALSE
    <3>1. i - 1 \in DOMAIN t /\ t[i - 1] = s[i]
      BY <1>1, <1>4, <2>1, <2>2 DEF LastOf
    <3> QED
      BY <1>6, <2>1, <3>1 DEF LastOf, Has
  <2> QED
    BY <2>1, <2>2, NewestAt DEF LastOf
<1>7. s[1].key = k => Has(s, k)
  BY <1>1 DEF Has
<1> QED
  BY <1>2, <1>4, <1>5, <1>6, <1>7 DEF t

LEMMA NewestOfConcat ==
  ASSUME NEW s \in Seq(Op), NEW t \in Seq(Op), NEW k
  PROVE  /\ s \o t \in Seq(Op)
         /\ Has(s \o t, k) <=> Has(s, k) \/ Has(t, k)
         /\ Has(t, k) => Newest(s \o t, k) = Newest(t, k)
         /\ Has(s, k) /\ ~ Has(t, k) => Newest(s \o t, k) = Newest(s, k)
<1> DEFINE u == s \o t
<1>1. /\ u \in Seq(Op) /\ DOMAIN u = 1 .. (Len(s) + Len(t)) /\ Len(s) \in Nat /\ Len(t) \in Nat
      /\ DOMAIN s = 1 .. Len(s) /\ DOMAIN t = 1 .. Len(t)
      /\ \A i \in 1 .. Len(s) : u[i] = s[i]
      /\ \A i \in 1 .. Len(t) : u[Len(s) + i] = t[i]
  BY ConcatProperties
<1> HIDE DEF u
<1>2. \A i \in DOMAIN u : i \in DOMAIN s \/ (i - Len(s) \in DOMAIN t /\ u[i] = t[i - Len(s)])
  BY <1>1
<1>3. Has(u, k) <=> Has(s, k) \/ Has(t, k)
  <2>1. Has(u, k) => Has(s, k) \/ Has(t, k)
    BY <1>1, <1>2 DEF Has
  <2>2. ASSUME Has(t, k) PROVE Has(u, k)
    <3>1. PICK i \in 1 .. Len(t) : t[i].key = k
      BY <1>1, <2>2 DEF Has
    <3>2. Len(s) + i \in DOMAIN u /\ u[Len(s) + i].key = k
      BY <1>1, <3>1
    <3> QED
      BY <3>2 DEF Has
  <2>3. Has(s, k) => Has(u, k)
    BY <1>1 DEF Has
  <2> QED
    BY <2>1, <2>2, <2>3
<1>4. ASSUME Has(t, k) PROVE Newest(u, k) = Newest(t, k)
  <2>1. PICK i : LastOf(t, k, i)
    BY <1>4, NewestExists
  <2>2. i \in 1 .. Len(t) /\ Len(s) + i \in DOMAIN u /\ u[Len(s) + i] = t[i]
    BY <1>1, <2>1 DEF LastOf
  <2>3. ASSUME NEW j \in DOMAIN u, u[j].key = k PROVE j <= Len(s) + i
    <3>1. CASE j \in DOMAIN s
      BY <1>1, <2>2, <3>1
    <3>2. CASE j - Len(s) \in DOMAIN t /\ u[j] = t[j - Len(s)]
      <4>1. j - Len(s) <= i
        BY <2>1, <2>3, <3>2 DEF LastOf
      <4> QED
        BY <1>1, <2>2, <4>1
    <3> QED
      BY <1>2, <3>1, <3>2
  <2>4. LastOf(u, k, Len(s) + i)
    BY <2>1, <2>2, <2>3 DEF LastOf
  <2> QED
    BY <1>1, <2>1, <2>2, <2>4, NewestAt
<1>5. ASSUME Has(s, k), ~ Has(t, k) PROVE Newest(u, k) = Newest(s, k)
  <2>1. PICK i : LastOf(s, k, i)
    BY <1>5, NewestExists
  <2>2. i \in DOMAIN u /\ u[i] = s[i]
    BY <1>1, <2>1 DEF LastOf
  <2>3. ASSUME NEW j \in DOMAIN u, u[j].key = k PROVE j <= i
    <3>1. j \in DOMAIN s
      BY <1>2, <1>5, <2>3 DEF Has
    <3> QED
      BY <1>1, <2>1, <2>3, <3>1 DEF LastOf
  <2>4. LastOf(u, k, i)
    BY <2>1, <2>2, <2>3 DEF LastOf
  <2> QED
    BY <1>1, <2>1, <2>2, <2>4, NewestAt
<1> QED
  BY <1>1, <1>3, <1>4, <1>5 DEF u

-----------------------------------------------------------------------------
(* Helpers of the steps *)

LEMMA HomeOf ==
  /\ \A k \in Keys : Home(k) \in Namespaces
  /\ \A n \in Namespaces : \A k : k \in Of(n) <=> k \in Keys /\ Home(k) = n
BY DEF Keys, Of, Home

LEMMA InitInv == Init => Inv
<1> SUFFICES ASSUME Init PROVE Inv
  OBVIOUS
<1>1. NoRow \in Row /\ NewEntry \in Entry
  BY BoundsNat DEF NewEntry, Entry, NoRow, Row
<1>2. NewSubscription \in Subscription
  BY <1>1 DEF NewSubscription, Subscription
<1>3. TypeOK
  <2>1. live \in Rows
    <3>1. \A b \in BOOLEAN : [v |-> 1, there |-> b] \in Row
      BY BoundsNat DEF Row
    <3> QED
      BY <3>1 DEF Init, Rows
  <2>2. client \in Client
    <3>1. [v |-> 0, there |-> TRUE] \in Row
      BY BoundsNat DEF Row
    <3>2. \A old \in [Keys -> {NoRow, [v |-> 0, there |-> TRUE]}] : old \in Rows
      BY <1>1, <3>1 DEF Rows
    <3>3. [k \in Keys |-> NoRow] \in Rows
      BY <1>1 DEF Rows
    <3> QED
      BY <3>2, <3>3 DEF Init, Client
  <2>3. \A n \in Namespaces : entry[n] = NewEntry /\ Len(entry[n].fanout) <= FanoutCap
    BY FanoutCapPos DEF Init, NewEntry
  <2> QED
    BY <1>1, <1>2, <2>1, <2>2, <2>3, BoundsNat DEF Init, TypeOK
<1>4. Merging
  BY DEF Init, Merging, Merges, NewSubscription
<1>5. \A n \in Namespaces : Lives(n)
  BY DEF Init, Lives, NewSubscription, NewEntry, Has
<1>6. \A k \in Keys : Kept(k) /\ Current(k)
  BY HomeOf DEF Init, Kept, Current, NewSubscription, NewEntry, Has
<1> QED
  BY <1>3, <1>4, <1>5, <1>6 DEF Inv

LEMMA Refusal ==
  ASSUME NEW s \in Subscription, NEW n \in Namespaces, Merges(s)
  PROVE  /\ Refused(s, n) \in Subscription /\ Merges(Refused(s, n))
         /\ Refused(s, n).at = s.at /\ Refused(s, n).due = s.due
         /\ Refused(s, n).captured = s.captured /\ Refused(s, n).changed = s.changed
         /\ Refused(s, n).queue = s.queue
         /\ Refused(s, n).refused = s.refused \cup {n}
         /\ Refused(s, n).answered = s.answered \ {n}
         /\ s.snapshot # {} => Refused(s, n).snapshot = s.snapshot
<1> DEFINE r == [s EXCEPT !.refused = @ \cup {n}, !.answered = @ \ {n}]
           d == [r EXCEPT !.deny = Append(@, n)]
<1>1. CASE n \in s.refused
  BY <1>1 DEF Refused, Merges
<1>2. CASE n \notin s.refused /\ r.refused = Namespaces
  <2>1. Refused(s, n) = [r EXCEPT !.ended = TRUE]
    BY <1>2 DEF Refused
  <2>2. [r EXCEPT !.ended = TRUE] \in Subscription
    BY DEF Subscription
  <2> QED
    BY <2>1, <2>2, <1>2 DEF Subscription, Merges
<1>3. CASE n \notin s.refused /\ r.refused # Namespaces
  <2>1. Refused(s, n) = Merged(d)
    BY <1>3 DEF Refused
  <2>2. Append(s.deny, n) \in Seq(Namespaces) /\ \A i \in DOMAIN Append(s.deny, n) : Append(s.deny, n)[i] \in s.refused \cup {n}
    BY DEF Subscription, Merges
  <2>3. d = [s EXCEPT !.refused = @ \cup {n}, !.answered = @ \ {n}, !.deny = Append(@, n)]
    BY DEF Subscription
  <2>4. d \in Subscription
    BY <2>2, <2>3 DEF Subscription
  <2>5. /\ d.at = s.at /\ d.due = s.due /\ d.captured = s.captured /\ d.changed = s.changed /\ d.queue = s.queue
        /\ d.refused = s.refused \cup {n} /\ d.answered = s.answered \ {n} /\ d.snapshot = s.snapshot
        /\ d.ended = s.ended /\ d.deny = Append(s.deny, n)
    BY <2>3 DEF Subscription
  <2> HIDE DEF d, r
  <2>6. d.refused # Namespaces
    BY <1>3, <2>5 DEF Subscription, r
  <2>7. CASE d.snapshot = {} /\ d.answered \cup d.refused = Namespaces /\ d.answered # {}
    <3>1. Merged(d) = [d EXCEPT !.snapshot = d.answered]
      BY <2>7 DEF Merged
    <3>2. Merged(d) \in Subscription
      BY <2>4, <3>1 DEF Subscription
    <3>3. /\ Merged(d).at = s.at /\ Merged(d).due = s.due /\ Merged(d).captured = s.captured
          /\ Merged(d).changed = s.changed /\ Merged(d).queue = s.queue
          /\ Merged(d).refused = s.refused \cup {n} /\ Merged(d).answered = s.answered \ {n}
          /\ Merged(d).snapshot = d.answered /\ Merged(d).ended = s.ended /\ Merged(d).deny = Append(s.deny, n)
      BY <2>4, <2>5, <3>1 DEF Subscription
    <3>4. s.snapshot = {}
      BY <2>5, <2>7
    <3>5. Merges(Merged(d))
      BY <2>2, <2>5, <2>7, <3>3, <1>3 DEF Merges
    <3> QED
      BY <2>1, <3>2, <3>3, <3>4, <3>5, Zenon
  <2>8. CASE ~ (d.snapshot = {} /\ d.answered \cup d.refused = Namespaces /\ d.answered # {})
    <3>1. Merged(d) = d
      BY <2>8 DEF Merged
    <3>2. Merges(d)
      BY <2>2, <2>5, <2>8, <1>3 DEF Merges
    <3> QED
      BY <2>1, <2>4, <2>5, <3>1, <3>2, Zenon
  <2> QED
    BY <2>7, <2>8
<1> QED
  BY <1>1, <1>2, <1>3

-----------------------------------------------------------------------------
(* Each step keeps the invariant *)

LEMMA UpdateStep ==
  ASSUME Inv, NEW u \in Keys, Update(u)
  PROVE  Inv'
<1> DEFINE h == Home(u)
<1>1. TypeOK /\ Merging /\ h \in Namespaces
  BY HomeOf DEF Inv
<1>2. PICK row \in Row : /\ live' = [live EXCEPT ![u] = row]
                         /\ entry' = IF entry[h].listed /\ ~entry[h].failed
                                     THEN [entry EXCEPT ![h].events = Append(@, [key |-> u, row |-> row])]
                                     ELSE entry
  <2>1. \A there \in BOOLEAN : [v |-> live[u].v + 1, there |-> there] \in Row
    BY <1>1, BoundsNat DEF Update, TypeOK, Rows, Row
  <2> QED
    BY <2>1 DEF Update
<1> DEFINE op == [key |-> u, row |-> row]
<1>3. op \in Op /\ op.key = u /\ op.row = row
  BY DEF Op
<1>4. /\ sub' = [sub EXCEPT !.changed = @ \cup {u}]
      /\ hub' = hub /\ client' = client /\ reconnects' = reconnects /\ missed' = missed /\ early' = early
  BY DEF Update
<1> HIDE DEF op, h
<1>5. /\ sub' \in Subscription /\ sub'.changed = sub.changed \cup {u}
      /\ sub'.at = sub.at /\ sub'.due = sub.due /\ sub'.answered = sub.answered /\ sub'.refused = sub.refused
      /\ sub'.captured = sub.captured /\ sub'.snapshot = sub.snapshot /\ sub'.deny = sub.deny
      /\ sub'.queue = sub.queue /\ sub'.ended = sub.ended
  BY <1>1, <1>4 DEF TypeOK, Subscription
<1>6. live' \in Rows /\ live'[u] = row /\ \A k \in Keys : k # u => live'[k] = live[k]
  BY <1>1, <1>2 DEF TypeOK, Rows
<1>7. /\ entry' \in [Namespaces -> Entry]
      /\ \A n \in Namespaces : /\ entry'[n].listed = entry[n].listed /\ entry'[n].synced = entry[n].synced
                               /\ entry'[n].failed = entry[n].failed /\ entry'[n].fanout = entry[n].fanout
                               /\ entry'[n].events = IF n = h /\ entry[h].listed /\ ~entry[h].failed
                                                     THEN Append(entry[n].events, op) ELSE entry[n].events
  <2>1. entry[h] \in Entry /\ Append(entry[h].events, op) \in Seq(Op)
    BY <1>1, <1>3 DEF TypeOK, Entry
  <2>2. entry' = IF entry[h].listed /\ ~entry[h].failed
                 THEN [entry EXCEPT ![h] = [entry[h] EXCEPT !.events = Append(entry[h].events, op)]]
                 ELSE entry
    BY <1>2 DEF op
  <2>3. [entry[h] EXCEPT !.events = Append(entry[h].events, op)] \in Entry
    BY <2>1 DEF Entry
  <2> QED
    BY <1>1, <2>1, <2>2, <2>3 DEF TypeOK, Entry
<1>8. TypeOK'
  BY <1>1, <1>4, <1>5, <1>6, <1>7 DEF TypeOK
<1>9. Merging'
  BY <1>1, <1>4, <1>5 DEF Merging, Merges
<1>10. ASSUME NEW n \in Namespaces PROVE Lives(n)'
  <2>1. Lives(n) /\ entry[n] \in Entry
    BY <1>1 DEF Inv, TypeOK
  <2>2. CASE n = h /\ entry[h].listed /\ ~entry[h].failed
    <3>1. \A k \in Keys : Has(entry'[n].events, k) => Has(entry[n].events, k) \/ k = u
      BY <1>3, <1>7, <2>1, <2>2, NewestOfAppend DEF Entry
    <3> QED
      BY <1>5, <1>7, <2>1, <2>2, <3>1 DEF Lives, h
  <2>3. CASE ~ (n = h /\ entry[h].listed /\ ~entry[h].failed)
    BY <1>5, <1>7, <2>1, <2>3 DEF Lives
  <2> QED
    BY <2>2, <2>3
<1>11. ASSUME NEW k \in Keys PROVE Kept(k)'
  <2>1. Kept(k) /\ Home(k) \in Namespaces
    BY HomeOf DEF Inv
  <2> QED
    BY <1>4, <1>5, <1>6, <1>7, <2>1 DEF Kept
<1>12. ASSUME NEW k \in Keys, ~ entry'[Home(k)].failed PROVE Current(k)'
  <2>1. Home(k) \in Namespaces /\ ~ entry[Home(k)].failed
    BY <1>7, <1>12, HomeOf
  <2>2. Current(k) /\ Kept(k) /\ Lives(Home(k)) /\ entry[Home(k)] \in Entry
    BY <1>1, <2>1 DEF Inv, TypeOK
  <2>3. Held(k)' = Held(k)
    BY <1>4, <1>5 DEF Held
  <2>4. CASE Home(k) = h /\ entry[h].listed
    <3>1. entry'[Home(k)].events = Append(entry[Home(k)].events, op)
      BY <1>7, <2>1, <2>4
    <3>2. /\ Has(entry'[Home(k)].events, k) <=> Has(entry[Home(k)].events, k) \/ u = k
          /\ u = k => Newest(entry'[Home(k)].events, k) = row
          /\ u # k /\ Has(entry[Home(k)].events, k) =>
               Newest(entry'[Home(k)].events, k) = Newest(entry[Home(k)].events, k)
      BY <1>3, <2>2, <3>1, NewestOfAppend DEF Entry
    <3> QED
      BY <1>4, <1>5, <1>6, <1>7, <2>1, <2>2, <2>3, <3>2 DEF Current
  <2>5. CASE Home(k) = h /\ ~ entry[h].listed
    <3>1. entry[h].events = <<>> /\ entry[h].fanout = <<>>
      BY <2>2, <2>5, EmptySeq DEF Lives, Entry
    <3>2. ~ Has(entry[h].events, k) /\ ~ Has(entry[h].fanout, k)
      BY <3>1 DEF Has
    <3>3. ~ Has(sub.queue, k) /\ Home(k) \notin sub.answered
      BY <2>1, <2>2, <2>5 DEF Kept, Lives
    <3> QED
      BY <1>5, <1>7, <2>1, <2>5, <3>2, <3>3 DEF Current
  <2>6. CASE Home(k) # h
    <3>1. k # u /\ entry'[Home(k)].events = entry[Home(k)].events
      BY <1>7, <2>1, <2>6 DEF h
    <3> QED
      BY <1>4, <1>5, <1>6, <1>7, <2>1, <2>2, <2>3, <3>1 DEF Current
  <2> QED
    BY <2>4, <2>5, <2>6
<1> QED
  BY <1>8, <1>9, <1>10, <1>11, <1>12 DEF Inv

LEMMA ListStep ==
  ASSUME Inv, NEW m \in Namespaces, List(m)
  PROVE  Inv'
<1>1. TypeOK /\ Merging
  BY DEF Inv
<1>2. live' = live /\ sub' = sub /\ hub' = hub /\ client' = client /\ reconnects' = reconnects
      /\ missed' = missed /\ early' = early
  BY DEF List
<1>3. /\ entry' \in [Namespaces -> Entry]
      /\ \A n \in Namespaces : /\ entry'[n].synced = entry[n].synced /\ entry'[n].failed = entry[n].failed
                               /\ entry'[n].events = entry[n].events /\ entry'[n].fanout = entry[n].fanout
                               /\ entry'[n].listed = (entry[n].listed \/ n = m)
  <2>1. entry' = [entry EXCEPT ![m] = [entry[m] EXCEPT !.listed = TRUE]] /\ ~ entry[m].listed
    BY DEF List
  <2>2. entry[m] \in Entry /\ [entry[m] EXCEPT !.listed = TRUE] \in Entry
    BY <1>1 DEF TypeOK, Entry
  <2> QED
    BY <1>1, <2>1, <2>2 DEF TypeOK, Entry
<1>4. TypeOK'
  BY <1>1, <1>2, <1>3 DEF TypeOK
<1>5. Merging'
  BY <1>1, <1>2 DEF Merging, Merges
<1>6. ASSUME NEW n \in Namespaces PROVE Lives(n)'
  BY <1>2, <1>3 DEF Inv, Lives
<1>7. ASSUME NEW k \in Keys PROVE Kept(k)'
  BY <1>2, <1>3, HomeOf DEF Inv, Kept
<1>8. ASSUME NEW k \in Keys, ~ entry'[Home(k)].failed PROVE Current(k)'
  BY <1>2, <1>3, <1>8, HomeOf DEF Inv, Current, Held
<1> QED
  BY <1>4, <1>5, <1>6, <1>7, <1>8 DEF Inv

LEMMA SyncStep ==
  ASSUME Inv, NEW m \in Namespaces, Sync(m)
  PROVE  Inv'
<1>1. TypeOK /\ Merging
  BY DEF Inv
<1>2. live' = live /\ hub' = hub /\ client' = client /\ reconnects' = reconnects
      /\ missed' = missed /\ early' = early
  BY DEF Sync
<1>3. /\ entry' \in [Namespaces -> Entry]
      /\ \A n \in Namespaces : /\ entry'[n].listed = entry[n].listed /\ entry'[n].failed = entry[n].failed
                               /\ entry'[n].events = entry[n].events /\ entry'[n].fanout = entry[n].fanout
                               /\ entry'[n].synced = (entry[n].synced \/ n = m)
  <2>1. entry' = [entry EXCEPT ![m] = [entry[m] EXCEPT !.synced = TRUE]] /\ ~ entry[m].synced
    BY DEF Sync
  <2>2. entry[m] \in Entry /\ [entry[m] EXCEPT !.synced = TRUE] \in Entry
    BY <1>1 DEF TypeOK, Entry
  <2> QED
    BY <1>1, <2>1, <2>2 DEF TypeOK, Entry
<1>4. /\ sub' \in Subscription /\ sub'.due \subseteq sub.due \cup {m}
      /\ m \in sub'.due => m \in sub.due \/ sub.at[m] = "joined"
      /\ sub'.at = sub.at /\ sub'.answered = sub.answered /\ sub'.refused = sub.refused
      /\ sub'.captured = sub.captured /\ sub'.changed = sub.changed /\ sub'.snapshot = sub.snapshot
      /\ sub'.deny = sub.deny /\ sub'.queue = sub.queue /\ sub'.ended = sub.ended
  BY <1>1 DEF Sync, TypeOK, Subscription
<1>5. TypeOK'
  BY <1>1, <1>2, <1>3, <1>4 DEF TypeOK
<1>6. Merging'
  BY <1>1, <1>2, <1>4 DEF Merging, Merges
<1>7. entry[m].listed
  BY DEF Sync
<1>8. ASSUME NEW n \in Namespaces PROVE Lives(n)'
  <2>1. Lives(n)
    BY DEF Inv
  <2>2. CASE n = m
    BY <1>3, <1>4, <1>7, <2>1, <2>2 DEF Lives
  <2>3. CASE n # m
    BY <1>3, <1>4, <2>1, <2>3 DEF Lives
  <2> QED
    BY <2>2, <2>3
<1>9. ASSUME NEW k \in Keys PROVE Kept(k)'
  BY <1>2, <1>3, <1>4, HomeOf DEF Inv, Kept
<1>10. ASSUME NEW k \in Keys, ~ entry'[Home(k)].failed PROVE Current(k)'
  BY <1>2, <1>3, <1>4, <1>10, HomeOf DEF Inv, Current, Held
<1> QED
  BY <1>5, <1>6, <1>8, <1>9, <1>10 DEF Inv

LEMMA EmitStep ==
  ASSUME Inv, NEW m \in Namespaces, Emit(m)
  PROVE  Inv'
<1> DEFINE op == Head(entry[m].events)
           drops == Len(entry[m].fanout) >= FanoutCap
<1>1. TypeOK /\ Merging /\ Lives(m)
  BY DEF Inv
<1>2. live' = live /\ sub' = sub /\ hub' = hub /\ client' = client /\ reconnects' = reconnects
      /\ early' = early
  BY DEF Emit
<1>3. entry[m] \in Entry /\ entry[m].events \in Seq(Op) /\ entry[m].fanout \in Seq(Op) /\ entry[m].events # <<>>
  BY <1>1 DEF TypeOK, Entry, Emit
<1>4. /\ Tail(entry[m].events) \in Seq(Op) /\ op \in Op
      /\ Len(Tail(entry[m].events)) = Len(entry[m].events) - 1
      /\ Append(entry[m].fanout, op) \in Seq(Op)
      /\ Len(Append(entry[m].fanout, op)) = Len(entry[m].fanout) + 1
  BY <1>3
<1>5. entry[m].listed
  BY <1>1, <1>3, EmptySeq DEF Lives
<1>6. entry' = [entry EXCEPT ![m] = IF drops THEN [entry[m] EXCEPT !.events = Tail(entry[m].events)]
                                    ELSE [entry[m] EXCEPT !.events = Tail(entry[m].events),
                                                          !.fanout = Append(entry[m].fanout, op)]]
      /\ missed' = IF drops THEN missed \cup {op.key} ELSE missed \ {op.key}
  <2>1. Len(entry[m].fanout) \in Nat /\ (drops <=> ~ (Len(entry[m].fanout) < FanoutCap))
    BY <1>3, FanoutCapPos
  <2> HIDE DEF drops
  <2>2. CASE drops
    BY <2>1, <2>2 DEF Emit
  <2>3. CASE ~ drops
    BY <2>1, <2>3 DEF Emit
  <2> QED
    BY <2>2, <2>3
<1>7. op.key \in Keys /\ Home(op.key) = m
  <2>1. Has(entry[m].events, op.key)
    BY <1>3, NewestOfTail
  <2> QED
    BY <1>1, <1>4, <2>1 DEF Lives, Op
<1>8. /\ entry' \in [Namespaces -> Entry]
      /\ \A n \in Namespaces :
           /\ entry'[n].listed = entry[n].listed /\ entry'[n].failed = entry[n].failed
           /\ entry'[n].synced = entry[n].synced
           /\ entry'[n].events = IF n = m THEN Tail(entry[n].events) ELSE entry[n].events
           /\ entry'[n].fanout = IF n = m /\ ~ drops THEN Append(entry[n].fanout, op) ELSE entry[n].fanout
  <2>1. [entry[m] EXCEPT !.events = Tail(entry[m].events)] \in Entry
    BY <1>3, <1>4 DEF Entry
  <2>2. [entry[m] EXCEPT !.events = Tail(entry[m].events), !.fanout = Append(entry[m].fanout, op)] \in Entry
    BY <1>3, <1>4 DEF Entry
  <2> HIDE DEF op, drops
  <2> QED
    BY <1>1, <1>6, <2>1, <2>2 DEF TypeOK, Entry
<1>9. TypeOK'
  <2>1. ASSUME NEW n \in Namespaces PROVE Len(entry'[n].fanout) <= FanoutCap
    <3>1. Len(entry[n].fanout) <= FanoutCap /\ Len(entry[m].fanout) \in Nat
      BY <1>1, <1>3 DEF TypeOK
    <3>2. CASE n = m /\ ~ drops
      <4>1. Len(entry'[n].fanout) = Len(entry[m].fanout) + 1
        BY <1>4, <1>8, <3>2, Zenon
      <4> QED
        BY <3>1, <3>2, <4>1, FanoutCapPos
    <3>3. CASE ~ (n = m /\ ~ drops)
      <4>1. entry'[n].fanout = entry[n].fanout
        BY <1>8, <3>3, Zenon
      <4> QED
        BY <3>1, <4>1
    <3> QED
      BY <3>2, <3>3
  <2>2. missed' \subseteq Keys
    BY <1>1, <1>6, <1>7 DEF TypeOK
  <2> QED
    BY <1>1, <1>2, <1>8, <2>1, <2>2 DEF TypeOK
<1> HIDE DEF op, drops
<1>10. Merging'
  BY <1>1, <1>2 DEF Merging, Merges
<1>11. ASSUME NEW k
       PROVE  /\ Has(Tail(entry[m].events), k) =>
                   Has(entry[m].events, k) /\ Newest(entry[m].events, k) = Newest(Tail(entry[m].events), k)
              /\ Has(entry[m].events, k) /\ ~ Has(Tail(entry[m].events), k) =>
                   op.key = k /\ Newest(entry[m].events, k) = op.row
              /\ op.key = k => Has(entry[m].events, k)
  BY <1>3, NewestOfTail DEF op
<1>12. ASSUME NEW k
       PROVE  /\ Has(Append(entry[m].fanout, op), k) <=> Has(entry[m].fanout, k) \/ op.key = k
              /\ op.key = k => Newest(Append(entry[m].fanout, op), k) = op.row
              /\ op.key # k /\ Has(entry[m].fanout, k) =>
                   Newest(Append(entry[m].fanout, op), k) = Newest(entry[m].fanout, k)
  BY <1>3, <1>4, NewestOfAppend
<1>13. ASSUME NEW n \in Namespaces PROVE Lives(n)'
  <2>1. Lives(n)
    BY DEF Inv
  <2>2. CASE n = m
    <3>1. \A k \in Keys : Has(entry'[m].events, k) \/ Has(entry'[m].fanout, k) =>
                            Has(entry[m].events, k) \/ Has(entry[m].fanout, k)
      BY <1>8, <1>11, <1>12
    <3> QED
      BY <1>2, <1>5, <1>8, <2>1, <2>2, <3>1 DEF Lives
  <2>3. CASE n # m
    BY <1>2, <1>8, <2>1, <2>3 DEF Lives
  <2> QED
    BY <2>2, <2>3
<1>14. ASSUME NEW k \in Keys PROVE Kept(k)'
  BY <1>2, <1>8, HomeOf DEF Inv, Kept
<1>15. ASSUME NEW k \in Keys, ~ entry'[Home(k)].failed PROVE Current(k)'
  <2>1. Home(k) \in Namespaces /\ Current(k)
    BY <1>8, <1>15, HomeOf DEF Inv
  <2>2. Held(k)' = Held(k)
    BY <1>2 DEF Held
  <2>3. CASE Home(k) = m
    <3>1. CASE drops
      <4>1. /\ entry'[Home(k)].events = Tail(entry[m].events) /\ entry'[Home(k)].fanout = entry[m].fanout
            /\ k \notin missed' => k \notin missed /\ op.key # k
        BY <1>6, <1>8, <2>1, <2>3, <3>1
      <4> QED
        BY <1>2, <1>11, <2>1, <2>2, <2>3, <4>1 DEF Current
    <3>2. CASE ~ drops
      <4>1. /\ entry'[Home(k)].events = Tail(entry[m].events)
            /\ entry'[Home(k)].fanout = Append(entry[m].fanout, op)
            /\ k \notin missed' => k \notin missed \/ op.key = k
        BY <1>6, <1>8, <2>1, <2>3, <3>2
      <4> QED
        BY <1>2, <1>11, <1>12, <2>1, <2>2, <2>3, <4>1 DEF Current
    <3> QED
      BY <3>1, <3>2
  <2>4. CASE Home(k) # m
    <3>1. k \in missed' <=> k \in missed
      BY <1>6, <1>7, <2>4
    <3> QED
      BY <1>2, <1>8, <2>1, <2>2, <2>4, <3>1 DEF Current
  <2> QED
    BY <2>3, <2>4
<1> QED
  BY <1>9, <1>10, <1>13, <1>14, <1>15 DEF Inv

LEMMA DrainStep ==
  ASSUME Inv, NEW m \in Namespaces, Drain(m)
  PROVE  Inv'
<1> DEFINE op == Head(entry[m].fanout)
           takes == sub.at[m] = "joined" /\ ~ sub.ended
<1>1. TypeOK /\ Merging /\ Lives(m)
  BY DEF Inv
<1>2. live' = live /\ hub' = hub /\ client' = client /\ reconnects' = reconnects
      /\ missed' = missed /\ early' = early
  BY DEF Drain
<1>3. entry[m] \in Entry /\ entry[m].fanout \in Seq(Op) /\ entry[m].fanout # <<>> /\ sub \in Subscription
  BY <1>1 DEF TypeOK, Entry, Drain
<1>4. /\ Tail(entry[m].fanout) \in Seq(Op) /\ op \in Op
      /\ Len(Tail(entry[m].fanout)) = Len(entry[m].fanout) - 1 /\ Len(entry[m].fanout) \in Nat
  BY <1>3
<1>5. entry[m].listed
  BY <1>1, <1>3, EmptySeq DEF Lives
<1>6. op.key \in Keys /\ Home(op.key) = m
  <2>1. Has(entry[m].fanout, op.key)
    BY <1>3, NewestOfTail
  <2> QED
    BY <1>1, <1>4, <2>1 DEF Lives, Op
<1>7. /\ entry' \in [Namespaces -> Entry]
      /\ \A n \in Namespaces :
           /\ entry'[n].listed = entry[n].listed /\ entry'[n].failed = entry[n].failed
           /\ entry'[n].synced = entry[n].synced /\ entry'[n].events = entry[n].events
           /\ entry'[n].fanout = IF n = m THEN Tail(entry[n].fanout) ELSE entry[n].fanout
  <2>1. entry' = [entry EXCEPT ![m] = [entry[m] EXCEPT !.fanout = Tail(entry[m].fanout)]]
    BY DEF Drain
  <2>2. [entry[m] EXCEPT !.fanout = Tail(entry[m].fanout)] \in Entry
    BY <1>3, <1>4 DEF Entry
  <2> QED
    BY <1>1, <2>1, <2>2 DEF TypeOK, Entry
<1>8. /\ sub' \in Subscription /\ sub'.queue = IF takes THEN Append(sub.queue, op) ELSE sub.queue
      /\ sub'.at = sub.at /\ sub'.due = sub.due /\ sub'.answered = sub.answered /\ sub'.refused = sub.refused
      /\ sub'.captured = sub.captured /\ sub'.changed = sub.changed /\ sub'.snapshot = sub.snapshot
      /\ sub'.deny = sub.deny /\ sub'.ended = sub.ended
  <2>1. Append(sub.queue, op) \in Seq(Op)
    BY <1>3, <1>4 DEF Subscription
  <2>2. sub' = IF takes THEN [sub EXCEPT !.queue = Append(sub.queue, op)] ELSE sub
    BY DEF Drain
  <2> HIDE DEF op, takes
  <2> QED
    BY <1>3, <2>1, <2>2 DEF Subscription
<1>9. TypeOK'
  <2>1. ASSUME NEW n \in Namespaces PROVE Len(entry'[n].fanout) <= FanoutCap
    <3>1. Len(entry[n].fanout) <= FanoutCap
      BY <1>1 DEF TypeOK
    <3>2. CASE n = m
      <4>1. Len(entry'[n].fanout) = Len(entry[n].fanout) - 1
        BY <1>4, <1>7, <3>2, Zenon
      <4> QED
        BY <1>4, <3>1, <3>2, <4>1, FanoutCapPos
    <3>3. CASE n # m
      <4>1. entry'[n].fanout = entry[n].fanout
        BY <1>7, <3>3, Zenon
      <4> QED
        BY <3>1, <4>1
    <3> QED
      BY <3>2, <3>3
  <2> QED
    BY <1>1, <1>2, <1>7, <1>8, <2>1 DEF TypeOK
<1> HIDE DEF op
<1>10. Merging'
  BY <1>1, <1>2, <1>8 DEF Merging, Merges
<1>11. ASSUME NEW k
       PROVE  /\ Has(Tail(entry[m].fanout), k) =>
                   Has(entry[m].fanout, k) /\ Newest(entry[m].fanout, k) = Newest(Tail(entry[m].fanout), k)
              /\ Has(entry[m].fanout, k) /\ ~ Has(Tail(entry[m].fanout), k) =>
                   op.key = k /\ Newest(entry[m].fanout, k) = op.row
              /\ op.key = k => Has(entry[m].fanout, k)
  BY <1>3, NewestOfTail DEF op
<1>12. ASSUME NEW k
       PROVE  /\ Has(Append(sub.queue, op), k) <=> Has(sub.queue, k) \/ op.key = k
              /\ op.key = k => Newest(Append(sub.queue, op), k) = op.row
              /\ op.key # k /\ Has(sub.queue, k) => Newest(Append(sub.queue, op), k) = Newest(sub.queue, k)
  BY <1>3, <1>4, NewestOfAppend DEF Subscription
<1>13. ASSUME NEW n \in Namespaces PROVE Lives(n)'
  <2>1. Lives(n)
    BY DEF Inv
  <2>2. CASE n = m
    BY <1>5, <1>7, <1>8, <1>11, <2>1, <2>2 DEF Lives
  <2>3. CASE n # m
    BY <1>7, <1>8, <2>1, <2>3 DEF Lives
  <2> QED
    BY <2>2, <2>3
<1>14. ASSUME NEW k \in Keys PROVE Kept(k)'
  <2>1. Kept(k) /\ Home(k) \in Namespaces
    BY HomeOf DEF Inv
  <2>2. Has(sub'.queue, k) => Has(sub.queue, k) \/ (takes /\ Home(k) = m)
    BY <1>6, <1>8, <1>12
  <2> QED
    BY <1>2, <1>5, <1>7, <1>8, <2>1, <2>2 DEF Kept
<1>15. ASSUME NEW k \in Keys, ~ entry'[Home(k)].failed PROVE Current(k)'
  <2>1. Home(k) \in Namespaces /\ Current(k) /\ Kept(k) /\ ~ entry[Home(k)].failed
    BY <1>7, <1>15, HomeOf DEF Inv
  <2>2. Held(k)' = Held(k)
    BY <1>2, <1>8 DEF Held
  <2>3. CASE Home(k) = m /\ takes
    <3>1. /\ entry'[Home(k)].events = entry[Home(k)].events /\ entry'[Home(k)].fanout = Tail(entry[m].fanout)
          /\ sub'.queue = Append(sub.queue, op)
      BY <1>7, <1>8, <2>1, <2>3
    <3> QED
      BY <1>2, <1>8, <1>11, <1>12, <2>1, <2>2, <2>3, <3>1 DEF Current
  <2>4. CASE Home(k) = m /\ ~ takes
    <3>1. ~ sub.ended
      BY <1>1, <2>1, <2>4 DEF Merging, Merges, Lives
    <3>2. ~ Has(sub.queue, k) /\ Home(k) \notin sub.answered
      BY <1>1, <2>1, <2>4, <3>1 DEF Kept, Lives
    <3>3. /\ entry'[Home(k)].events = entry[Home(k)].events /\ entry'[Home(k)].fanout = Tail(entry[m].fanout)
          /\ sub'.queue = sub.queue
      BY <1>7, <1>8, <2>1, <2>4
    <3> QED
      BY <1>2, <1>8, <1>11, <2>1, <2>4, <3>2, <3>3 DEF Current
  <2>5. CASE Home(k) # m
    <3>1. op.key # k /\ entry'[Home(k)].events = entry[Home(k)].events /\ entry'[Home(k)].fanout = entry[Home(k)].fanout
      BY <1>6, <1>7, <2>1, <2>5
    <3>2. /\ Has(sub'.queue, k) <=> Has(sub.queue, k)
          /\ Has(sub.queue, k) => Newest(sub'.queue, k) = Newest(sub.queue, k)
      BY <1>8, <1>12, <3>1
    <3> QED
      BY <1>2, <1>8, <2>1, <2>2, <3>1, <3>2 DEF Current
  <2> QED
    BY <2>3, <2>4, <2>5
<1> QED
  BY <1>9, <1>10, <1>13, <1>14, <1>15 DEF Inv

LEMMA FetchStep ==
  ASSUME Inv, NEW m \in Namespaces, Fetch(m)
  PROVE  Inv'
<1>1. TypeOK /\ Merging
  BY DEF Inv
<1>2. live' = live /\ entry' = entry /\ hub' = hub /\ client' = client /\ reconnects' = reconnects
      /\ missed' = missed /\ early' = early /\ sub.at[m] = "none"
  BY DEF Fetch
<1>3. /\ sub' \in Subscription
      /\ \A n \in Namespaces : sub.at[n] = "joined" => sub'.at[n] = "joined"
      /\ sub'.due = sub.due /\ sub'.answered = sub.answered /\ sub'.refused = sub.refused
      /\ sub'.captured = sub.captured /\ sub'.changed = sub.changed /\ sub'.snapshot = sub.snapshot
      /\ sub'.deny = sub.deny /\ sub'.queue = sub.queue /\ sub'.ended = sub.ended
  <2>1. sub' = [sub EXCEPT !.at = [sub.at EXCEPT ![m] = "fetched"]]
    BY DEF Fetch
  <2>2. /\ [sub.at EXCEPT ![m] = "fetched"] \in [Namespaces -> {"none", "fetched", "joined"}]
        /\ \A n \in Namespaces : n # m => [sub.at EXCEPT ![m] = "fetched"][n] = sub.at[n]
    BY <1>1 DEF TypeOK, Subscription
  <2> QED
    BY <1>1, <1>2, <2>1, <2>2 DEF TypeOK, Subscription
<1>4. TypeOK'
  BY <1>1, <1>2, <1>3 DEF TypeOK
<1>5. Merging'
  BY <1>1, <1>2, <1>3 DEF Merging, Merges
<1>6. ASSUME NEW n \in Namespaces PROVE Lives(n)'
  BY <1>2, <1>3 DEF Inv, Lives
<1>7. ASSUME NEW k \in Keys PROVE Kept(k)'
  BY <1>2, <1>3, HomeOf DEF Inv, Kept
<1>8. ASSUME NEW k \in Keys, ~ entry'[Home(k)].failed PROVE Current(k)'
  BY <1>2, <1>3, <1>8 DEF Inv, Current, Held
<1> QED
  BY <1>4, <1>5, <1>6, <1>7, <1>8 DEF Inv

LEMMA JoinStep ==
  ASSUME Inv, NEW m \in Namespaces, Join(m)
  PROVE  Inv'
<1> DEFINE joined == [sub EXCEPT !.at = [sub.at EXCEPT ![m] = "joined"]]
<1>1. TypeOK /\ Merging /\ Lives(m)
  BY DEF Inv
<1>2. live' = live /\ entry' = entry /\ hub' = hub /\ client' = client /\ reconnects' = reconnects
      /\ missed' = missed /\ early' = early /\ sub.at[m] = "fetched"
  BY DEF Join
<1>3. sub' = IF entry[m].failed THEN Refused(joined, m)
             ELSE IF entry[m].synced THEN [joined EXCEPT !.due = @ \cup {m}]
             ELSE joined
  BY DEF Join
<1>4. /\ joined \in Subscription /\ joined.at[m] = "joined"
      /\ \A n \in Namespaces : n # m => joined.at[n] = sub.at[n]
      /\ joined.due = sub.due /\ joined.answered = sub.answered /\ joined.refused = sub.refused
      /\ joined.captured = sub.captured /\ joined.changed = sub.changed /\ joined.snapshot = sub.snapshot
      /\ joined.deny = sub.deny /\ joined.queue = sub.queue /\ joined.ended = sub.ended
  BY <1>1 DEF TypeOK, Subscription
<1> HIDE DEF joined
<1>5. Merges(joined)
  BY <1>1, <1>4 DEF Merging, Merges
<1>6. m \notin sub.due \cup sub.answered \cup sub.refused
  BY <1>1, <1>2 DEF Lives
<1>7. /\ sub' \in Subscription /\ Merges(sub') /\ sub'.at = joined.at
      /\ sub'.due \subseteq sub.due \cup {m}
      /\ m \in sub'.due => entry[m].synced
      /\ sub'.refused \subseteq sub.refused \cup {m}
      /\ m \in sub'.refused => entry[m].failed
      /\ sub'.answered = sub.answered
      /\ sub'.captured = sub.captured /\ sub'.changed = sub.changed
      /\ sub.snapshot # {} => sub'.snapshot = sub.snapshot
      /\ sub'.queue = sub.queue
  <2>1. CASE entry[m].failed
    <3> DEFINE r == Refused(joined, m)
    <3>1. /\ r \in Subscription /\ Merges(r) /\ r.at = joined.at /\ r.due = joined.due
          /\ r.captured = joined.captured /\ r.changed = joined.changed /\ r.queue = joined.queue
          /\ r.refused = joined.refused \cup {m} /\ r.answered = joined.answered \ {m}
          /\ joined.snapshot # {} => r.snapshot = joined.snapshot
      BY <1>4, <1>5, Refusal
    <3>2. sub' = r
      BY <1>3, <2>1
    <3> HIDE DEF r
    <3> QED
      BY <1>4, <1>6, <2>1, <3>1, <3>2
  <2>2. CASE ~ entry[m].failed /\ entry[m].synced
    <3>1. sub' = [joined EXCEPT !.due = @ \cup {m}]
      BY <1>3, <2>2
    <3> QED
      BY <1>4, <1>5, <1>6, <2>2, <3>1 DEF Subscription, Merges
  <2>3. CASE ~ entry[m].failed /\ ~ entry[m].synced
    BY <1>3, <1>4, <1>5, <1>6, <2>3
  <2> QED
    BY <2>1, <2>2, <2>3
<1>8. TypeOK'
  BY <1>1, <1>2, <1>7 DEF TypeOK
<1>9. Merging'
  BY <1>1, <1>2, <1>7 DEF Merging
<1>10. ASSUME NEW n \in Namespaces PROVE Lives(n)'
  <2>1. Lives(n)
    BY DEF Inv
  <2>2. /\ n \in sub'.due => n \in sub.due \/ (n = m /\ entry[n].synced)
        /\ n \in sub'.answered => n \in sub.answered
        /\ n \in sub'.refused => n \in sub.refused \/ (n = m /\ entry[n].failed)
        /\ n = m => sub'.at[n] = "joined"
        /\ n # m => sub'.at[n] = sub.at[n]
    BY <1>4, <1>7
  <2> QED
    BY <1>2, <2>1, <2>2 DEF Lives
<1>11. ASSUME NEW k \in Keys PROVE Kept(k)'
  <2>1. Kept(k) /\ Home(k) \in Namespaces
    BY HomeOf DEF Inv
  <2>2. sub.at[Home(k)] = "joined" => sub'.at[Home(k)] = "joined"
    BY <1>4, <1>7, <2>1
  <2> QED
    BY <1>1, <1>2, <1>7, <2>1, <2>2 DEF Kept, Merging
<1>12. ASSUME NEW k \in Keys, ~ entry'[Home(k)].failed PROVE Current(k)'
  BY <1>2, <1>7, <1>12 DEF Inv, Current, Held
<1> QED
  BY <1>8, <1>9, <1>10, <1>11, <1>12 DEF Inv

LEMMA ForbidStep ==
  ASSUME Inv, NEW m \in Namespaces, Forbid(m)
  PROVE  Inv'
<1>1. TypeOK /\ Merging /\ Lives(m)
  BY DEF Inv
<1>2. live' = live /\ hub' = hub /\ client' = client /\ reconnects' = reconnects
      /\ missed' = missed /\ early' = early /\ ~ entry[m].failed
  BY DEF Forbid
<1>3. /\ entry' \in [Namespaces -> Entry]
      /\ \A n \in Namespaces : /\ entry'[n].synced = entry[n].synced /\ entry'[n].listed = entry[n].listed
                               /\ entry'[n].events = entry[n].events /\ entry'[n].fanout = entry[n].fanout
                               /\ entry'[n].failed = (entry[n].failed \/ n = m)
  <2>1. entry' = [entry EXCEPT ![m] = [entry[m] EXCEPT !.failed = TRUE]]
    BY DEF Forbid
  <2>2. entry[m] \in Entry /\ [entry[m] EXCEPT !.failed = TRUE] \in Entry
    BY <1>1 DEF TypeOK, Entry
  <2> QED
    BY <1>1, <2>1, <2>2 DEF TypeOK, Entry
<1>4. m \notin sub.refused /\ ~ sub.ended
  BY <1>1, <1>2 DEF Lives, Merging, Merges
<1>5. /\ sub' \in Subscription /\ Merges(sub') /\ sub'.at = sub.at /\ sub'.due = sub.due
      /\ sub'.refused \subseteq sub.refused \cup {m} /\ sub'.answered = sub.answered \ {m}
      /\ m \in sub'.refused => sub.at[m] = "joined"
      /\ sub'.captured = sub.captured /\ sub'.changed = sub.changed
      /\ sub.snapshot # {} => sub'.snapshot = sub.snapshot
      /\ sub'.queue = sub.queue
  <2>1. CASE sub.at[m] = "joined"
    <3> DEFINE r == Refused(sub, m)
    <3>1. /\ r \in Subscription /\ Merges(r) /\ r.at = sub.at /\ r.due = sub.due
          /\ r.captured = sub.captured /\ r.changed = sub.changed /\ r.queue = sub.queue
          /\ r.refused = sub.refused \cup {m} /\ r.answered = sub.answered \ {m}
          /\ sub.snapshot # {} => r.snapshot = sub.snapshot
      BY <1>1, Refusal DEF TypeOK, Merging
    <3>2. sub' = r
      BY <1>4, <2>1 DEF Forbid
    <3> HIDE DEF r
    <3> QED
      BY <2>1, <3>1, <3>2
  <2>2. CASE sub.at[m] # "joined"
    <3>1. sub' = sub /\ m \notin sub.answered
      BY <1>1, <2>2 DEF Forbid, Lives
    <3> QED
      BY <1>1, <1>4, <3>1 DEF TypeOK, Merging
  <2> QED
    BY <2>1, <2>2
<1>6. TypeOK'
  BY <1>1, <1>2, <1>3, <1>5 DEF TypeOK
<1>7. Merging'
  BY <1>1, <1>2, <1>5 DEF Merging
<1>8. ASSUME NEW n \in Namespaces PROVE Lives(n)'
  <2>1. Lives(n)
    BY DEF Inv
  <2>2. /\ entry'[n].synced = entry[n].synced /\ entry'[n].listed = entry[n].listed
        /\ entry'[n].events = entry[n].events /\ entry'[n].fanout = entry[n].fanout
        /\ n = m => entry'[n].failed
        /\ n # m => entry'[n].failed = entry[n].failed
    BY <1>1, <1>3 DEF TypeOK, Entry
  <2>3. /\ n \in sub'.due => n \in sub.due
        /\ n \in sub'.answered => n \in sub.answered
        /\ n \in sub'.refused => n \in sub.refused \/ (n = m /\ sub.at[n] = "joined")
        /\ sub'.at[n] = sub.at[n]
    BY <1>5
  <2> QED
    BY <2>1, <2>2, <2>3 DEF Lives
<1>9. ASSUME NEW k \in Keys PROVE Kept(k)'
  <2>1. Kept(k) /\ Home(k) \in Namespaces
    BY HomeOf DEF Inv
  <2> QED
    BY <1>1, <1>2, <1>3, <1>5, <2>1 DEF Kept, Merging
<1>10. ASSUME NEW k \in Keys, ~ entry'[Home(k)].failed PROVE Current(k)'
  <2>1. Home(k) \in Namespaces /\ ~ entry[Home(k)].failed
    BY <1>3, <1>10, HomeOf
  <2>2. Current(k)
    BY <2>1 DEF Inv
  <2> QED
    BY <1>2, <1>3, <1>5, <2>1, <2>2 DEF Current, Held
<1> QED
  BY <1>6, <1>7, <1>8, <1>9, <1>10 DEF Inv

LEMMA OfferStep ==
  ASSUME Inv, NEW m \in Namespaces, Offer(m)
  PROVE  Inv'
<1> DEFINE s == [sub EXCEPT !.due = @ \ {m}]
           rows == [k \in Keys |-> IF Home(k) = m THEN live[k] ELSE sub.captured[k]]
           a == [sub EXCEPT !.due = @ \ {m}, !.answered = @ \cup {m}, !.captured = rows, !.changed = @ \ Of(m)]
<1>1. TypeOK /\ Merging /\ Lives(m) /\ sub \in Subscription
  BY DEF Inv, TypeOK
<1>2. live' = live /\ entry' = entry /\ hub' = hub /\ client' = client /\ reconnects' = reconnects
      /\ missed' = missed /\ early' = early /\ m \in sub.due
  BY DEF Offer
<1>3. s \in Subscription /\ s.at = sub.at /\ s.due = sub.due \ {m} /\ s.answered = sub.answered
      /\ s.refused = sub.refused /\ s.captured = sub.captured /\ s.changed = sub.changed
      /\ s.snapshot = sub.snapshot /\ s.deny = sub.deny /\ s.queue = sub.queue /\ s.ended = sub.ended
  BY <1>1 DEF Subscription
<1>4. rows \in [Keys -> Row]
  BY <1>1 DEF TypeOK, Rows, Subscription
<1>5. a \in Subscription /\ a.at = sub.at /\ a.due = sub.due \ {m} /\ a.answered = sub.answered \cup {m}
      /\ a.refused = sub.refused /\ a.captured = rows /\ a.changed = sub.changed \ Of(m)
      /\ a.snapshot = sub.snapshot /\ a.deny = sub.deny /\ a.queue = sub.queue /\ a.ended = sub.ended
  <2> HIDE DEF rows
  <2> QED
    BY <1>1, <1>4 DEF Subscription
<1>6. sub' = IF m \in sub.answered \cup sub.refused THEN s ELSE Merged(a)
  <2>1. a = [s EXCEPT !.answered = @ \cup {m},
                      !.captured = [k \in Keys |-> IF Home(k) = m THEN live[k] ELSE @[k]],
                      !.changed = @ \ Of(m)]
    BY <1>1 DEF Subscription
  <2> QED
    BY <1>3, <2>1 DEF Offer
<1>7. \A k \in Keys : rows[k] = IF Home(k) = m THEN live[k] ELSE sub.captured[k]
  OBVIOUS
<1> HIDE DEF s, a, rows
<1>8. ASSUME m \in sub.answered \cup sub.refused
      PROVE  /\ sub' \in Subscription /\ sub'.at = sub.at /\ sub'.due = sub.due \ {m}
             /\ sub'.answered = sub.answered /\ sub'.refused = sub.refused
             /\ sub'.captured = sub.captured /\ sub'.changed = sub.changed
             /\ sub'.snapshot = sub.snapshot /\ sub'.deny = sub.deny /\ sub'.queue = sub.queue
             /\ sub'.ended = sub.ended
  BY <1>3, <1>6, <1>8
<1>9. ASSUME m \notin sub.answered \cup sub.refused
      PROVE  /\ sub' \in Subscription /\ sub'.at = sub.at /\ sub'.due = sub.due \ {m}
             /\ sub'.answered = sub.answered \cup {m} /\ sub'.refused = sub.refused
             /\ sub'.captured = rows /\ sub'.changed = sub.changed \ Of(m)
             /\ sub'.deny = sub.deny /\ sub'.queue = sub.queue /\ sub'.ended = sub.ended
             /\ sub.snapshot = {}
             /\ sub'.snapshot = IF sub'.answered \cup sub'.refused = Namespaces THEN sub'.answered ELSE {}
  <2>1. sub.snapshot = {}
    BY <1>1, <1>9 DEF Merging, Merges
  <2>2. CASE a.answered \cup a.refused = Namespaces
    <3>1. sub' = [a EXCEPT !.snapshot = a.answered]
      BY <1>5, <1>6, <1>9, <2>1, <2>2 DEF Merged
    <3> QED
      BY <1>5, <2>1, <2>2, <3>1 DEF Subscription
  <2>3. CASE a.answered \cup a.refused # Namespaces
    <3>1. sub' = a
      BY <1>6, <1>9, <2>3 DEF Merged
    <3> QED
      BY <1>5, <2>1, <2>3, <3>1
  <2> QED
    BY <2>2, <2>3
<1>10. TypeOK'
  BY <1>1, <1>2, <1>8, <1>9 DEF TypeOK
<1>11. Merging'
  <2>1. CASE m \in sub.answered \cup sub.refused
    BY <1>1, <1>2, <1>8, <2>1 DEF Merging, Merges
  <2>2. CASE m \notin sub.answered \cup sub.refused
    BY <1>1, <1>2, <1>9, <2>2 DEF Merging, Merges
  <2> QED
    BY <2>1, <2>2
<1>12. ASSUME NEW n \in Namespaces PROVE Lives(n)'
  <2>1. Lives(n)
    BY DEF Inv
  <2>2. CASE m \in sub.answered \cup sub.refused
    BY <1>2, <1>8, <2>1, <2>2 DEF Lives
  <2>3. CASE m \notin sub.answered \cup sub.refused
    BY <1>1, <1>2, <1>9, <2>1, <2>3 DEF Lives
  <2> QED
    BY <2>2, <2>3
<1>13. ASSUME NEW k \in Keys PROVE Kept(k)'
  <2>1. Kept(k) /\ Home(k) \in Namespaces
    BY HomeOf DEF Inv
  <2>2. CASE m \in sub.answered \cup sub.refused
    BY <1>2, <1>8, <2>1, <2>2 DEF Kept
  <2>3. CASE m \notin sub.answered \cup sub.refused
    <3>1. hub # "filled"
      BY <1>1, <1>9, <2>3 DEF Merging
    <3>2. /\ Home(k) = m => sub'.captured[k] = live[k]
          /\ Home(k) # m => sub'.captured[k] = sub.captured[k] /\ k \notin Of(m)
      BY <1>7, <1>9, <2>3, HomeOf
    <3> QED
      BY <1>2, <1>9, <2>1, <2>3, <3>1, <3>2 DEF Kept
  <2> QED
    BY <2>2, <2>3
<1>14. ASSUME NEW k \in Keys, ~ entry'[Home(k)].failed PROVE Current(k)'
  <2>1. Current(k)
    BY <1>2, <1>14 DEF Inv
  <2>2. CASE m \in sub.answered \cup sub.refused
    BY <1>2, <1>8, <2>1, <2>2 DEF Current, Held
  <2>3. CASE m \notin sub.answered \cup sub.refused
    <3>1. hub # "live"
      BY <1>1, <1>9, <2>3 DEF Merging
    <3>2. /\ Home(k) = m => Held(k)' = Shown(live[k])
          /\ Home(k) # m => Held(k)' = Held(k)
      BY <1>2, <1>7, <1>9, <2>3, <3>1 DEF Held
    <3> QED
      BY <1>2, <1>9, <2>1, <2>3, <3>2 DEF Current
  <2> QED
    BY <2>2, <2>3
<1> QED
  BY <1>10, <1>11, <1>12, <1>13, <1>14 DEF Inv

LEMMA ShownRow == NoRow \in Row /\ \A row \in Row : Shown(row) \in Row
BY BoundsNat DEF Shown, NoRow, Row

LEMMA BeginStep ==
  ASSUME Inv, Begin
  PROVE  Inv'
<1>1. TypeOK /\ Merging
  BY DEF Inv
<1>2. live' = live /\ entry' = entry /\ sub' = sub /\ reconnects' = reconnects /\ missed' = missed
      /\ early' = early /\ hub = "wait" /\ hub' = "begun" /\ sub.snapshot # {}
  BY DEF Begin
<1>3. client' \in Client
  BY <1>1, ShownRow DEF Begin, TypeOK, Client, Rows
<1>4. TypeOK'
  BY <1>1, <1>2, <1>3 DEF TypeOK
<1>5. Merging'
  BY <1>1, <1>2 DEF Merging, Merges
<1>6. ASSUME NEW n \in Namespaces PROVE Lives(n)'
  BY <1>2 DEF Inv, Lives
<1>7. ASSUME NEW k \in Keys PROVE Kept(k)'
  BY <1>2 DEF Inv, Kept
<1>8. ASSUME NEW k \in Keys, ~ entry'[Home(k)].failed PROVE Current(k)'
  BY <1>2, <1>8 DEF Inv, Current, Held
<1> QED
  BY <1>4, <1>5, <1>6, <1>7, <1>8 DEF Inv

LEMMA ItemsStep ==
  ASSUME Inv, Items
  PROVE  Inv'
<1> DEFINE rows == [k \in Keys |-> IF Home(k) \in sub.snapshot THEN Shown(sub.captured[k]) ELSE client.buffer[k]]
<1>1. TypeOK /\ Merging
  BY DEF Inv
<1>2. live' = live /\ entry' = entry /\ sub' = sub /\ reconnects' = reconnects /\ missed' = missed
      /\ early' = early /\ hub = "begun" /\ hub' = "filled"
  BY DEF Items
<1>3. client' = [client EXCEPT !.buffer = rows]
  BY DEF Items
<1>4. rows \in Rows /\ \A k \in Keys : Home(k) \in sub.snapshot => rows[k] = Shown(sub.captured[k])
  BY <1>1, ShownRow DEF TypeOK, Subscription, Client, Rows
<1> HIDE DEF rows
<1>5. client' \in Client /\ client'.buffer = rows
  BY <1>1, <1>3, <1>4 DEF TypeOK, Client
<1>6. TypeOK'
  BY <1>1, <1>2, <1>5 DEF TypeOK
<1>7. Merging'
  BY <1>1, <1>2 DEF Merging, Merges
<1>8. ASSUME NEW n \in Namespaces PROVE Lives(n)'
  BY <1>2 DEF Inv, Lives
<1>9. ASSUME NEW k \in Keys PROVE Kept(k)'
  BY <1>2, <1>4, <1>5 DEF Inv, Kept
<1>10. ASSUME NEW k \in Keys, ~ entry'[Home(k)].failed PROVE Current(k)'
  BY <1>2, <1>10 DEF Inv, Current, Held
<1> QED
  BY <1>6, <1>7, <1>8, <1>9, <1>10 DEF Inv

LEMMA SyncFrameStep ==
  ASSUME Inv, SyncFrame
  PROVE  Inv'
<1>1. TypeOK /\ Merging
  BY DEF Inv
<1>2. live' = live /\ entry' = entry /\ sub' = sub /\ reconnects' = reconnects /\ missed' = missed
      /\ early' = early /\ hub = "filled" /\ hub' = "live"
  BY DEF SyncFrame
<1>3. client' \in Client /\ client'.store = client.buffer
  BY <1>1 DEF SyncFrame, TypeOK, Client
<1>4. TypeOK'
  BY <1>1, <1>2, <1>3 DEF TypeOK
<1>5. Merging'
  BY <1>1, <1>2 DEF Merging, Merges
<1>6. ASSUME NEW n \in Namespaces PROVE Lives(n)'
  BY <1>2 DEF Inv, Lives
<1>7. ASSUME NEW k \in Keys PROVE Kept(k)'
  BY <1>2 DEF Inv, Kept
<1>8. ASSUME NEW k \in Keys, ~ entry'[Home(k)].failed PROVE Current(k)'
  <2>1. Current(k) /\ Kept(k) /\ Home(k) \in Namespaces
    BY <1>2, <1>8, HomeOf DEF Inv
  <2>2. Home(k) \in sub.answered => Held(k)' = Held(k)
    <3>1. Home(k) \in sub.answered => Home(k) \in sub.snapshot
      BY <1>1, <1>2, <2>1 DEF Merging, Merges
    <3> QED
      BY <1>2, <1>3, <2>1, <3>1 DEF Held, Kept
  <2> QED
    BY <1>2, <2>1, <2>2 DEF Current
<1> QED
  BY <1>4, <1>5, <1>6, <1>7, <1>8 DEF Inv

LEMMA SendDeniedStep ==
  ASSUME Inv, SendDenied
  PROVE  Inv'
<1> DEFINE m == Head(sub.deny)
<1>1. TypeOK /\ Merging /\ sub.deny \in Seq(Namespaces) /\ sub.deny # <<>>
  BY DEF Inv, TypeOK, Subscription, SendDenied
<1>2. live' = live /\ entry' = entry /\ hub' = hub /\ reconnects' = reconnects /\ missed' = missed
      /\ early' = early /\ hub # "filled"
  BY DEF SendDenied, Selecting
<1>3. m \in Namespaces /\ entry[m].failed
  <2>1. m = sub.deny[1] /\ 1 \in DOMAIN sub.deny /\ m \in Namespaces
    BY <1>1, EmptySeq
  <2>2. m \in sub.refused
    BY <1>1, <2>1 DEF Merging, Merges
  <2> QED
    BY <2>1, <2>2 DEF Inv, Lives
<1>4. /\ sub' \in Subscription /\ sub'.at = sub.at /\ sub'.due = sub.due /\ sub'.answered = sub.answered
      /\ sub'.refused = sub.refused /\ sub'.captured = sub.captured /\ sub'.changed = sub.changed
      /\ sub'.snapshot = sub.snapshot /\ sub'.queue = sub.queue /\ sub'.ended = sub.ended
      /\ sub'.deny = Tail(sub.deny)
  <2>1. Tail(sub.deny) \in Seq(Namespaces) /\ sub' = [sub EXCEPT !.deny = Tail(sub.deny)]
    BY <1>1 DEF SendDenied
  <2> QED
    BY <1>1, <2>1 DEF TypeOK, Subscription
<1>5. Without(client.store, m) \in Rows /\ Without(client.buffer, m) \in Rows
      /\ \A k \in Keys : Home(k) # m => Without(client.store, m)[k] = client.store[k]
  BY <1>1, ShownRow DEF Without, TypeOK, Client, Rows
<1>6. client' = [client EXCEPT !.store = Without(client.store, m), !.buffer = Without(client.buffer, m),
                               !.denied = @ \cup {m}]
  BY DEF SendDenied
<1> HIDE DEF m
<1>7. client' \in Client /\ client'.store = Without(client.store, m)
  BY <1>1, <1>3, <1>5, <1>6 DEF TypeOK, Client
<1>8. TypeOK'
  BY <1>1, <1>2, <1>4, <1>7 DEF TypeOK
<1>9. Merging'
  <2>1. \A i \in DOMAIN Tail(sub.deny) : Tail(sub.deny)[i] = sub.deny[i + 1] /\ i + 1 \in DOMAIN sub.deny
    BY <1>1, EmptySeq
  <2> QED
    BY <1>1, <1>2, <1>4, <2>1 DEF Merging, Merges
<1>10. ASSUME NEW n \in Namespaces PROVE Lives(n)'
  BY <1>2, <1>4 DEF Inv, Lives
<1>11. ASSUME NEW k \in Keys PROVE Kept(k)'
  BY <1>2, <1>4 DEF Inv, Kept
<1>12. ASSUME NEW k \in Keys, ~ entry'[Home(k)].failed PROVE Current(k)'
  <2>1. Home(k) # m /\ Current(k)
    BY <1>2, <1>3, <1>12 DEF Inv
  <2>2. Held(k)' = Held(k)
    BY <1>2, <1>4, <1>5, <1>7, <2>1 DEF Held
  <2> QED
    BY <1>2, <1>4, <2>1, <2>2 DEF Current
<1> QED
  BY <1>8, <1>9, <1>10, <1>11, <1>12 DEF Inv

LEMMA SendForbiddenStep ==
  ASSUME Inv, SendForbidden
  PROVE  Inv'
<1>1. TypeOK /\ Merging
  BY DEF Inv
<1>2. live' = live /\ entry' = entry /\ sub' = sub /\ reconnects' = reconnects /\ missed' = missed
      /\ early' = early /\ hub' = "done" /\ sub.ended
  BY DEF SendForbidden
<1>3. client' \in Client
  BY <1>1 DEF SendForbidden, TypeOK, Client
<1>4. TypeOK'
  BY <1>1, <1>2, <1>3 DEF TypeOK
<1>5. Merging'
  BY <1>1, <1>2 DEF Merging, Merges
<1>6. ASSUME NEW n \in Namespaces PROVE Lives(n)'
  BY <1>2 DEF Inv, Lives
<1>7. ASSUME NEW k \in Keys PROVE Kept(k)'
  BY <1>2 DEF Inv, Kept
<1>8. \A k \in Keys : entry'[Home(k)].failed
  BY <1>1, <1>2, HomeOf DEF Inv, Lives, Merging, Merges
<1> QED
  BY <1>4, <1>5, <1>6, <1>7, <1>8 DEF Inv

LEMMA ReconnectStep ==
  ASSUME Inv, Reconnect
  PROVE  Inv'
<1>1. TypeOK
  BY DEF Inv
<1>2. live' = live /\ sub' = NewSubscription /\ hub' = "wait" /\ early' = {}
      /\ entry' = [n \in Namespaces |-> IF entry[n].failed THEN NewEntry ELSE entry[n]]
      /\ missed' = {k \in missed : ~entry[Home(k)].failed}
  BY DEF Reconnect
<1>3. NewSubscription \in Subscription /\ NewEntry \in Entry /\ Len(NewEntry.fanout) <= FanoutCap
  BY ShownRow, FanoutCapPos DEF NewSubscription, Subscription, NewEntry, Entry
<1>4. TypeOK'
  <2>1. reconnects' \in 0 .. MaxReconnects
    BY <1>1, BoundsNat DEF Reconnect, TypeOK
  <2>2. client' \in Client
    BY <1>1 DEF Reconnect, TypeOK, Client
  <2> QED
    BY <1>1, <1>2, <1>3, <2>1, <2>2 DEF TypeOK
<1>5. Merging'
  BY <1>2 DEF Merging, Merges, NewSubscription
<1>6. ASSUME NEW n \in Namespaces PROVE Lives(n)'
  <2>1. CASE entry[n].failed
    BY <1>2, <2>1 DEF Lives, NewEntry, NewSubscription, Has
  <2>2. CASE ~ entry[n].failed
    BY <1>2, <2>2 DEF Inv, Lives, NewSubscription
  <2> QED
    BY <2>1, <2>2
<1>7. ASSUME NEW k \in Keys PROVE Kept(k)'
  BY <1>2 DEF Kept, NewSubscription, Has
<1>8. ASSUME NEW k \in Keys PROVE Current(k)'
  <2>1. Home(k) \in Namespaces /\ ~ Has(sub'.queue, k) /\ Home(k) \notin sub'.answered
    BY <1>2, HomeOf DEF NewSubscription, Has
  <2>2. CASE entry[Home(k)].failed
    <3>1. entry'[Home(k)] = NewEntry /\ ~ Has(NewEntry.events, k) /\ ~ Has(NewEntry.fanout, k)
      BY <1>2, <2>1, <2>2 DEF NewEntry, Has
    <3> QED
      BY <2>1, <3>1 DEF Current
  <2>3. CASE ~ entry[Home(k)].failed
    <3>1. entry'[Home(k)] = entry[Home(k)] /\ (k \notin missed' => k \notin missed) /\ Current(k)
      BY <1>2, <2>1, <2>3 DEF Inv
    <3> QED
      BY <1>2, <2>1, <3>1 DEF Current
  <2> QED
    BY <2>2, <2>3
<1> QED
  BY <1>4, <1>5, <1>6, <1>7, <1>8 DEF Inv

LEMMA NewestRow ==
  ASSUME NEW s \in Seq(Op), NEW k, Has(s, k)
  PROVE  Newest(s, k) \in Row
<1>1. PICK i : LastOf(s, k, i)
  BY NewestExists
<1>2. s[i] \in Op /\ Newest(s, k) = s[i].row
  BY <1>1, NewestAt DEF LastOf
<1> QED
  BY <1>2 DEF Op

LEMMA SendDeltaStep ==
  ASSUME Inv, SendDelta
  PROVE  Inv'
<1>1. TypeOK /\ Merging /\ sub.queue \in Seq(Op) /\ client \in Client
  BY DEF Inv, TypeOK, Subscription
<1>2. live' = live /\ entry' = entry /\ hub' = hub /\ reconnects' = reconnects /\ missed' = missed
      /\ hub \in {"wait", "live"}
  BY DEF SendDelta, Selecting
<1>3. PICK i \in DOMAIN sub.queue :
        LET batch == SubSeq(sub.queue, 1, i)
            keys  == {batch[j].key : j \in DOMAIN batch}
        IN  /\ sub' = [sub EXCEPT !.queue = SubSeq(sub.queue, i + 1, Len(sub.queue))]
            /\ \/ client' = [client EXCEPT !.store = Applied(client.store, batch)]
               \/ /\ hub = "wait" /\ client.resync /\ batch[1].row.there
                  /\ client' = [client EXCEPT !.buffer = Applied(client.buffer, batch)]
            /\ early' = IF hub = "live" THEN early \ keys
                        ELSE early \cup {k \in keys \cap sub.changed : Home(k) \in sub.answered}
  BY DEF SendDelta
<1> DEFINE batch == SubSeq(sub.queue, 1, i)
           rest  == SubSeq(sub.queue, i + 1, Len(sub.queue))
           keys  == {batch[j].key : j \in DOMAIN batch}
<1>4. i \in 0 .. Len(sub.queue)
  BY <1>1
<1>5. batch \in Seq(Op) /\ rest \in Seq(Op)
  BY <1>1, <1>4, NewestOfSuffix
<1>6. ASSUME NEW k
      PROVE  /\ Has(rest, k) => Has(sub.queue, k) /\ Newest(sub.queue, k) = Newest(rest, k)
             /\ Has(sub.queue, k) /\ ~ Has(rest, k) => Has(batch, k) /\ Newest(sub.queue, k) = Newest(batch, k)
             /\ ~ Has(sub.queue, k) => ~ Has(batch, k)
  BY <1>1, <1>4, NewestOfSuffix
<1>7. \A k : k \in keys <=> Has(batch, k)
  BY DEF Has
<1>8. /\ sub' = [sub EXCEPT !.queue = rest]
      /\ \/ client' = [client EXCEPT !.store = Applied(client.store, batch)]
         \/ hub = "wait" /\ client' = [client EXCEPT !.buffer = Applied(client.buffer, batch)]
      /\ early' = IF hub = "live" THEN early \ keys
                  ELSE early \cup {k \in keys \cap sub.changed : Home(k) \in sub.answered}
  BY <1>3
<1> HIDE DEF batch, rest, keys
<1>9. /\ sub' \in Subscription /\ sub'.queue = rest
      /\ sub'.at = sub.at /\ sub'.due = sub.due /\ sub'.answered = sub.answered /\ sub'.refused = sub.refused
      /\ sub'.captured = sub.captured /\ sub'.changed = sub.changed /\ sub'.snapshot = sub.snapshot
      /\ sub'.deny = sub.deny /\ sub'.ended = sub.ended
  BY <1>1, <1>5, <1>8 DEF TypeOK, Subscription
<1>10. ASSUME NEW rows \in Rows
       PROVE  /\ Applied(rows, batch) \in Rows
              /\ \A k \in Keys : Applied(rows, batch)[k] = IF Has(batch, k) THEN Shown(Newest(batch, k)) ELSE rows[k]
  <2>1. \A k \in Keys : Has(batch, k) => Shown(Newest(batch, k)) \in Row
    BY <1>5, NewestRow, ShownRow
  <2> QED
    BY <2>1 DEF Applied, Rows
<1>11. /\ client' \in Client
       /\ hub = "live" => client'.store = Applied(client.store, batch)
  <2>1. CASE client' = [client EXCEPT !.store = Applied(client.store, batch)]
    BY <1>1, <1>10, <2>1 DEF Client
  <2>2. CASE hub = "wait" /\ client' = [client EXCEPT !.buffer = Applied(client.buffer, batch)]
    BY <1>1, <1>10, <2>2 DEF Client
  <2> QED
    BY <1>8, <2>1, <2>2
<1>12. TypeOK'
  <2>1. early' \subseteq Keys
    BY <1>1, <1>8 DEF TypeOK, Subscription
  <2> QED
    BY <1>1, <1>2, <1>9, <1>11, <2>1 DEF TypeOK
<1>13. Merging'
  BY <1>1, <1>2, <1>9 DEF Merging, Merges
<1>14. ASSUME NEW n \in Namespaces PROVE Lives(n)'
  BY <1>2, <1>9 DEF Inv, Lives
<1>15. ASSUME NEW k \in Keys PROVE Kept(k)'
  <2>1. Has(rest, k) => Has(sub.queue, k)
    BY <1>6
  <2> QED
    BY <1>2, <1>9, <2>1 DEF Inv, Kept
<1>16. ASSUME NEW k \in Keys, ~ entry'[Home(k)].failed PROVE Current(k)'
  <2>1. Current(k) /\ Kept(k)
    BY <1>2, <1>16 DEF Inv
  <2> SUFFICES ASSUME k \notin missed, ~ Has(entry[Home(k)].events, k), ~ Has(entry[Home(k)].fanout, k)
               PROVE  /\ Has(rest, k) => Newest(rest, k) = live[k]
                      /\ Home(k) \in sub.answered /\ ~ Has(rest, k) => k \in early' \/ Held(k)' = Shown(live[k])
    BY <1>2, <1>9, <2>1 DEF Current
  <2>2. Has(sub.queue, k) => Newest(sub.queue, k) = live[k]
    BY <2>1 DEF Current
  <2>3. Has(rest, k) => Newest(rest, k) = live[k]
    BY <1>6, <2>2
  <2>4. ASSUME Home(k) \in sub.answered, ~ Has(rest, k) PROVE k \in early' \/ Held(k)' = Shown(live[k])
    <3>1. CASE hub = "live"
      <4>1. Held(k)' = IF Has(batch, k) THEN Shown(Newest(batch, k)) ELSE client.store[k]
        BY <1>1, <1>2, <1>10, <1>11, <3>1 DEF Held, Client
      <4>2. CASE Has(batch, k)
        BY <1>6, <2>2, <2>4, <4>1, <4>2
      <4>3. CASE ~ Has(batch, k)
        <5>1. ~ Has(sub.queue, k)
          BY <1>6, <2>4, <4>3
        <5>2. k \in early \/ client.store[k] = Shown(live[k])
          BY <2>1, <2>4, <3>1, <5>1 DEF Current, Held
        <5> QED
          BY <1>7, <1>8, <3>1, <4>1, <4>3, <5>2
      <4> QED
        BY <4>2, <4>3
    <3>2. CASE hub = "wait"
      <4>1. Held(k)' = Shown(sub.captured[k]) /\ Held(k) = Shown(sub.captured[k])
        BY <1>2, <1>9, <3>2 DEF Held
      <4>2. CASE Has(batch, k) /\ k \in sub.changed
        BY <1>7, <1>8, <2>4, <3>2, <4>2
      <4>3. CASE k \notin sub.changed
        BY <2>1, <2>4, <4>1, <4>3 DEF Kept
      <4>4. CASE ~ Has(batch, k)
        <5>1. ~ Has(sub.queue, k)
          BY <1>6, <2>4, <4>4
        <5> QED
          BY <1>8, <2>1, <2>4, <3>2, <4>1, <5>1 DEF Current
      <4> QED
        BY <4>2, <4>3, <4>4
    <3> QED
      BY <1>2, <3>1, <3>2
  <2> QED
    BY <2>3, <2>4
<1> QED
  BY <1>12, <1>13, <1>14, <1>15, <1>16 DEF Inv

LEMMA StutterStep == Inv /\ UNCHANGED vars => Inv'
BY DEF Inv, vars, TypeOK, Merging, Merges, Lives, Kept, Current, Held

LEMMA NextInv == Inv /\ [Next]_vars => Inv'
<1> SUFFICES ASSUME Inv, Next PROVE Inv'
  BY StutterStep
<1>1. ASSUME NEW k \in Keys, Update(k) PROVE Inv'
  BY <1>1, UpdateStep
<1>2. ASSUME NEW n \in Namespaces, List(n) \/ Sync(n) \/ Emit(n) \/ Drain(n) PROVE Inv'
  BY <1>2, ListStep, SyncStep, EmitStep, DrainStep
<1>3. ASSUME NEW n \in Namespaces, Fetch(n) \/ Join(n) \/ Offer(n) \/ Forbid(n) PROVE Inv'
  BY <1>3, FetchStep, JoinStep, OfferStep, ForbidStep
<1>4. CASE Begin \/ Items \/ SyncFrame \/ SendDelta \/ SendDenied \/ SendForbidden
  BY <1>4, BeginStep, ItemsStep, SyncFrameStep, SendDeltaStep, SendDeniedStep, SendForbiddenStep
<1>5. CASE Reconnect
  BY <1>5, ReconnectStep
<1> QED
  BY <1>1, <1>2, <1>3, <1>4, <1>5 DEF Next

THEOREM Invariance == Spec => []Inv
BY InitInv, NextInv, PTL DEF Spec

-----------------------------------------------------------------------------
(* Theorems *)

(* No step of the informers, the merge, the hub's goroutine or a reconnect
   takes the variables out of their types; a fanout never exceeds its capacity. *)
THEOREM TypeCorrect == Spec => []TypeOK
<1>1. Inv => TypeOK
  BY DEF Inv
<1> QED
  BY <1>1, Invariance, PTL

(* mergedLocked: the one snapshot carries every namespace but the refused, and
   is made as soon as each has answered or been refused, in whatever order. *)
THEOREM OneSnapshot == Spec => []OneWholeSnapshot
<1>1. Inv => OneWholeSnapshot
  BY DEF Inv, Merging, Merges, OneWholeSnapshot
<1> QED
  BY <1>1, Invariance, PTL

(* applyOps on what deliverSnapshot, drainFanout and the hub hand over: a row
   is stale only if its newest event was dropped at a full fanout or went out
   before the snapshot that lacks it. *)
THEOREM NoOtherStaleRow == Spec => []StaleOnlyWhereKnown
<1>1. Inv => StaleOnlyWhereKnown
  <2> SUFFICES ASSUME Inv, NEW k \in Keys, Home(k) \in sub.answered, k \notin missed, ~ entry[Home(k)].failed
               PROVE  IF Has(OnTheWay(k), k) THEN Newest(OnTheWay(k), k) = live[k]
                      ELSE k \in early \/ Held(k) = Shown(live[k])
    BY DEF StaleOnlyWhereKnown
  <2> DEFINE q == sub.queue
             f == entry[Home(k)].fanout
             e == entry[Home(k)].events
  <2>1. q \in Seq(Op) /\ f \in Seq(Op) /\ e \in Seq(Op) /\ Current(k)
    BY HomeOf DEF Inv, TypeOK, Subscription, Entry
  <2>2. /\ Has(e, k) => Newest(e, k) = live[k]
        /\ ~ Has(e, k) /\ Has(f, k) => Newest(f, k) = live[k]
        /\ ~ Has(e, k) /\ ~ Has(f, k) /\ Has(q, k) => Newest(q, k) = live[k]
        /\ ~ Has(e, k) /\ ~ Has(f, k) /\ ~ Has(q, k) => k \in early \/ Held(k) = Shown(live[k])
    BY <2>1 DEF Current
  <2>3. OnTheWay(k) = (q \o f) \o e
    BY DEF OnTheWay
  <2> HIDE DEF q, f, e
  <2>4. /\ q \o f \in Seq(Op)
        /\ Has(q \o f, k) <=> Has(q, k) \/ Has(f, k)
        /\ Has(f, k) => Newest(q \o f, k) = Newest(f, k)
        /\ Has(q, k) /\ ~ Has(f, k) => Newest(q \o f, k) = Newest(q, k)
    BY <2>1, NewestOfConcat
  <2>5. /\ Has((q \o f) \o e, k) <=> Has(q \o f, k) \/ Has(e, k)
        /\ Has(e, k) => Newest((q \o f) \o e, k) = Newest(e, k)
        /\ Has(q \o f, k) /\ ~ Has(e, k) => Newest((q \o f) \o e, k) = Newest(q \o f, k)
    BY <2>1, <2>4, NewestOfConcat
  <2> QED
    BY <2>2, <2>3, <2>4, <2>5, Zenon
<1> QED
  BY <1>1, Invariance, PTL

=============================================================================
