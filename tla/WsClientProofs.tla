--------------------------- MODULE WsClientProofs ---------------------------
(***************************************************************************)
(* Theorems about WsClient, for any clusters, pages, sockets and numbers   *)
(* of subscriptions, changes and ends.                                     *)
(***************************************************************************)
EXTENDS WsClient, SequenceTheorems, TLAPS

-----------------------------------------------------------------------------
(* The inductive invariant: the wire to the engine *)

Sub(k) == [id |-> k.id, c |-> k.c]

(* What names the subscription i, and with which cluster. *)
Names(list, frames, i, c) ==
  \/ \E n \in DOMAIN list : list[n].id = i /\ list[n].c = c
  \/ \E n \in DOMAIN frames : frames[n].id = i /\ frames[n].c = c
  \/ engine[i].at # "none" /\ engine[i].c = c

(* An id is drawn before it is used, and for one cluster. *)
OneCluster(list, frames, drawn, i) ==
  /\ \A c \in Clusters : Names(list, frames, i, c) => i <= drawn
  /\ \A c, d \in Clusters : Names(list, frames, i, c) /\ Names(list, frames, i, d) => c = d

Wants(list, i) == \E n \in DOMAIN list : list[n].id = i

LastFor(frames, i, n) ==
  /\ n \in DOMAIN frames /\ frames[n].id = i
  /\ \A m \in DOMAIN frames : frames[m].id = i => m <= n

(* The last frame of a subscription says whether the client wants it, and if
   none is on the wire, the engine knows. *)
Told(list, frames, i) ==
  /\ \A n : LastFor(frames, i, n) => (frames[n].type # "unsub" <=> Wants(list, i))
  /\ (\A n \in DOMAIN frames : frames[n].id # i) => (engine[i].at # "none" <=> Wants(list, i))

Once(list) == \A m, n \in DOMAIN list : list[m].id = list[n].id => m = n

Wire(list, frames, drawn) ==
  /\ list \in Seq(Spec0) /\ frames \in Seq(Frames) /\ Once(list)
  /\ \A i \in Ids : OneCluster(list, frames, drawn, i)
  /\ sock = "open" => \A i \in Ids : Told(list, frames, i)
  /\ sock # "open" => frames = <<>> /\ \A i \in Ids : engine[i] = NoSub

-----------------------------------------------------------------------------
(* The inductive invariant: who holds streams, and what they show *)

(* A page and a background stream each hold a subscription of their own. *)
Holds(h) ==
  /\ hook[h].c = None => hook[h] = Unmounted
  /\ hook[h].c # None =>
       /\ Sub(hook[h]) \in ToSet(subs)
       /\ \A g \in Hooks : hook[g].c # None /\ hook[g].id = hook[h].id => g = h
       /\ \A c \in Clusters : bg[c].on => bg[c].id # hook[h].id

Keeps(c) ==
  bg[c].on => [id |-> bg[c].id, c |-> c] \in ToSet(subs)

(* Nothing else is subscribed. *)
Held(s) ==
  \/ \E h \in Hooks : hook[h].c = s.c /\ hook[h].id = s.id
  \/ bg[s.c].on /\ bg[s.c].id = s.id

(* Rows are of the cluster of who has them. *)
Of(rows, c) == \A r \in rows : r.c = c

CacheOf(e, c) == e \in Cached /\ Of(e.rows, c) /\ (~ e.kept => ~ e.synced)

HookRows(h) ==
  Of(hook[h].store, hook[h].c) /\ Of(hook[h].buffer, hook[h].c) /\ Of(shown[h].rows, hook[h].c)

ConnRows(c) == Of(bg[c].store, c) /\ Of(bg[c].buffer, c) /\ CacheOf(cache[c], c)

(* What a page has is on this socket if it is said to be live, and the page
   shows what it has unless a flush is pending. *)
Flags(h) ==
  /\ hook[h].synced /\ hook[h].connected => hook[h].here
  /\ shown[h].synced /\ shown[h].connected => shown[h].here
  /\ h \notin flush => shown[h] = Rendered(hook[h])
  /\ sock # "open" => ~ hook[h].connected

Quiet ==
  /\ sock = "connecting" => flush = {}
  /\ \A c \in Clusters : leaving = c => ~ bg[c].on

Inv ==
  /\ TypeOK /\ Wire(subs, toEngine, ids)
  /\ \A h \in Hooks : Holds(h) /\ HookRows(h) /\ Flags(h)
  /\ \A c \in Clusters : Keeps(c) /\ ConnRows(c)
  /\ \A s \in ToSet(subs) : Held(s)
  /\ Quiet /\ LetGo

-----------------------------------------------------------------------------
(* Subscriptions and frames *)

LEMMA WithoutDrops ==
  ASSUME NEW list \in Seq(Spec0), Once(list), NEW id
  PROVE  /\ Without(list, id) \in Seq(Spec0) /\ Once(Without(list, id))
         /\ \A m \in DOMAIN Without(list, id) :
              \E n \in DOMAIN list : Without(list, id)[m] = list[n] /\ list[n].id # id
         /\ \A n \in DOMAIN list :
              list[n].id # id => \E m \in DOMAIN Without(list, id) : Without(list, id)[m] = list[n]
<1> DEFINE w == Without(list, id)
<1>1. DOMAIN list = 1 .. Len(list) /\ Len(list) \in Nat
  BY LenProperties
<1>2. CASE \A n \in DOMAIN list : list[n].id # id
  BY <1>2 DEF Without
<1>3. ASSUME NEW j \in DOMAIN list, list[j].id = id
      PROVE  /\ w \in Seq(Spec0) /\ Once(w)
             /\ \A m \in DOMAIN w : \E n \in DOMAIN list : w[m] = list[n] /\ list[n].id # id
             /\ \A n \in DOMAIN list : list[n].id # id => \E m \in DOMAIN w : w[m] = list[n]
  <2>1. PICK k \in DOMAIN list : list[k].id = id /\ w = RemoveAt(list, k)
    BY <1>3 DEF Without
  <2>2. k \in 1 .. Len(list)
    BY <1>1
  <2>3. /\ SubSeq(list, 1, k - 1) \in Seq(Spec0) /\ SubSeq(list, k + 1, Len(list)) \in Seq(Spec0)
        /\ Len(SubSeq(list, 1, k - 1)) = k - 1
        /\ Len(SubSeq(list, k + 1, Len(list))) = Len(list) - k
        /\ \A m \in 1 .. (k - 1) : SubSeq(list, 1, k - 1)[m] = list[m]
        /\ \A m \in 1 .. (Len(list) - k) : SubSeq(list, k + 1, Len(list))[m] = list[m + k]
    <3>1. \A i \in 1 .. Len(list) : list[i] \in Spec0
      BY ElementOfSeq
    <3>2. /\ SubSeq(list, 1, k - 1) \in Seq(Spec0)
          /\ Len(SubSeq(list, 1, k - 1)) = IF 1 <= k - 1 THEN (k - 1) - 1 + 1 ELSE 0
          /\ \A i \in 1 .. (k - 1) - 1 + 1 : SubSeq(list, 1, k - 1)[i] = list[1 + i - 1]
      <4>1. 1 \in Int /\ k - 1 \in Int /\ \A i \in 1 .. (k - 1) : list[i] \in Spec0
        BY <1>1, <2>2, <3>1
      <4> QED
        BY <4>1, SubSeqProperties
    <3>3. /\ SubSeq(list, k + 1, Len(list)) \in Seq(Spec0)
          /\ Len(SubSeq(list, k + 1, Len(list))) = IF k + 1 <= Len(list) THEN Len(list) - (k + 1) + 1 ELSE 0
          /\ \A i \in 1 .. Len(list) - (k + 1) + 1 : SubSeq(list, k + 1, Len(list))[i] = list[(k + 1) + i - 1]
      <4>1. k + 1 \in Int /\ Len(list) \in Int /\ \A i \in (k + 1) .. Len(list) : list[i] \in Spec0
        BY <1>1, <2>2, <3>1
      <4> QED
        BY <4>1, SubSeqProperties
    <3>4. ASSUME NEW m \in 1 .. (Len(list) - k)
          PROVE  SubSeq(list, k + 1, Len(list))[m] = list[m + k]
      <4>1. m \in 1 .. Len(list) - (k + 1) + 1 /\ (k + 1) + m - 1 = m + k
        BY <1>1, <2>2
      <4> QED
        BY <3>3, <4>1
    <3>5. ASSUME NEW m \in 1 .. (k - 1) PROVE SubSeq(list, 1, k - 1)[m] = list[m]
      <4>1. m \in 1 .. (k - 1) - 1 + 1 /\ 1 + m - 1 = m
        BY <1>1, <2>2
      <4> QED
        BY <3>2, <4>1
    <3>6. Len(SubSeq(list, 1, k - 1)) = k - 1 /\ Len(SubSeq(list, k + 1, Len(list))) = Len(list) - k
      BY <1>1, <2>2, <3>2, <3>3
    <3> QED
      BY <3>2, <3>3, <3>4, <3>5, <3>6
  <2>4. /\ w \in Seq(Spec0) /\ Len(w) = Len(list) - 1
        /\ \A m \in 1 .. (k - 1) : w[m] = list[m]
        /\ \A m \in k .. (Len(list) - 1) : w[m] = list[m + 1]
    <3> DEFINE a == SubSeq(list, 1, k - 1)
               b == SubSeq(list, k + 1, Len(list))
    <3>1. w = a \o b
      BY <2>1 DEF RemoveAt
    <3> HIDE DEF a, b, w
    <3>2. a \in Seq(Spec0) /\ b \in Seq(Spec0) /\ Len(a) = k - 1 /\ Len(b) = Len(list) - k
      BY <2>3 DEF a, b
    <3>3. /\ w \in Seq(Spec0) /\ Len(w) = Len(list) - 1
          /\ \A m \in 1 .. Len(w) : w[m] = IF m <= k - 1 THEN a[m] ELSE b[m - (k - 1)]
      <4>1. /\ w \in Seq(Spec0) /\ Len(w) = Len(a) + Len(b)
            /\ \A m \in 1 .. Len(a) + Len(b) : w[m] = IF m <= Len(a) THEN a[m] ELSE b[m - Len(a)]
        BY <3>1, <3>2, ConcatProperties
      <4>2. Len(a) + Len(b) = Len(list) - 1
        BY <1>1, <2>2, <3>2
      <4> QED
        BY <3>2, <4>1, <4>2
    <3>4. ASSUME NEW m \in 1 .. (k - 1) PROVE w[m] = list[m]
      <4>1. m \in 1 .. Len(w) /\ m <= k - 1
        BY <1>1, <2>2, <3>3
      <4>2. a[m] = list[m]
        BY <2>3 DEF a
      <4> QED
        BY <3>3, <4>1, <4>2
    <3>5. ASSUME NEW m \in k .. (Len(list) - 1) PROVE w[m] = list[m + 1]
      <4>1. m \in 1 .. Len(w) /\ ~ (m <= k - 1) /\ m - (k - 1) \in 1 .. (Len(list) - k)
        BY <1>1, <2>2, <3>3
      <4>2. b[m - (k - 1)] = list[(m - (k - 1)) + k]
        BY <2>3, <4>1 DEF b
      <4>3. (m - (k - 1)) + k = m + 1
        BY <1>1, <2>2
      <4> QED
        BY <3>3, <4>1, <4>2, <4>3
    <3> QED
      BY <3>3, <3>4, <3>5
  <2> HIDE DEF w
  <2>5. DOMAIN w = 1 .. (Len(list) - 1)
    BY <1>1, <2>4, LenProperties
  <2>6. ASSUME NEW m \in DOMAIN w
        PROVE  \/ m \in DOMAIN list /\ m < k /\ w[m] = list[m]
               \/ m + 1 \in DOMAIN list /\ m >= k /\ w[m] = list[m + 1]
    BY <1>1, <2>2, <2>4, <2>5
  <2>7. \A m \in DOMAIN w : \E n \in DOMAIN list : w[m] = list[n] /\ list[n].id # id
    <3> SUFFICES ASSUME NEW m \in DOMAIN w PROVE \E n \in DOMAIN list : w[m] = list[n] /\ n # k
      BY <2>1 DEF Once
    <3> QED
      BY <1>1, <2>2, <2>5, <2>6
  <2>8. Once(w)
    <3> SUFFICES ASSUME NEW m \in DOMAIN w, NEW n \in DOMAIN w, w[m].id = w[n].id PROVE m = n
      BY DEF Once
    <3> QED
      BY <1>1, <2>2, <2>5, <2>6 DEF Once
  <2>9. ASSUME NEW n \in DOMAIN list, list[n].id # id PROVE \E m \in DOMAIN w : w[m] = list[n]
    <3>1. n # k
      BY <2>1, <2>9
    <3>2. CASE n < k
      <4>1. n \in DOMAIN w /\ w[n] = list[n]
        BY <1>1, <2>2, <2>4, <2>5, <3>2
      <4> QED
        BY <4>1
    <3>3. CASE n > k
      <4>1. n - 1 \in DOMAIN w /\ n - 1 \in k .. (Len(list) - 1) /\ (n - 1) + 1 = n
        BY <1>1, <2>2, <2>5, <3>3
      <4>2. w[n - 1] = list[n]
        BY <2>4, <4>1
      <4> QED
        BY <4>1, <4>2
    <3> QED
      BY <1>1, <2>2, <3>1, <3>2, <3>3
  <2> QED
    BY <2>4, <2>7, <2>8, <2>9
<1> QED
  BY <1>2, <1>3

LEMMA FramesOfAppend ==
  ASSUME NEW frames \in Seq(Frames), NEW f \in Frames, NEW all, all = Append(frames, f)
  PROVE  /\ all \in Seq(Frames)
         /\ \A n \in DOMAIN frames : n \in DOMAIN all /\ all[n] = frames[n]
         /\ \A n \in DOMAIN all : n \in DOMAIN frames \/ all[n] = f
         /\ \E n \in DOMAIN all : all[n] = f
<1>1. /\ all \in Seq(Frames) /\ Len(frames) \in Nat /\ DOMAIN frames = 1 .. Len(frames)
      /\ DOMAIN all = 1 .. (Len(frames) + 1) /\ all[Len(frames) + 1] = f
      /\ \A n \in 1 .. Len(frames) : all[n] = frames[n]
  BY AppendProperties
<1> QED
  BY <1>1

LEMMA LastIsNew ==
  ASSUME NEW frames \in Seq(Frames), NEW f \in Frames, NEW all, all = Append(frames, f),
         NEW n, LastFor(all, f.id, n)
  PROVE  all[n] = f
<1>1. /\ all \in Seq(Frames) /\ Len(frames) \in Nat
      /\ DOMAIN all = 1 .. (Len(frames) + 1) /\ all[Len(frames) + 1] = f
  BY AppendProperties
<1>2. n = Len(frames) + 1
  BY <1>1 DEF LastFor
<1> QED
  BY <1>1, <1>2

LEMMA LastIsOld ==
  ASSUME NEW frames \in Seq(Frames), NEW f \in Frames, NEW all, all = Append(frames, f),
         NEW i, i # f.id, NEW n, LastFor(all, i, n)
  PROVE  LastFor(frames, i, n)
<1>1. /\ all \in Seq(Frames) /\ Len(frames) \in Nat /\ DOMAIN frames = 1 .. Len(frames)
      /\ DOMAIN all = 1 .. (Len(frames) + 1) /\ all[Len(frames) + 1] = f
      /\ \A m \in 1 .. Len(frames) : all[m] = frames[m]
  BY AppendProperties
<1> QED
  BY <1>1 DEF LastFor

LEMMA TailIs ==
  ASSUME NEW frames \in Seq(Frames), frames # <<>>, NEW rest, rest = Tail(frames)
  PROVE  /\ rest \in Seq(Frames) /\ Head(frames) \in Frames
         /\ 1 \in DOMAIN frames /\ frames[1] = Head(frames)
         /\ \A n \in DOMAIN frames : n \in Nat /\ n >= 1
         /\ \A n \in DOMAIN rest : n \in Nat /\ n + 1 \in DOMAIN frames /\ rest[n] = frames[n + 1]
         /\ \A n \in DOMAIN frames : n # 1 => n - 1 \in DOMAIN rest /\ rest[n - 1] = frames[n]
<1>1. Len(frames) \in Nat \ {0} /\ DOMAIN frames = 1 .. Len(frames)
  BY EmptySeq, LenProperties
<1>2. rest \in Seq(Frames) /\ Head(frames) \in Frames /\ Head(frames) = frames[1]
  OBVIOUS
<1>3. DOMAIN rest = 1 .. (Len(frames) - 1) /\ \A n \in 1 .. (Len(frames) - 1) : rest[n] = frames[n + 1]
  BY <1>1
<1>4. ASSUME NEW n \in DOMAIN frames, n # 1 PROVE n - 1 \in DOMAIN rest /\ rest[n - 1] = frames[n]
  <2>1. n - 1 \in 1 .. (Len(frames) - 1) /\ (n - 1) + 1 = n
    BY <1>1, <1>4
  <2>2. rest[n - 1] = frames[(n - 1) + 1]
    BY <1>3, <2>1
  <2> QED
    BY <1>3, <2>1, <2>2
<1>5. ASSUME NEW n \in DOMAIN rest PROVE n \in Nat /\ n + 1 \in DOMAIN frames /\ rest[n] = frames[n + 1]
  BY <1>1, <1>3
<1>6. 1 \in DOMAIN frames /\ \A n \in DOMAIN frames : n \in Nat /\ n >= 1
  BY <1>1
<1> QED
  BY <1>2, <1>4, <1>5, <1>6

LEMMA LastInTail ==
  ASSUME NEW frames \in Seq(Frames), frames # <<>>, NEW rest, rest = Tail(frames),
         NEW i, NEW n, LastFor(rest, i, n)
  PROVE  LastFor(frames, i, n + 1) /\ rest[n] = frames[n + 1]
<1>1. n \in DOMAIN rest /\ rest[n].id = i /\ \A m \in DOMAIN rest : rest[m].id = i => m <= n
  BY DEF LastFor
<1>2. n \in Nat /\ n + 1 \in DOMAIN frames /\ rest[n] = frames[n + 1]
  BY <1>1, TailIs
<1>3. ASSUME NEW m \in DOMAIN frames, frames[m].id = i PROVE m <= n + 1
  <2>1. m \in Nat /\ (m # 1 => m - 1 \in DOMAIN rest /\ rest[m - 1] = frames[m])
    BY TailIs
  <2>2. m # 1 => m - 1 <= n
    BY <1>1, <1>3, <2>1
  <2> QED
    BY <1>2, <2>1, <2>2
<1> QED
  BY <1>1, <1>2, <1>3 DEF LastFor

LEMMA LastWasHead ==
  ASSUME NEW frames \in Seq(Frames), frames # <<>>, NEW rest, rest = Tail(frames),
         NEW i, \A n \in DOMAIN rest : rest[n].id # i
  PROVE  /\ Head(frames).id = i => LastFor(frames, i, 1)
         /\ Head(frames).id # i => \A n \in DOMAIN frames : frames[n].id # i
<1>1. ASSUME NEW n \in DOMAIN frames, n # 1 PROVE frames[n].id # i
  <2>1. n - 1 \in DOMAIN rest /\ rest[n - 1] = frames[n]
    BY <1>1, TailIs
  <2> QED
    BY <2>1
<1>2. 1 \in DOMAIN frames /\ frames[1] = Head(frames)
  BY TailIs
<1> QED
  BY <1>1, <1>2 DEF LastFor

(* The client drops a subscription it has, *)
LEMMA Leaves ==
  ASSUME NEW list, NEW frames, NEW drawn, Wire(list, frames, drawn), NEW s,
         \E n \in DOMAIN list : list[n].id = s.id /\ list[n].c = s.c
  PROVE  Wire(Without(list, s.id),
              IF sock = "open" THEN Append(frames, Frame("unsub", s)) ELSE frames, drawn)
<1> DEFINE w == Without(list, s.id)
           f == Frame("unsub", s)
           all == Append(frames, f)
<1>0. list \in Seq(Spec0) /\ frames \in Seq(Frames) /\ Once(list)
  BY DEF Wire
<1>1. /\ w \in Seq(Spec0) /\ Once(w)
      /\ \A m \in DOMAIN w : \E n \in DOMAIN list : w[m] = list[n] /\ list[n].id # s.id
      /\ \A n \in DOMAIN list : list[n].id # s.id => \E m \in DOMAIN w : w[m] = list[n]
  BY <1>0, WithoutDrops
<1>2. f \in Frames /\ f.id = s.id /\ f.c = s.c /\ f.type = "unsub"
  <2>1. PICK n \in DOMAIN list : list[n].id = s.id /\ list[n].c = s.c
    OBVIOUS
  <2>2. list[n] \in Spec0
    BY <1>0, <2>1, ElementOfSeq, LenProperties
  <2> QED
    BY <2>1, <2>2 DEF Frame, Frames, Spec0
<1>7. all = Append(frames, f)
  OBVIOUS
<1> HIDE DEF w, f, all
<1>8. f \in Frames
  BY <1>2
<1>3. ASSUME NEW i, i # s.id PROVE Wants(w, i) <=> Wants(list, i)
  BY <1>1, <1>3 DEF Wants
<1>4. ~ Wants(w, s.id)
  BY <1>1 DEF Wants
<1>5. CASE sock = "open"
  <2>1. ASSUME NEW i, NEW c, Names(w, all, i, c) PROVE Names(list, frames, i, c)
    <3>1. /\ \A n \in DOMAIN all : n \in DOMAIN frames \/ all[n] = f
          /\ \A n \in DOMAIN frames : all[n] = frames[n]
      BY <1>0, <1>2, <1>7, FramesOfAppend
    <3> QED
      BY <1>1, <1>2, <2>1, <3>1 DEF Names
  <2>2. ASSUME NEW i \in Ids PROVE OneCluster(w, all, drawn, i)
    <3>1. OneCluster(list, frames, drawn, i)
      BY DEF Wire
    <3> QED
      BY <2>1, <3>1 DEF OneCluster
  <2>3. ASSUME NEW i \in Ids PROVE Told(w, all, i)
    <3>0. \A n : LastFor(all, f.id, n) => all[n] = f
      BY <1>0, <1>7, <1>8, LastIsNew
    <3>9. i # f.id => \A n : LastFor(all, i, n) => LastFor(frames, i, n)
      BY <1>0, <1>2, <1>7, LastIsOld
    <3>4. /\ \E n \in DOMAIN all : all[n] = f
          /\ \A n \in DOMAIN frames : n \in DOMAIN all /\ all[n] = frames[n]
      BY <1>0, <1>2, <1>7, FramesOfAppend
    <3>1. Told(list, frames, i)
      BY <1>5 DEF Wire
    <3>2. CASE i = s.id
      <4>1. \A n : LastFor(all, i, n) => all[n].type = "unsub"
        BY <1>2, <3>0, <3>2
      <4>2. \E n \in DOMAIN all : all[n].id = i
        BY <1>2, <3>2, <3>4
      <4> QED
        BY <1>4, <3>2, <4>1, <4>2 DEF Told
    <3>3. CASE i # s.id
      BY <1>2, <1>3, <3>0, <3>1, <3>3, <3>9, <3>4 DEF Told, LastFor
    <3> QED
      BY <3>2, <3>3
  <2>4. all \in Seq(Frames)
    BY <1>0, <1>2, <1>7, FramesOfAppend
  <2> QED
    BY <1>1, <1>5, <2>2, <2>3, <2>4 DEF Wire, w, all, f
<1>6. CASE sock # "open"
  <2>1. ASSUME NEW i, NEW c, Names(w, frames, i, c) PROVE Names(list, frames, i, c)
    BY <1>1, <2>1 DEF Names
  <2>2. ASSUME NEW i \in Ids PROVE OneCluster(w, frames, drawn, i)
    <3>1. OneCluster(list, frames, drawn, i)
      BY DEF Wire
    <3> QED
      BY <2>1, <3>1 DEF OneCluster
  <2> QED
    BY <1>0, <1>1, <1>6, <2>2 DEF Wire, w
<1> QED
  BY <1>5, <1>6

(* or takes up a new one, *)
LEMMA Joins ==
  ASSUME NEW list, NEW frames, NEW drawn \in Nat, Wire(list, frames, drawn),
         NEW i \in Ids, NEW c \in Clusters, i = drawn + 1
  PROVE  Wire(Append(list, [id |-> i, c |-> c]),
              IF sock = "open" THEN Append(frames, Frame("sub", [id |-> i, c |-> c])) ELSE frames, i)
<1> DEFINE s == [id |-> i, c |-> c]
           l == Append(list, s)
           f == Frame("sub", s)
           all == Append(frames, f)
<1>0. /\ list \in Seq(Spec0) /\ frames \in Seq(Frames) /\ Once(list) /\ i \in Nat
      /\ \A j \in Ids, e \in Clusters : Names(list, frames, j, e) => j <= drawn
  BY BoundsAreNat DEF Wire, OneCluster, Ids
<1>1. s \in Spec0 /\ s.id = i /\ s.c = c /\ f \in Frames /\ f.id = i /\ f.c = c /\ f.type = "sub"
  BY DEF Frame, Frames, Spec0
<1>2. /\ l \in Seq(Spec0) /\ Len(list) \in Nat /\ DOMAIN list = 1 .. Len(list)
      /\ DOMAIN l = 1 .. (Len(list) + 1) /\ l[Len(list) + 1] = s
      /\ \A n \in 1 .. Len(list) : l[n] = list[n]
  BY <1>0, <1>1, AppendProperties, LenProperties
<1>9. all = Append(frames, f)
  OBVIOUS
<1> HIDE DEF s, l, f, all
<1>3. \A n \in DOMAIN list : list[n].id \in Ids /\ list[n].c \in Clusters
  <2>1. \A n \in DOMAIN list : list[n] \in Spec0
    BY <1>0, <1>2, ElementOfSeq
  <2> QED
    BY <2>1 DEF Spec0
<1>4. \A n \in DOMAIN list : list[n].id # i
  BY <1>0, <1>3 DEF Names
<1>5. Once(l)
  BY <1>0, <1>1, <1>2, <1>4 DEF Once
<1>6. /\ \A j : j # i => (Wants(l, j) <=> Wants(list, j))
      /\ Wants(l, i)
  BY <1>1, <1>2 DEF Wants
<1>7. CASE sock = "open"
  <2>0. /\ all \in Seq(Frames)
        /\ \A n \in DOMAIN all : n \in DOMAIN frames \/ all[n] = f
        /\ \A n \in DOMAIN frames : n \in DOMAIN all /\ all[n] = frames[n]
        /\ \E n \in DOMAIN all : all[n] = f
    BY <1>0, <1>1, <1>9, FramesOfAppend
  <2>1. ASSUME NEW j, NEW e, Names(l, all, j, e) PROVE Names(list, frames, j, e) \/ (j = i /\ e = c)
    <3> QED
      BY <1>1, <1>2, <2>0, <2>1 DEF Names
  <2>2. ASSUME NEW j \in Ids PROVE OneCluster(l, all, i, j)
    <3>1. OneCluster(list, frames, drawn, j)
      BY DEF Wire
    <3>2. \A e \in Clusters : Names(list, frames, i, e) => FALSE
      BY <1>0
    <3>3. \A e \in Clusters : Names(l, all, j, e) => j <= i
      BY <1>0, <2>1 DEF Ids
    <3>4. \A d, e \in Clusters : Names(l, all, j, d) /\ Names(l, all, j, e) => d = e
      BY <2>1, <3>1, <3>2 DEF OneCluster
    <3> QED
      BY <3>3, <3>4 DEF OneCluster
  <2>3. ASSUME NEW j \in Ids PROVE Told(l, all, j)
    <3>0. \A n : LastFor(all, f.id, n) => all[n] = f
      BY <1>0, <1>1, <1>9, LastIsNew
    <3>9. j # f.id => \A n : LastFor(all, j, n) => LastFor(frames, j, n)
      BY <1>0, <1>1, <1>9, LastIsOld
    <3>1. Told(list, frames, j)
      BY <1>7 DEF Wire
    <3>2. CASE j = i
      <4>1. \A n : LastFor(all, j, n) => all[n].type # "unsub"
        BY <1>1, <3>0, <3>2
      <4>2. \E n \in DOMAIN all : all[n].id = j
        BY <1>1, <2>0, <3>2
      <4> QED
        BY <1>6, <3>2, <4>1, <4>2 DEF Told
    <3>3. CASE j # i
      BY <1>1, <1>6, <2>0, <3>0, <3>1, <3>3, <3>9 DEF Told, LastFor
    <3> QED
      BY <3>2, <3>3
  <2> QED
    BY <1>2, <1>5, <1>7, <2>0, <2>2, <2>3 DEF Wire, l, all, f, s
<1>8. CASE sock # "open"
  <2>1. ASSUME NEW j, NEW e, Names(l, frames, j, e) PROVE Names(list, frames, j, e) \/ (j = i /\ e = c)
    BY <1>1, <1>2, <2>1 DEF Names
  <2>2. ASSUME NEW j \in Ids PROVE OneCluster(l, frames, i, j)
    <3>1. OneCluster(list, frames, drawn, j)
      BY DEF Wire
    <3>2. \A e \in Clusters : Names(list, frames, i, e) => FALSE
      BY <1>0
    <3>3. \A e \in Clusters : Names(l, frames, j, e) => j <= i
      BY <1>0, <2>1 DEF Ids
    <3>4. \A d, e \in Clusters : Names(l, frames, j, d) /\ Names(l, frames, j, e) => d = e
      BY <2>1, <3>1, <3>2 DEF OneCluster
    <3> QED
      BY <3>3, <3>4 DEF OneCluster
  <2> QED
    BY <1>0, <1>2, <1>5, <1>8, <2>2 DEF Wire, l, s
<1> QED
  BY <1>7, <1>8

(* or asks for one again that it wants. *)
LEMMA Resyncs ==
  ASSUME NEW list, NEW frames, NEW drawn, Wire(list, frames, drawn), sock = "open",
         NEW i \in Ids, NEW c \in Clusters, Wants(list, i), Names(list, frames, i, c),
         NEW f \in Frames, f.id = i, f.c = c, f.type = "resync"
  PROVE  Wire(list, Append(frames, f), drawn)
<1> DEFINE all == Append(frames, f)
<1>0. list \in Seq(Spec0) /\ frames \in Seq(Frames) /\ Once(list)
  BY DEF Wire
<1>5. all = Append(frames, f)
  OBVIOUS
<1> HIDE DEF all
<1>1. /\ all \in Seq(Frames)
      /\ \A n \in DOMAIN all : n \in DOMAIN frames \/ all[n] = f
      /\ \A n \in DOMAIN frames : n \in DOMAIN all /\ all[n] = frames[n]
      /\ \E n \in DOMAIN all : all[n] = f
  BY <1>0, <1>5, FramesOfAppend
<1>2. ASSUME NEW j, NEW e, Names(list, all, j, e) PROVE Names(list, frames, j, e)
  <2> QED
    BY <1>1, <1>2 DEF Names
<1>3. ASSUME NEW j \in Ids PROVE OneCluster(list, all, drawn, j)
  <2>1. OneCluster(list, frames, drawn, j)
    BY DEF Wire
  <2> QED
    BY <1>2, <2>1 DEF OneCluster
<1>4. ASSUME NEW j \in Ids PROVE Told(list, all, j)
  <2>0. \A n : LastFor(all, f.id, n) => all[n] = f
    BY <1>0, <1>5, LastIsNew, ZenonT(60)
  <2>9. j # f.id => \A n : LastFor(all, j, n) => LastFor(frames, j, n)
    BY <1>0, <1>5, LastIsOld
  <2>1. Told(list, frames, j)
    BY DEF Wire
  <2>2. CASE j = i
    <3>1. \A n : LastFor(all, j, n) => all[n].type # "unsub"
      BY <2>0, <2>2
    <3>2. \E n \in DOMAIN all : all[n].id = j
      BY <1>1, <2>2
    <3> QED
      BY <2>2, <3>1, <3>2 DEF Told
  <2>3. CASE j # i
    BY <1>1, <2>0, <2>1, <2>3, <2>9 DEF Told, LastFor
  <2> QED
    BY <2>2, <2>3
<1> QED
  BY <1>0, <1>1, <1>3, <1>4 DEF Wire, all

(* The engine's table may move on as long as it holds the same subscriptions. *)
LEMMA WireMoves ==
  ASSUME Wire(subs', toEngine', ids'), sock' = sock, sock # "open" => engine' = engine,
         \A i \in Ids : engine'[i].c = engine[i].c /\ (engine'[i].at = "none" <=> engine[i].at = "none")
  PROVE  Wire(subs, toEngine, ids)'
<1>1. ASSUME NEW i \in Ids, NEW c
      PROVE  Names(subs, toEngine, i, c)' <=> Names(subs', toEngine', i, c)
  BY DEF Names
<1>2. ASSUME NEW i \in Ids PROVE OneCluster(subs, toEngine, ids, i)'
  <2>1. OneCluster(subs', toEngine', ids', i)
    BY DEF Wire
  <2> QED
    BY <1>1, <2>1 DEF OneCluster
<1>3. ASSUME NEW i \in Ids, Told(subs', toEngine', i) PROVE Told(subs, toEngine, i)'
  BY <1>3 DEF Told, Wants, LastFor
<1> QED
  BY <1>2, <1>3 DEF Wire, Once

LEMMA OutIs ==
  ASSUME toEngine \in Seq(Frames), NEW f \in Frames
  PROVE  /\ Out(<<f>>) = IF sock = "open" THEN Append(toEngine, f) ELSE toEngine
         /\ Out(<<>> \o <<f>>) = IF sock = "open" THEN Append(toEngine, f) ELSE toEngine
         /\ \A g \in Frames : Out(<<g>> \o <<f>>) =
              IF sock = "open" THEN Append(Append(toEngine, g), f) ELSE toEngine
<1>1. <<>> \o <<f>> = <<f>> /\ <<f>> \in Seq(Frames) /\ <<>> \in Seq(Frames)
  BY ConcatEmptySeq
<1>2. ASSUME NEW s \in Seq(Frames), NEW g \in Frames PROVE s \o <<g>> = Append(s, g)
  BY AppendIsConcat
<1>3. ASSUME NEW g \in Frames PROVE toEngine \o (<<g>> \o <<f>>) = Append(Append(toEngine, g), f)
  <2>1. <<g>> \in Seq(Frames) /\ Append(toEngine, g) \in Seq(Frames)
    BY AppendProperties
  <2>2. toEngine \o (<<g>> \o <<f>>) = (toEngine \o <<g>>) \o <<f>>
    BY <1>1, <2>1, ConcatAssociative
  <2> QED
    BY <1>2, <2>1, <2>2
<1> QED
  BY <1>1, <1>2, <1>3 DEF Out

-----------------------------------------------------------------------------
(* What the handlers compute *)

LEMMA StatusIs ==
  ASSUME NEW k \in Hook, NEW up \in BOOLEAN
  PROVE  /\ Status(k, up) \in Hook
         /\ Status(k, up).c = k.c /\ Status(k, up).id = k.id
         /\ Status(k, up).store = k.store /\ Status(k, up).buffer = k.buffer
         /\ Status(k, up).here = k.here /\ Status(k, up).connected = up
         /\ Status(k, up).synced => k.synced /\ (up => k.connected)
<1> DEFINE ok == k.synced /\ ~ (up /\ ~ k.connected)
<1>1. ok \in BOOLEAN
  OBVIOUS
<1>2. Status(k, up) = [k EXCEPT !.connected = up, !.synced = ok]
  BY DEF Status
<1>3. ok => k.synced /\ (up => k.connected)
  OBVIOUS
<1> HIDE DEF ok
<1> QED
  BY <1>1, <1>2, <1>3 DEF Hook

LEMMA RenderedIs ==
  ASSUME NEW k \in Hook
  PROVE  /\ Rendered(k) \in View
         /\ Rendered(k).rows = k.store /\ Rendered(k).synced = k.synced
         /\ Rendered(k).connected = k.connected /\ Rendered(k).here = k.here
BY DEF Rendered, Hook, View

LEMMA UnmountedIs ==
  /\ Unmounted \in Hook /\ Unmounted.c = None /\ Unmounted.id = 0
  /\ Unmounted.store = {} /\ Unmounted.buffer = {}
  /\ Unmounted.synced = FALSE /\ Unmounted.connected = FALSE
<1>1. 0 \in 0 .. MaxIds /\ {} \in Rows
  BY BoundsAreNat DEF Rows
<1> QED
  BY <1>1 DEF Unmounted, Hook

LEMMA NoConnIs ==
  /\ NoConn \in Conn /\ NoConn.on = FALSE /\ NoConn.store = {} /\ NoConn.buffer = {}
<1>1. 0 \in 0 .. MaxIds /\ {} \in Rows
  BY BoundsAreNat DEF Rows
<1> QED
  BY <1>1 DEF NoConn, Conn

LEMMA EntryIs ==
  ASSUME NEW rows \in Rows, NEW ok \in BOOLEAN
  PROVE  /\ Entry(rows, ok) \in Cached /\ Entry(rows, ok).kept = TRUE /\ Entry(rows, ok).rows = rows
         /\ NoEntry \in Cached /\ NoEntry.kept = FALSE /\ NoEntry.synced = FALSE /\ NoEntry.rows = {}
BY DEF Entry, NoEntry, Cached, Rows

LEMMA AppliedIs ==
  ASSUME NEW rows \in Rows, NEW r \in Row, NEW c, r.c = c, Of(rows, c)
  PROVE  Applied(rows, r) \in Rows /\ Of(Applied(rows, r), c)
BY DEF Applied, Rows, Of

(* A frame for a subscription to c *)
ForCluster(f, c) == f.row \in Row /\ f.row.c = c

LEMMA OnHookIs ==
  ASSUME NEW k \in Hook, NEW f, ForCluster(f, k.c), Of(k.store, k.c), Of(k.buffer, k.c)
  PROVE  /\ OnHook(k, f) \in Hook
         /\ OnHook(k, f).c = k.c /\ OnHook(k, f).id = k.id /\ OnHook(k, f).connected = k.connected
         /\ Of(OnHook(k, f).store, k.c) /\ Of(OnHook(k, f).buffer, k.c)
         /\ OnHook(k, f).synced /\ (k.synced /\ k.connected => k.here) /\ k.connected => OnHook(k, f).here
<1>1. /\ Applied(k.store, f.row) \in Rows /\ Of(Applied(k.store, f.row), k.c)
      /\ Applied(k.buffer, f.row) \in Rows /\ Of(Applied(k.buffer, f.row), k.c)
  BY AppliedIs DEF ForCluster, Hook
<1>2. {} \in Rows /\ Of({}, k.c)
  BY DEF Rows, Of
<1> DEFINE a == Applied(k.store, f.row)
           b == Applied(k.buffer, f.row)
<1>3. a \in Rows /\ b \in Rows /\ Of(a, k.c) /\ Of(b, k.c)
  BY <1>1
<1>4. OnHook(k, f) \in
        { [k EXCEPT !.buffering = TRUE, !.buffer = {}, !.synced = FALSE],
          [k EXCEPT !.buffer = b], [k EXCEPT !.store = a],
          [k EXCEPT !.store = k.buffer, !.buffering = FALSE, !.buffer = {}, !.synced = TRUE, !.here = TRUE],
          [k EXCEPT !.buffering = FALSE, !.buffer = {}, !.synced = TRUE, !.here = TRUE],
          [k EXCEPT !.synced = FALSE, !.forbidden = TRUE], k }
  BY DEF OnHook, Hook
<1> HIDE DEF a, b
<1>5. CASE OnHook(k, f) = [k EXCEPT !.buffering = TRUE, !.buffer = {}, !.synced = FALSE]
  BY <1>2, <1>5 DEF Hook
<1>6. CASE OnHook(k, f) = [k EXCEPT !.buffer = b]
  BY <1>3, <1>6 DEF Hook
<1>7. CASE OnHook(k, f) = [k EXCEPT !.store = a]
  BY <1>3, <1>7 DEF Hook
<1>8. CASE OnHook(k, f) = [k EXCEPT !.store = k.buffer, !.buffering = FALSE, !.buffer = {}, !.synced = TRUE, !.here = TRUE]
  BY <1>2, <1>8 DEF Hook
<1>9. CASE OnHook(k, f) = [k EXCEPT !.buffering = FALSE, !.buffer = {}, !.synced = TRUE, !.here = TRUE]
  BY <1>2, <1>9 DEF Hook
<1>10. CASE OnHook(k, f) = [k EXCEPT !.synced = FALSE, !.forbidden = TRUE]
  BY <1>10 DEF Hook
<1>11. CASE OnHook(k, f) = k
  BY <1>11
<1> QED
  BY <1>4, <1>5, <1>6, <1>7, <1>8, <1>9, <1>10, <1>11

LEMMA OnConnIs ==
  ASSUME NEW k \in Conn, NEW c, NEW f, ForCluster(f, c), Of(k.store, c), Of(k.buffer, c)
  PROVE  /\ OnConn(k, f) \in Conn /\ OnConn(k, f).on = k.on /\ OnConn(k, f).id = k.id
         /\ Of(OnConn(k, f).store, c) /\ Of(OnConn(k, f).buffer, c)
<1> DEFINE a == Applied(k.store, f.row)
           b == Applied(k.buffer, f.row)
<1>1. a \in Rows /\ b \in Rows /\ Of(a, c) /\ Of(b, c)
  BY AppliedIs DEF ForCluster, Conn
<1>2. {} \in Rows /\ Of({}, c)
  BY DEF Rows, Of
<1>3. OnConn(k, f) \in
        { [k EXCEPT !.buffering = TRUE, !.buffer = {}, !.synced = FALSE],
          [k EXCEPT !.buffer = b, !.has = TRUE], [k EXCEPT !.buffer = b, !.has = TRUE, !.store = b],
          [k EXCEPT !.store = a, !.has = TRUE],
          [k EXCEPT !.store = k.buffer, !.has = TRUE, !.buffering = FALSE, !.buffer = {}, !.synced = TRUE],
          [k EXCEPT !.has = TRUE, !.buffering = FALSE, !.buffer = {}, !.synced = TRUE],
          [k EXCEPT !.error = TRUE] }
  BY DEF OnConn, Conn
<1> HIDE DEF a, b
<1>4. CASE OnConn(k, f) = [k EXCEPT !.buffering = TRUE, !.buffer = {}, !.synced = FALSE]
  BY <1>2, <1>4 DEF Conn
<1>5. CASE OnConn(k, f) = [k EXCEPT !.buffer = b, !.has = TRUE]
  BY <1>1, <1>5 DEF Conn
<1>6. CASE OnConn(k, f) = [k EXCEPT !.buffer = b, !.has = TRUE, !.store = b]
  BY <1>1, <1>6 DEF Conn
<1>7. CASE OnConn(k, f) = [k EXCEPT !.store = a, !.has = TRUE]
  BY <1>1, <1>7 DEF Conn
<1>8. CASE OnConn(k, f) =
           [k EXCEPT !.store = k.buffer, !.has = TRUE, !.buffering = FALSE, !.buffer = {}, !.synced = TRUE]
  BY <1>2, <1>8 DEF Conn
<1>9. CASE OnConn(k, f) = [k EXCEPT !.has = TRUE, !.buffering = FALSE, !.buffer = {}, !.synced = TRUE]
  BY <1>2, <1>9 DEF Conn
<1>10. CASE OnConn(k, f) = [k EXCEPT !.error = TRUE]
  BY <1>10 DEF Conn
<1> QED
  BY <1>3, <1>4, <1>5, <1>6, <1>7, <1>8, <1>9, <1>10

LEMMA WroteThroughIs ==
  ASSUME NEW k \in Conn, NEW c, NEW f, ForCluster(f, c), Of(k.store, c), Of(k.buffer, c),
         NEW e, CacheOf(e, c)
  PROVE  CacheOf(WroteThrough(e, k, f), c)
<1>1. /\ OnConn(k, f).store \in Rows /\ Of(OnConn(k, f).store, c)
      /\ k.store \in Rows /\ k.synced \in BOOLEAN
  BY OnConnIs DEF Conn
<1>2. ASSUME NEW rows \in Rows, Of(rows, c), NEW ok \in BOOLEAN PROVE CacheOf(Entry(rows, ok), c)
  BY <1>2, EntryIs DEF CacheOf
<1>3. /\ CacheOf(Entry(k.store, FALSE), c) /\ CacheOf(Entry(OnConn(k, f).store, k.synced), c)
      /\ CacheOf(Entry(OnConn(k, f).store, TRUE), c)
  BY <1>1, <1>2
<1>4. \/ WroteThrough(e, k, f) = Entry(k.store, FALSE)
      \/ WroteThrough(e, k, f) = Entry(OnConn(k, f).store, k.synced)
      \/ WroteThrough(e, k, f) = Entry(OnConn(k, f).store, TRUE)
      \/ WroteThrough(e, k, f) = e
  BY DEF WroteThrough
<1> QED
  BY <1>3, <1>4

(* The effect of a page that starts from the cache is not live. *)
LEMMA EffectIs ==
  ASSUME NEW k \in Hook, NEW c \in Clusters, NEW i \in Ids, NEW e, CacheOf(e, c),
         sock # "open" => ~ k.connected
  PROVE  /\ Effect(k, c, i, e) \in Hook /\ Effect(k, c, i, e).c = c /\ Effect(k, c, i, e).id = i
         /\ Effect(k, c, i, e).store = e.rows /\ Effect(k, c, i, e).buffer = {}
         /\ ~ (Effect(k, c, i, e).synced /\ Effect(k, c, i, e).connected)
         /\ sock # "open" => ~ Effect(k, c, i, e).connected
<1> DEFINE up == IF e.kept THEN FALSE ELSE k.connected
           warm == [Unmounted EXCEPT !.c = c, !.id = i, !.store = e.rows,
                      !.synced = e.synced, !.connected = up]
<1>1. up \in BOOLEAN /\ (up => ~ e.kept) /\ (sock # "open" => ~ up)
  BY DEF Hook
<1>2. Effect(k, c, i, e) = IF sock = "open" THEN Status(warm, TRUE) ELSE warm
  BY DEF Effect
<1>3. e.rows \in Rows /\ e.synced \in BOOLEAN /\ (~ e.kept => ~ e.synced) /\ i \in 0 .. MaxIds
  BY BoundsAreNat DEF CacheOf, Cached, Ids
<1> HIDE DEF up
<1>4. /\ warm \in Hook /\ warm.c = c /\ warm.id = i /\ warm.store = e.rows /\ warm.buffer = {}
      /\ warm.synced = e.synced /\ warm.connected = up
  BY <1>1, <1>3, UnmountedIs DEF Hook
<1> HIDE DEF warm
<1>5. CASE sock = "open"
  <2>1. Status(warm, TRUE).synced => warm.synced /\ warm.connected
    BY <1>4, StatusIs
  <2>2. ~ Status(warm, TRUE).synced
    BY <1>1, <1>3, <1>4, <2>1
  <2>3. /\ Status(warm, TRUE) \in Hook /\ Status(warm, TRUE).c = c /\ Status(warm, TRUE).id = i
        /\ Status(warm, TRUE).store = e.rows /\ Status(warm, TRUE).buffer = {}
    BY <1>4, StatusIs
  <2>4. Effect(k, c, i, e) = Status(warm, TRUE)
    BY <1>2, <1>5
  <2> QED
    BY <1>5, <2>2, <2>3, <2>4, Zenon
<1>6. CASE sock # "open"
  BY <1>1, <1>2, <1>4, <1>6
<1> QED
  BY <1>5, <1>6

-----------------------------------------------------------------------------
(* The subscriptions as a set *)

LEMMA SubsIs ==
  ASSUME NEW list \in Seq(Spec0), Once(list)
  PROVE  /\ ToSet(list) \subseteq Spec0
         /\ \A s, t \in ToSet(list) : s.id = t.id => s = t
         /\ \A s \in ToSet(list) : \E n \in DOMAIN list : list[n] = s
         /\ \A n \in DOMAIN list : list[n] \in ToSet(list)
<1>1. \A n \in DOMAIN list : list[n] \in Spec0
  BY ElementOfSeq, LenProperties
<1> QED
  BY <1>1 DEF ToSet, Once

LEMMA SubsWithout ==
  ASSUME NEW list \in Seq(Spec0), Once(list), NEW id, NEW s
  PROVE  s \in ToSet(Without(list, id)) <=> s \in ToSet(list) /\ s.id # id
BY WithoutDrops DEF ToSet

LEMMA SubsAppend ==
  ASSUME NEW list \in Seq(Spec0), NEW t \in Spec0, NEW s
  PROVE  s \in ToSet(Append(list, t)) <=> s \in ToSet(list) \/ s = t
<1> DEFINE l == Append(list, t)
<1>1. /\ DOMAIN list = 1 .. Len(list) /\ Len(list) \in Nat /\ DOMAIN l = 1 .. (Len(list) + 1)
      /\ l[Len(list) + 1] = t /\ \A n \in 1 .. Len(list) : l[n] = list[n]
  BY AppendProperties, LenProperties
<1> HIDE DEF l
<1>2. s \in ToSet(l) <=> s \in ToSet(list) \/ s = t
  BY <1>1 DEF ToSet
<1> QED
  BY <1>2 DEF l

LEMMA Fresh ==
  ASSUME Inv, NEW s \in ToSet(subs)
  PROVE  s.id \in Ids /\ s.c \in Clusters /\ s.id <= ids /\ s = Sub(s)
<1>1. subs \in Seq(Spec0) /\ Once(subs)
  BY DEF Inv, Wire
<1>2. PICK n \in DOMAIN subs : subs[n] = s /\ s \in Spec0
  BY <1>1, SubsIs
<1>3. s.id \in Ids /\ s.c \in Clusters /\ s = Sub(s)
  BY <1>2 DEF Spec0, Sub
<1>4. OneCluster(subs, toEngine, ids, s.id)
  BY <1>3 DEF Inv, Wire
<1> QED
  BY <1>2, <1>3, <1>4 DEF OneCluster, Names

(* Whose a subscription is, nobody else's is. *)
LEMMA Own ==
  ASSUME Inv
  PROVE  /\ \A h \in Hooks : hook[h].c # None =>
              hook[h].id \in Ids /\ hook[h].c \in Clusters /\ hook[h].id <= ids
         /\ \A h \in Hooks : hook[h].c = None => hook[h].id = 0
         /\ \A c \in Clusters : bg[c].on => bg[c].id \in Ids /\ bg[c].id <= ids
         /\ \A c, d \in Clusters : bg[c].on /\ bg[d].on /\ bg[c].id = bg[d].id => c = d
<1>1. ASSUME NEW h \in Hooks, hook[h].c # None
      PROVE  hook[h].id \in Ids /\ hook[h].c \in Clusters /\ hook[h].id <= ids
  <2>1. Sub(hook[h]) \in ToSet(subs)
    BY <1>1 DEF Inv, Holds
  <2> QED
    BY <2>1, Fresh DEF Sub
<1>2. ASSUME NEW c \in Clusters, bg[c].on PROVE bg[c].id \in Ids /\ bg[c].id <= ids
  <2>1. [id |-> bg[c].id, c |-> c] \in ToSet(subs)
    BY <1>2 DEF Inv, Keeps
  <2> QED
    BY <2>1, Fresh
<1>3. ASSUME NEW c \in Clusters, NEW d \in Clusters, bg[c].on, bg[d].on, bg[c].id = bg[d].id PROVE c = d
  <2>1. [id |-> bg[c].id, c |-> c] \in ToSet(subs) /\ [id |-> bg[c].id, c |-> d] \in ToSet(subs)
    BY <1>3 DEF Inv, Keeps
  <2>2. [id |-> bg[c].id, c |-> c] = [id |-> bg[c].id, c |-> d]
    BY <2>1, SubsIs DEF Inv, Wire
  <2> QED
    BY <2>2
<1>4. \A h \in Hooks : hook[h].c = None => hook[h].id = 0
  BY UnmountedIs DEF Inv, Holds
<1> QED
  BY <1>1, <1>2, <1>3, <1>4

LEMMA SavedIs ==
  ASSUME Inv, NEW h \in Hooks
  PROVE  /\ Saved(h) \in [Clusters -> Cached]
         /\ \A c \in Clusters : CacheOf(Saved(h)[c], c)
<1>1. TypeOK /\ HookRows(h) /\ \A c \in Clusters : CacheOf(cache[c], c)
  BY DEF Inv, ConnRows
<1>2. CASE hook[h].c # None /\ hook[h].synced
  <2>1. hook[h].store \in Rows /\ hook[h].c \in Clusters
    BY <1>1, <1>2 DEF TypeOK, Hook
  <2>2. CacheOf(Entry(hook[h].store, TRUE), hook[h].c)
    BY <1>1, <2>1, EntryIs DEF HookRows, CacheOf
  <2>3. Entry(hook[h].store, TRUE) \in Cached
    BY <2>2 DEF CacheOf
  <2>4. Saved(h) = [cache EXCEPT ![hook[h].c] = Entry(hook[h].store, TRUE)]
    BY <1>2 DEF Saved
  <2> QED
    BY <1>1, <2>1, <2>2, <2>3, <2>4 DEF TypeOK
<1>3. CASE ~ (hook[h].c # None /\ hook[h].synced)
  <2>1. Saved(h) = cache
    BY <1>3 DEF Saved
  <2> QED
    BY <1>1, <2>1 DEF TypeOK
<1> QED
  BY <1>2, <1>3

(* The wire when a page or a background stream gives up its subscription. *)
LEMMA Dropping ==
  ASSUME Inv, NEW s, Sub(s) \in ToSet(subs)
  PROVE  /\ Wire(Without(subs, s.id), Out(<<Frame("unsub", s)>>), ids)
         /\ Frame("unsub", s) \in Frames
<1>1. subs \in Seq(Spec0) /\ toEngine \in Seq(Frames) /\ Once(subs) /\ Wire(subs, toEngine, ids)
  BY DEF Inv, Wire
<1>2. \E n \in DOMAIN subs : subs[n].id = s.id /\ subs[n].c = s.c
  BY <1>1, SubsIs DEF Sub
<1>3. s.id \in Ids /\ s.c \in Clusters
  BY Fresh DEF Sub
<1>4. Frame("unsub", s) \in Frames
  BY <1>3 DEF Frame, Frames
<1>5. Out(<<Frame("unsub", s)>>) = IF sock = "open" THEN Append(toEngine, Frame("unsub", s)) ELSE toEngine
  BY <1>1, <1>4, OutIs
<1>6. Wire(Without(subs, s.id),
           IF sock = "open" THEN Append(toEngine, Frame("unsub", s)) ELSE toEngine, ids)
  BY <1>1, <1>2, Leaves
<1> QED
  BY <1>4, <1>5, <1>6

-----------------------------------------------------------------------------
(* Steps of the pages *)

LEMMA UnmountStep ==
  ASSUME Inv, NEW h \in Hooks, Unmount(h)
  PROVE  Inv'
<1> DEFINE k == hook[h]
<1>1. /\ UNCHANGED <<sock, gen>> /\ UNCHANGED <<version, ends, engine, bg, forgotten, ids>>
      /\ hook' = [hook EXCEPT ![h] = Unmounted]
      /\ shown' = [shown EXCEPT ![h] = Rendered(Unmounted)]
      /\ flush' = flush \ {h} /\ cache' = Saved(h) /\ subs' = Without(subs, k.id)
      /\ toEngine' = Out(<<Frame("unsub", k)>>)
      /\ leaving' = IF k.c = leaving /\ \A g \in Hooks \ {h} : hook[g].c # leaving THEN None ELSE leaving
      /\ k.c # None
  BY DEF Unmount, SameWire, wire, Cancelled, Mounted
<1>2. /\ TypeOK /\ subs \in Seq(Spec0) /\ Once(subs) /\ Sub(k) \in ToSet(subs)
      /\ k.id \in Ids /\ k.c \in Clusters
  BY <1>1, Own DEF Inv, Wire, Holds
<1>3. /\ \A g \in Hooks : g # h => hook'[g] = hook[g] /\ shown'[g] = shown[g]
      /\ hook'[h] = Unmounted /\ shown'[h] = Rendered(Unmounted)
  BY <1>1, <1>2 DEF TypeOK
<1> HIDE DEF k
<1>4. Wire(subs, toEngine, ids)'
  <2>1. Wire(subs', toEngine', ids')
    BY <1>1, <1>2, Dropping
  <2> QED
    BY <1>1, <2>1, WireMoves
<1>5. \A s : s \in ToSet(subs') <=> s \in ToSet(subs) /\ s.id # k.id
  BY <1>1, <1>2, SubsWithout
<1>6. cache' \in [Clusters -> Cached] /\ \A c \in Clusters : CacheOf(cache'[c], c)
  BY <1>1, SavedIs
<1>7. TypeOK'
  <2>1. hook' \in [Hooks -> Hook] /\ shown' \in [Hooks -> View]
    BY <1>1, <1>2, UnmountedIs, RenderedIs DEF TypeOK
  <2>2. flush' \subseteq Mounted'
    BY <1>1, <1>2, <1>3 DEF TypeOK, Mounted
  <2>3. leaving' \in Clusters \cup {None}
    BY <1>1, <1>2 DEF TypeOK
  <2>4. subs' \in Seq(Spec0) /\ toEngine' \in Seq(Frames)
    BY <1>4 DEF Wire
  <2> QED
    BY <1>1, <1>2, <1>6, <2>1, <2>2, <2>3, <2>4 DEF TypeOK
<1>8. ASSUME NEW g \in Hooks PROVE (Holds(g) /\ HookRows(g) /\ Flags(g))'
  <2>1. CASE g = h
    <3>1. HookRows(h)' /\ Flags(h)'
      BY <1>3, UnmountedIs, RenderedIs DEF HookRows, Flags, Of
    <3>2. Holds(h)'
      BY <1>3, UnmountedIs DEF Holds
    <3> QED
      BY <2>1, <3>1, <3>2
  <2>2. CASE g # h
    <3>1. Holds(g) /\ HookRows(g) /\ Flags(g)
      BY DEF Inv
    <3>2. hook[g].c # None => hook[g].id # k.id
      BY <1>1, <2>2, <3>1 DEF Holds, k
    <3>3. Holds(g)'
      <4>1. hook[g].c # None => Sub(hook[g]) \in ToSet(subs')
        BY <1>5, <3>1, <3>2 DEF Holds, Sub
      <4>2. \A e \in Hooks : hook'[e].c # None => hook'[e] = hook[e]
        BY <1>3, UnmountedIs
      <4> QED
        BY <1>1, <1>3, <2>2, <3>1, <4>1, <4>2 DEF Holds, Sub
    <3>4. HookRows(g)' /\ Flags(g)'
      BY <1>1, <1>3, <2>2, <3>1 DEF HookRows, Flags
    <3> QED
      BY <3>3, <3>4
  <2> QED
    BY <2>1, <2>2
<1>9. ASSUME NEW c \in Clusters PROVE (Keeps(c) /\ ConnRows(c))'
  <2>1. Keeps(c) /\ ConnRows(c)
    BY DEF Inv
  <2>2. bg[c].on => bg[c].id # k.id
    BY <1>1 DEF Inv, Holds, k
  <2>3. Keeps(c)'
    BY <1>1, <1>5, <2>1, <2>2 DEF Keeps
  <2>4. ConnRows(c)'
    BY <1>1, <1>6, <2>1 DEF ConnRows
  <2> QED
    BY <2>3, <2>4
<1>10. ASSUME NEW s \in ToSet(subs') PROVE Held(s)'
  <2>1. s \in ToSet(subs) /\ s.id # k.id /\ Held(s)
    BY <1>5 DEF Inv
  <2> QED
    BY <1>1, <1>3, <2>1 DEF Held, k
<1>11. Quiet'
  BY <1>1, NoneIsNoCluster DEF Inv, Quiet
<1>12. LetGo'
  <2> SUFFICES ASSUME NEW c \in forgotten, leaving' # c, NEW s \in ToSet(subs'), s.c = c PROVE FALSE
    <3>1. subs' \in Seq(Spec0) /\ Once(subs')
      BY <1>4 DEF Wire, Once
    <3> QED
      BY <1>1, <3>1, SubsIs DEF LetGo
  <2>1. s \in ToSet(subs) /\ s.id # k.id /\ Held(s) /\ c \in Clusters
    BY <1>2, <1>5 DEF Inv, TypeOK
  <2>2. leaving = c
    BY <1>2, <2>1, SubsIs DEF Inv, LetGo
  <2>3. ~ bg[c].on
    BY <2>1, <2>2 DEF Inv, Quiet
  <2>4. PICK g \in Hooks : hook[g].c = c /\ hook[g].id = s.id
    BY <2>1, <2>3 DEF Held
  <2>5. g # h /\ hook[g].c = leaving
    BY <2>1, <2>2, <2>4 DEF k
  <2> QED
    BY <1>1, <2>2, <2>5
<1> QED
  BY <1>4, <1>7, <1>8, <1>9, <1>10, <1>11, <1>12 DEF Inv

LEMMA FlushStep ==
  ASSUME Inv, NEW h \in Hooks, Flush(h)
  PROVE  Inv'
<1>1. /\ UNCHANGED <<sock, gen>> /\ UNCHANGED <<version, ends, subs, toEngine, engine, hook>>
      /\ UNCHANGED <<bg, cache, leaving, forgotten, ids>>
      /\ shown' = [shown EXCEPT ![h] = Rendered(hook[h])] /\ flush' = flush \ {h}
  BY DEF Flush, SameWire, wire
<1>2. TypeOK /\ hook[h] \in Hook
  BY DEF Inv, TypeOK
<1>3. /\ \A g \in Hooks : g # h => shown'[g] = shown[g]
      /\ shown'[h] = Rendered(hook[h]) /\ shown' \in [Hooks -> View]
  BY <1>1, <1>2, RenderedIs DEF TypeOK
<1>4. Wire(subs, toEngine, ids)'
  BY <1>1, WireMoves DEF Inv
<1>5. TypeOK'
  <2>1. flush' \subseteq Mounted'
    BY <1>1, <1>2 DEF TypeOK, Mounted
  <2> QED
    BY <1>1, <1>2, <1>3, <2>1 DEF TypeOK
<1>6. ASSUME NEW g \in Hooks PROVE (Holds(g) /\ HookRows(g) /\ Flags(g))'
  <2>1. Holds(g) /\ HookRows(g) /\ Flags(g)
    BY DEF Inv
  <2>2. Holds(g)'
    BY <1>1, <2>1 DEF Holds
  <2>3. CASE g = h
    <3>1. HookRows(h)'
      BY <1>1, <1>2, <1>3, <2>1, <2>3, RenderedIs DEF HookRows
    <3>2. Flags(h)'
      BY <1>1, <1>2, <1>3, <2>1, <2>3, RenderedIs DEF Flags
    <3> QED
      BY <2>2, <2>3, <3>1, <3>2
  <2>4. CASE g # h
    BY <1>1, <1>3, <2>1, <2>2, <2>4 DEF HookRows, Flags
  <2> QED
    BY <2>3, <2>4
<1>7. ASSUME NEW c \in Clusters PROVE (Keeps(c) /\ ConnRows(c))'
  BY <1>1 DEF Inv, Keeps, ConnRows
<1>8. ASSUME NEW s \in ToSet(subs') PROVE Held(s)'
  BY <1>1 DEF Inv, Held
<1>9. Quiet' /\ LetGo'
  BY <1>1 DEF Inv, Quiet, LetGo
<1> QED
  BY <1>4, <1>5, <1>6, <1>7, <1>8, <1>9 DEF Inv

LEMMA WithoutNone ==
  ASSUME NEW list, NEW id, \A n \in DOMAIN list : list[n].id # id
  PROVE  Without(list, id) = list
BY DEF Without

LEMMA ShowStep ==
  ASSUME Inv, NEW h \in Hooks, NEW c \in Clusters, Show(h, c)
  PROVE  Inv'
<1> DEFINE k == hook[h]
           i == ids'
           e == Effect(k, c, i, Saved(h)[c])
           t == [id |-> i, c |-> c]
           mid == IF sock = "open" /\ k.c # None THEN Append(toEngine, Frame("unsub", k)) ELSE toEngine
<1>1. /\ UNCHANGED <<sock, gen>> /\ UNCHANGED <<version, ends, engine, bg, leaving>>
      /\ leaving = None /\ ids < MaxIds /\ i = ids + 1
      /\ cache' = Saved(h) /\ hook' = [hook EXCEPT ![h] = e]
      /\ shown' = [shown EXCEPT ![h] = Rendered(hook'[h])]
      /\ flush' = IF sock = "open" THEN flush \cup {h} ELSE flush \ {h}
      /\ subs' = Append(Without(subs, k.id), t)
      /\ toEngine' = Out((IF k.c # None THEN <<Frame("unsub", k)>> ELSE <<>>) \o <<Frame("sub", t)>>)
      /\ forgotten' = forgotten \ {c}
  BY DEF Show, SameWire, wire, Cancelled, Subscribed, Mounted
<1>2. /\ TypeOK /\ subs \in Seq(Spec0) /\ Once(subs) /\ toEngine \in Seq(Frames)
      /\ ids \in Nat /\ i \in Ids /\ i \in 0 .. MaxIds
      /\ k \in Hook /\ Wire(subs, toEngine, ids)
      /\ None \notin Clusters
  BY <1>1, BoundsAreNat, NoneIsNoCluster DEF Inv, Wire, TypeOK, Ids
<1>3. /\ k.c # None => k.id \in Ids /\ k.c \in Clusters /\ Sub(k) \in ToSet(subs)
      /\ k.c = None => k.id = 0
      /\ Flags(h) /\ Holds(h)
  BY Own DEF Inv, Holds
<1>4. cache' \in [Clusters -> Cached] /\ \A d \in Clusters : CacheOf(cache'[d], d)
  BY <1>1, SavedIs
<1>5. /\ e \in Hook /\ e.c = c /\ e.id = i /\ Of(e.store, c) /\ e.buffer = {}
      /\ ~ (e.synced /\ e.connected) /\ (sock # "open" => ~ e.connected)
  <2>1. CacheOf(Saved(h)[c], c) /\ (sock # "open" => ~ k.connected)
    BY <1>1, <1>3, <1>4 DEF Flags
  <2>2. /\ e \in Hook /\ e.c = c /\ e.id = i /\ e.store = Saved(h)[c].rows /\ e.buffer = {}
        /\ ~ (e.synced /\ e.connected) /\ (sock # "open" => ~ e.connected)
    BY <1>2, <2>1, EffectIs
  <2> QED
    BY <2>1, <2>2 DEF CacheOf
<1>6. t \in Spec0 /\ t.id = i /\ t.c = c /\ Frame("sub", t) \in Frames
  BY <1>2 DEF Spec0, Frame, Frames
<1>7. toEngine' = IF sock = "open" THEN Append(mid, Frame("sub", t)) ELSE mid
  <2>1. k.c # None => Frame("unsub", k) \in Frames
    BY <1>3 DEF Frame, Frames
  <2> QED
    BY <1>1, <1>2, <1>6, <2>1, OutIs
<1>8. /\ \A g \in Hooks : g # h => hook'[g] = hook[g] /\ shown'[g] = shown[g]
      /\ hook'[h] = e /\ shown'[h] = Rendered(e)
  BY <1>1, <1>2 DEF TypeOK
<1> HIDE DEF e, t
<1>9. Wire(Without(subs, k.id), mid, ids)
  <2>1. CASE k.c # None
    <3>1. \E n \in DOMAIN subs : subs[n].id = k.id /\ subs[n].c = k.c
      BY <1>2, <1>3, <2>1, SubsIs DEF Sub
    <3>2. Wire(Without(subs, k.id),
               IF sock = "open" THEN Append(toEngine, Frame("unsub", k)) ELSE toEngine, ids)
      BY <1>2, <3>1, Leaves
    <3> QED
      BY <2>1, <3>2
  <2>2. CASE k.c = None
    <3>1. \A n \in DOMAIN subs : subs[n].id # k.id
      <4>1. \A n \in DOMAIN subs : subs[n].id \in Ids
        <5>1. \A n \in DOMAIN subs : subs[n] \in Spec0
          BY <1>2, SubsIs
        <5> QED
          BY <5>1 DEF Spec0
      <4> QED
        BY <1>3, <2>2, <4>1, BoundsAreNat DEF Ids
    <3>2. Without(subs, k.id) = subs
      BY <3>1, WithoutNone
    <3> QED
      BY <1>2, <2>2, <3>2
  <2> QED
    BY <2>1, <2>2
<1> HIDE DEF mid
<1>10. Wire(subs, toEngine, ids)'
  <2>1. Wire(Append(Without(subs, k.id), t),
             IF sock = "open" THEN Append(mid, Frame("sub", t)) ELSE mid, i)
    BY <1>1, <1>2, <1>9, Joins DEF t
  <2>2. sock # "open" => mid = toEngine
    BY DEF mid
  <2>3. Wire(subs', toEngine', ids')
    BY <1>1, <1>7, <2>1, <2>2
  <2> QED
    BY <1>1, <2>3, WireMoves
<1>11. \A s : s \in ToSet(subs') <=> (s \in ToSet(subs) /\ s.id # k.id) \/ s = t
  <2>1. Without(subs, k.id) \in Seq(Spec0)
    BY <1>9 DEF Wire
  <2> QED
    BY <1>1, <1>2, <1>6, <2>1, SubsAppend, SubsWithout
<1>12. /\ \A g \in Hooks : hook[g].c # None => hook[g].id # i
       /\ \A d \in Clusters : bg[d].on => bg[d].id # i
  BY <1>1, <1>2, Own DEF Ids
<1> HIDE DEF i
<1>13. TypeOK'
  <2>1. hook' \in [Hooks -> Hook] /\ shown' \in [Hooks -> View]
    BY <1>1, <1>2, <1>5, <1>8, RenderedIs DEF TypeOK
  <2>2. flush' \subseteq Mounted'
    BY <1>1, <1>2, <1>5, <1>8 DEF TypeOK, Mounted
  <2>3. subs' \in Seq(Spec0) /\ toEngine' \in Seq(Frames)
    BY <1>10 DEF Wire
  <2>4. ids' \in 0 .. MaxIds
    BY <1>2 DEF i
  <2> QED
    BY <1>1, <1>2, <1>4, <2>1, <2>2, <2>3, <2>4 DEF TypeOK
<1>14. ASSUME NEW g \in Hooks PROVE (Holds(g) /\ HookRows(g) /\ Flags(g))'
  <2>1. CASE g = h
    <3>1. HookRows(h)' /\ Flags(h)'
      BY <1>1, <1>5, <1>8, RenderedIs DEF HookRows, Flags, Of
    <3>2. Sub(hook'[h]) \in ToSet(subs')
      BY <1>5, <1>8, <1>11 DEF Sub, t
    <3>3. \A f \in Hooks : f # h => hook'[f] = hook[f]
      BY <1>8
    <3>4. Holds(h)'
      BY <1>1, <1>2, <1>5, <1>8, <1>12, <3>2, <3>3 DEF Holds, Sub
    <3> QED
      BY <2>1, <3>1, <3>4
  <2>2. CASE g # h
    <3>1. Holds(g) /\ HookRows(g) /\ Flags(g)
      BY DEF Inv
    <3>2. hook[g].c # None => hook[g].id # k.id
      <4>1. k.c # None /\ hook[g].c # None => hook[g].id # k.id
        BY <1>3, <2>2 DEF Holds, k
      <4>2. hook[g].c # None => hook[g].id # 0
        BY Own, BoundsAreNat DEF Ids
      <4> QED
        BY <1>3, <4>1, <4>2
    <3>3. Holds(g)'
      <4>1. hook[g].c # None => Sub(hook[g]) \in ToSet(subs')
        BY <1>11, <3>1, <3>2 DEF Holds, Sub
      <4>2. \A f \in Hooks : f # h => hook'[f] = hook[f]
        BY <1>8
      <4>3. hook[g].c # None => hook'[h].id # hook[g].id
        BY <1>5, <1>8, <1>12
      <4> QED
        BY <1>1, <2>2, <3>1, <4>1, <4>2, <4>3 DEF Holds, Sub
    <3>4. HookRows(g)' /\ Flags(g)'
      BY <1>1, <1>8, <2>2, <3>1 DEF HookRows, Flags
    <3> QED
      BY <3>3, <3>4
  <2> QED
    BY <2>1, <2>2
<1>15. ASSUME NEW d \in Clusters PROVE (Keeps(d) /\ ConnRows(d))'
  <2>1. Keeps(d) /\ ConnRows(d)
    BY DEF Inv
  <2>2. bg[d].on => bg[d].id # k.id
    <3>1. k.c # None => (bg[d].on => bg[d].id # k.id)
      BY <1>3 DEF Holds, k
    <3>2. bg[d].on => bg[d].id # 0
      BY Own, BoundsAreNat DEF Ids
    <3> QED
      BY <1>3, <3>1, <3>2
  <2>3. Keeps(d)'
    BY <1>1, <1>11, <2>1, <2>2 DEF Keeps
  <2>4. ConnRows(d)'
    BY <1>1, <1>4, <2>1 DEF ConnRows
  <2> QED
    BY <2>3, <2>4
<1>16. ASSUME NEW s \in ToSet(subs') PROVE Held(s)'
  <2>1. CASE s = t
    BY <1>5, <1>8, <2>1 DEF Held, t
  <2>2. CASE s \in ToSet(subs) /\ s.id # k.id
    <3>1. Held(s)
      BY <2>2 DEF Inv
    <3> QED
      BY <1>1, <1>8, <2>2, <3>1 DEF Held, k
  <2> QED
    BY <1>11, <2>1, <2>2
<1>17. Quiet'
  BY <1>1, <1>2 DEF Inv, Quiet
<1>18. LetGo'
  <2> SUFFICES ASSUME NEW d \in forgotten, d # c, NEW s \in ToSet(subs'), s.c = d PROVE FALSE
    <3>1. subs' \in Seq(Spec0) /\ Once(subs')
      BY <1>10 DEF Wire, Once
    <3>2. \A n \in DOMAIN subs' : subs'[n] \in ToSet(subs')
      BY <3>1, SubsIs
    <3>3. \A d \in forgotten' : d \in forgotten /\ d # c
      BY <1>1
    <3> QED
      BY <3>2, <3>3 DEF LetGo
  <2>1. s \in ToSet(subs)
    BY <1>6, <1>11
  <2>2. d \in Clusters /\ leaving # d
    BY <1>1, <1>2 DEF TypeOK
  <2> QED
    BY <1>2, <2>1, <2>2, SubsIs DEF Inv, LetGo
<1> QED
  BY <1>10, <1>13, <1>14, <1>15, <1>16, <1>17, <1>18 DEF Inv

-----------------------------------------------------------------------------
(* Steps of the background streams *)

LEMMA ConnectStep ==
  ASSUME Inv, NEW c \in Clusters, Connect(c)
  PROVE  Inv'
<1> DEFINE i == ids'
           k == [NoConn EXCEPT !.on = TRUE, !.id = i, !.has = cache[c].kept,
                   !.store = cache[c].rows, !.synced = cache[c].synced]
           t == [id |-> i, c |-> c]
<1>1. /\ UNCHANGED <<sock, gen>> /\ UNCHANGED <<version, ends, engine, leaving>>
      /\ UNCHANGED <<hook, shown, flush, cache>>
      /\ leaving = None /\ ids < MaxIds /\ i = ids + 1 /\ ~ bg[c].on
      /\ bg' = [bg EXCEPT ![c] = k]
      /\ subs' = Append(subs, t) /\ toEngine' = Out(<<Frame("sub", t)>>)
      /\ forgotten' = forgotten \ {c}
  BY DEF Connect, SameWire, wire, Subscribed
<1>2. /\ TypeOK /\ subs \in Seq(Spec0) /\ Once(subs) /\ toEngine \in Seq(Frames)
      /\ ids \in Nat /\ i \in Ids /\ i \in 0 .. MaxIds
      /\ Wire(subs, toEngine, ids) /\ None \notin Clusters
  BY <1>1, BoundsAreNat, NoneIsNoCluster DEF Inv, Wire, TypeOK, Ids
<1>3. /\ k \in Conn /\ k.on = TRUE /\ k.id = i /\ Of(k.store, c) /\ k.buffer = {}
  <2>1. CacheOf(cache[c], c)
    BY DEF Inv, ConnRows
  <2> QED
    BY <1>2, <2>1, NoConnIs DEF CacheOf, Cached, Conn
<1>4. t \in Spec0 /\ t.id = i /\ t.c = c /\ Frame("sub", t) \in Frames
  BY <1>2 DEF Spec0, Frame, Frames
<1>5. bg'[c] = k /\ bg' \in [Clusters -> Conn] /\ \A d \in Clusters : d # c => bg'[d] = bg[d]
  BY <1>1, <1>2, <1>3 DEF TypeOK
<1> HIDE DEF k, t
<1>6. Wire(subs, toEngine, ids)'
  <2>1. toEngine' = IF sock = "open" THEN Append(toEngine, Frame("sub", t)) ELSE toEngine
    BY <1>1, <1>2, <1>4, OutIs
  <2>2. Wire(Append(subs, t),
             IF sock = "open" THEN Append(toEngine, Frame("sub", t)) ELSE toEngine, i)
    BY <1>1, <1>2, Joins DEF t
  <2>3. Wire(subs', toEngine', ids')
    BY <1>1, <2>1, <2>2
  <2> QED
    BY <1>1, <2>3, WireMoves
<1>7. \A s : s \in ToSet(subs') <=> s \in ToSet(subs) \/ s = t
  BY <1>1, <1>2, <1>4, SubsAppend
<1>8. \A g \in Hooks : hook[g].c # None => hook[g].id # i
  BY <1>1, <1>2, Own DEF Ids
<1>9. TypeOK'
  <2>1. subs' \in Seq(Spec0) /\ toEngine' \in Seq(Frames) /\ ids' \in 0 .. MaxIds
    BY <1>2, <1>6 DEF Wire
  <2> QED
    BY <1>1, <1>2, <1>5, <2>1 DEF TypeOK, Mounted
<1> HIDE DEF i
<1>10. ASSUME NEW g \in Hooks PROVE (Holds(g) /\ HookRows(g) /\ Flags(g))'
  <2>1. Holds(g) /\ HookRows(g) /\ Flags(g)
    BY DEF Inv
  <2>2. HookRows(g)' /\ Flags(g)'
    BY <1>1, <2>1 DEF HookRows, Flags
  <2>3. hook[g].c # None => \A d \in Clusters : bg'[d].on => bg'[d].id # hook[g].id
    BY <1>3, <1>5, <1>8, <2>1 DEF Holds
  <2>4. hook[g].c # None => Sub(hook[g]) \in ToSet(subs')
    BY <1>7, <2>1 DEF Holds
  <2>5. Holds(g)'
    BY <1>1, <2>1, <2>3, <2>4 DEF Holds, Sub
  <2> QED
    BY <2>2, <2>5
<1>11. ASSUME NEW d \in Clusters PROVE (Keeps(d) /\ ConnRows(d))'
  <2>1. Keeps(d) /\ ConnRows(d)
    BY DEF Inv
  <2>2. CASE d = c
    <3>1. Keeps(c)'
      BY <1>3, <1>5, <1>7 DEF Keeps, t
    <3>2. ConnRows(c)'
      BY <1>1, <1>3, <1>5, <2>1, <2>2 DEF ConnRows, Of
    <3> QED
      BY <2>2, <3>1, <3>2
  <2>3. CASE d # c
    BY <1>1, <1>5, <1>7, <2>1, <2>3 DEF Keeps, ConnRows
  <2> QED
    BY <2>2, <2>3
<1>12. ASSUME NEW s \in ToSet(subs') PROVE Held(s)'
  <2>1. CASE s = t
    BY <1>3, <1>4, <1>5, <2>1 DEF Held
  <2>2. CASE s \in ToSet(subs)
    <3>1. Held(s) /\ s.c \in Clusters
      BY <2>2, Fresh DEF Inv
    <3>2. bg[s.c].on => s.c # c
      BY <1>1
    <3> QED
      BY <1>1, <1>5, <3>1, <3>2 DEF Held
  <2> QED
    BY <1>7, <2>1, <2>2
<1>13. Quiet'
  BY <1>1, <1>2 DEF Inv, Quiet
<1>14. LetGo'
  <2> SUFFICES ASSUME NEW d \in forgotten, d # c, NEW s \in ToSet(subs'), s.c = d PROVE FALSE
    <3>1. subs' \in Seq(Spec0) /\ Once(subs')
      BY <1>6 DEF Wire, Once
    <3>2. \A n \in DOMAIN subs' : subs'[n] \in ToSet(subs')
      BY <3>1, SubsIs
    <3>3. \A d \in forgotten' : d \in forgotten /\ d # c
      BY <1>1
    <3> QED
      BY <3>2, <3>3 DEF LetGo
  <2>1. s \in ToSet(subs)
    BY <1>4, <1>7
  <2>2. d \in Clusters /\ leaving # d
    BY <1>1, <1>2 DEF TypeOK
  <2> QED
    BY <1>2, <2>1, <2>2, SubsIs DEF Inv, LetGo
<1> QED
  BY <1>6, <1>9, <1>10, <1>11, <1>12, <1>13, <1>14 DEF Inv

(* A cluster is dropped, by the user here or in another window. *)
LEMMA DroppedStep ==
  ASSUME Inv, NEW c \in Clusters, Dropped(c), leaving = None,
         UNCHANGED <<wire, version, ends, engine, hook, shown, flush, ids>>,
         leaving' = IF \E h \in Hooks : hook[h].c = c THEN c ELSE None
  PROVE  Inv'
<1> DEFINE s0 == [id |-> bg[c].id, c |-> c]
<1>1. /\ UNCHANGED <<sock, gen>> /\ UNCHANGED <<version, ends, engine, ids>>
      /\ UNCHANGED <<hook, shown, flush>>
      /\ bg' = [bg EXCEPT ![c] = NoConn]
      /\ subs' = IF bg[c].on THEN Without(subs, s0.id) ELSE subs
      /\ toEngine' = IF bg[c].on THEN Out(<<Frame("unsub", s0)>>) ELSE toEngine
      /\ cache' = IF bg[c].on THEN [cache EXCEPT ![c] = NoEntry] ELSE cache
      /\ forgotten' = forgotten \cup {c}
  BY DEF Dropped, wire
<1>2. /\ TypeOK /\ subs \in Seq(Spec0) /\ Once(subs) /\ toEngine \in Seq(Frames)
      /\ Wire(subs, toEngine, ids) /\ None \notin Clusters
  BY NoneIsNoCluster DEF Inv, Wire
<1>3. bg'[c] = NoConn /\ bg' \in [Clusters -> Conn] /\ \A d \in Clusters : d # c => bg'[d] = bg[d]
  BY <1>1, <1>2, NoConnIs DEF TypeOK
<1>4. cache' \in [Clusters -> Cached] /\ \A d \in Clusters : CacheOf(cache'[d], d)
  <2>1. cache \in [Clusters -> Cached] /\ \A d \in Clusters : CacheOf(cache[d], d)
    BY DEF Inv, TypeOK, ConnRows
  <2>2. NoEntry \in Cached /\ CacheOf(NoEntry, c)
    BY DEF CacheOf, Of, NoEntry, Cached, Rows
  <2> QED
    BY <1>1, <2>1, <2>2
<1>5. Sub(s0) = s0 /\ s0.id = bg[c].id /\ s0.c = c /\ (bg[c].on => s0 \in ToSet(subs))
  BY DEF Sub, Inv, Keeps
<1> HIDE DEF s0
<1>6. Wire(subs, toEngine, ids)'
  <2>1. CASE bg[c].on
    <3>1. Wire(subs', toEngine', ids')
      BY <1>1, <1>5, <2>1, Dropping
    <3> QED
      BY <1>1, <3>1, WireMoves
  <2>2. CASE ~ bg[c].on
    <3>1. Wire(subs', toEngine', ids')
      BY <1>1, <1>2, <2>2
    <3> QED
      BY <1>1, <3>1, WireMoves
  <2> QED
    BY <2>1, <2>2
<1>7. \A s : s \in ToSet(subs') <=> s \in ToSet(subs) /\ (bg[c].on => s.id # bg[c].id)
  BY <1>1, <1>2, <1>5, SubsWithout
<1>8. TypeOK'
  <2>1. subs' \in Seq(Spec0) /\ toEngine' \in Seq(Frames)
    BY <1>6 DEF Wire
  <2> QED
    BY <1>1, <1>2, <1>3, <1>4, <2>1 DEF TypeOK, Mounted
<1>9. ASSUME NEW g \in Hooks PROVE (Holds(g) /\ HookRows(g) /\ Flags(g))'
  <2>1. Holds(g) /\ HookRows(g) /\ Flags(g)
    BY DEF Inv
  <2>2. HookRows(g)' /\ Flags(g)'
    BY <1>1, <2>1 DEF HookRows, Flags
  <2>3. hook[g].c # None => \A d \in Clusters : bg'[d].on => bg'[d].id # hook[g].id
    BY <1>3, <2>1, NoConnIs DEF Holds
  <2>4. hook[g].c # None => Sub(hook[g]) \in ToSet(subs')
    BY <1>7, <2>1 DEF Holds, Sub
  <2>5. Holds(g)'
    BY <1>1, <2>1, <2>3, <2>4 DEF Holds, Sub
  <2> QED
    BY <2>2, <2>5
<1>10. ASSUME NEW d \in Clusters PROVE (Keeps(d) /\ ConnRows(d))'
  <2>1. Keeps(d) /\ ConnRows(d)
    BY DEF Inv
  <2>2. CASE d = c
    BY <1>3, <1>4, <2>2, NoConnIs DEF Keeps, ConnRows, Of
  <2>3. CASE d # c
    <3>1. bg[d].on /\ bg[c].on => bg[d].id # bg[c].id
      BY <2>3, Own
    <3>2. Keeps(d)'
      BY <1>3, <1>7, <2>1, <2>3, <3>1 DEF Keeps
    <3> QED
      BY <1>3, <1>4, <2>1, <2>3, <3>2 DEF ConnRows
  <2> QED
    BY <2>2, <2>3
<1>11. ASSUME NEW s \in ToSet(subs') PROVE Held(s)'
  <2>1. s \in ToSet(subs) /\ (bg[c].on => s.id # bg[c].id)
    BY <1>7
  <2>2. Held(s) /\ s.c \in Clusters
    BY <2>1, Fresh DEF Inv
  <2> QED
    BY <1>1, <1>3, <2>1, <2>2 DEF Held
<1>12. Quiet'
  BY <1>1, <1>2, <1>3, NoConnIs DEF Inv, Quiet
<1>13. LetGo'
  <2> SUFFICES ASSUME NEW d \in forgotten', leaving' # d, NEW s \in ToSet(subs'), s.c = d PROVE FALSE
    <3>1. subs' \in Seq(Spec0) /\ Once(subs')
      BY <1>6 DEF Wire, Once
    <3> QED
      BY <3>1, SubsIs DEF LetGo
  <2>1. s \in ToSet(subs) /\ (bg[c].on => s.id # bg[c].id) /\ Held(s)
    BY <1>7 DEF Inv
  <2>2. CASE d # c
    <3>1. d \in forgotten /\ d \in Clusters
      BY <1>1, <1>2, <2>2 DEF TypeOK
    <3> QED
      BY <1>2, <2>1, <3>1, SubsIs DEF Inv, LetGo
  <2>3. CASE d = c
    BY <1>2, <2>1, <2>3 DEF Held
  <2> QED
    BY <2>2, <2>3
<1> QED
  BY <1>4, <1>6, <1>8, <1>9, <1>10, <1>11, <1>12, <1>13 DEF Inv

LEMMA DisconnectStep ==
  ASSUME Inv, NEW c \in Clusters, Disconnect(c) \/ RemoteDisconnect(c)
  PROVE  Inv'
<1>1. CASE Disconnect(c)
  <2>1. c # None
    BY NoneIsNoCluster
  <2>2. leaving' = IF \E h \in Hooks : hook[h].c = c THEN c ELSE None
    BY <1>1, <2>1 DEF Disconnect, Mounted
  <2> QED
    BY <1>1, <2>2, DroppedStep DEF Disconnect, SameWire
<1>2. CASE RemoteDisconnect(c)
  BY <1>2, DroppedStep DEF RemoteDisconnect, SameWire
<1> QED
  BY <1>1, <1>2

-----------------------------------------------------------------------------
(* Steps of the socket *)

(* A new socket is told of everything the client wants, and of nothing else. *)
LEMMA Replayed ==
  ASSUME Wire(subs, toEngine, ids), sock # "open",
         NEW frames, frames = [n \in DOMAIN subs |-> Frame("sub", subs[n])]
  PROVE  /\ frames \in Seq(Frames)
         /\ \A i \in Ids : OneCluster(subs, frames, ids, i) /\ Told(subs, frames, i)
<1>1. /\ subs \in Seq(Spec0) /\ Len(subs) \in Nat /\ DOMAIN subs = 1 .. Len(subs)
      /\ \A i \in Ids : engine[i] = NoSub /\ OneCluster(subs, toEngine, ids, i)
  BY LenProperties DEF Wire
<1>2. \A n \in DOMAIN subs : subs[n] \in Spec0
  BY <1>1, ElementOfSeq
<1>3. ASSUME NEW n \in DOMAIN subs
      PROVE  /\ frames[n] \in Frames /\ frames[n].id = subs[n].id
             /\ frames[n].c = subs[n].c /\ frames[n].type = "sub"
  BY <1>2 DEF Frame, Frames, Spec0
<1>4. DOMAIN frames = DOMAIN subs /\ frames = [n \in 1 .. Len(subs) |-> frames[n]]
  BY <1>1
<1>5. frames \in Seq(Frames)
  <2>1. frames \in [1 .. Len(subs) -> Frames]
    BY <1>1, <1>3, <1>4
  <2> QED
    BY <1>1, <2>1, SeqDef
<1>6. ASSUME NEW i \in Ids PROVE OneCluster(subs, frames, ids, i)
  <2>1. \A c : Names(subs, frames, i, c) => Names(subs, toEngine, i, c)
    BY <1>3, <1>4 DEF Names
  <2> QED
    BY <1>1, <2>1 DEF OneCluster
<1>7. ASSUME NEW i \in Ids PROVE Told(subs, frames, i)
  <2>1. engine[i].at = "none"
    BY <1>1 DEF NoSub
  <2> QED
    BY <1>3, <1>4, <2>1 DEF Told, LastFor, Wants
<1> QED
  BY <1>5, <1>6, <1>7

(* Whose subscription is whose does not change with what it brings. *)
LEMMA HoldsOn ==
  ASSUME NEW h \in Hooks, Holds(h), subs' = subs, hook[h] = Unmounted => hook'[h] = Unmounted,
         \A g \in Hooks : hook'[g].c = hook[g].c /\ hook'[g].id = hook[g].id,
         \A c \in Clusters : bg'[c].on = bg[c].on /\ bg'[c].id = bg[c].id
  PROVE  Holds(h)'
<1>1. hook'[h].c = None => hook'[h] = Unmounted
  BY DEF Holds
<1>2. ASSUME hook'[h].c # None
      PROVE  /\ Sub(hook'[h]) \in ToSet(subs')
             /\ \A g \in Hooks : hook'[g].c # None /\ hook'[g].id = hook'[h].id => g = h
             /\ \A c \in Clusters : bg'[c].on => bg'[c].id # hook'[h].id
  <2>1. Sub(hook'[h]) = Sub(hook[h]) /\ hook[h].c # None
    BY <1>2 DEF Sub
  <2>2. \A c \in Clusters : bg'[c].on => bg'[c].id # hook'[h].id
    BY <2>1 DEF Holds
  <2>3. \A g \in Hooks : hook'[g].c # None /\ hook'[g].id = hook'[h].id => g = h
    BY <2>1 DEF Holds
  <2> QED
    BY <2>1, <2>2, <2>3 DEF Holds
<1> QED
  BY <1>1, <1>2 DEF Holds

LEMMA OpenStep ==
  ASSUME Inv, Open
  PROVE  Inv'
<1> DEFINE K(h) == IF h \in Mounted THEN Status(hook[h], TRUE) ELSE hook[h]
<1>1. /\ sock = "connecting" /\ sock' = "open" /\ gen < MaxOpens /\ gen' = gen + 1
      /\ hook' = [h \in Hooks |-> [K(h) EXCEPT !.here = FALSE]]
      /\ shown' = [h \in Hooks |-> [shown[h] EXCEPT !.here = FALSE]]
      /\ flush' = flush \cup Mounted
      /\ toEngine' = [n \in DOMAIN subs |-> Frame("sub", subs[n])]
      /\ UNCHANGED <<subs, engine, version, bg, cache>>
      /\ UNCHANGED <<leaving, forgotten, ids, ends>>
  BY DEF Open
<1>2. TypeOK /\ Wire(subs, toEngine, ids) /\ flush = {} /\ None \notin Clusters
  BY <1>1, NoneIsNoCluster DEF Inv, Quiet
<1>3. Wire(subs, toEngine, ids)'
  <2>1. /\ toEngine' \in Seq(Frames)
        /\ \A i \in Ids : OneCluster(subs, toEngine', ids, i) /\ Told(subs, toEngine', i)
    BY <1>1, <1>2, Replayed
  <2>2. \A i \in Ids : OneCluster(subs, toEngine, ids, i)' /\ Told(subs, toEngine, i)'
    BY <1>1, <2>1 DEF OneCluster, Names, Told, Wants, LastFor
  <2> QED
    BY <1>1, <1>2, <2>1, <2>2 DEF Wire, Once
<1>4. ASSUME NEW h \in Hooks
      PROVE  /\ hook'[h] \in Hook /\ hook'[h].c = hook[h].c /\ hook'[h].id = hook[h].id
             /\ hook'[h].store = hook[h].store /\ hook'[h].buffer = hook[h].buffer
             /\ ~ (hook'[h].synced /\ hook'[h].connected)
             /\ hook[h] = Unmounted => hook'[h] = Unmounted
             /\ shown'[h] \in View /\ shown'[h].rows = shown[h].rows
             /\ ~ shown'[h].connected
             /\ hook[h] = Unmounted => shown'[h] = Rendered(Unmounted)
  <2>1. Flags(h) /\ Holds(h) /\ hook[h] \in Hook /\ shown[h] \in View /\ ~ hook[h].connected
    BY <1>1, <1>2 DEF Inv, Flags, TypeOK
  <2>2. hook'[h] = [K(h) EXCEPT !.here = FALSE] /\ shown'[h] = [shown[h] EXCEPT !.here = FALSE]
    BY <1>1
  <2>3. shown[h] = Rendered(hook[h])
    BY <1>2, <2>1 DEF Flags
  <2>4. /\ K(h) \in Hook /\ K(h).c = hook[h].c /\ K(h).id = hook[h].id
        /\ K(h).store = hook[h].store /\ K(h).buffer = hook[h].buffer
        /\ ~ (K(h).synced /\ K(h).connected)
    <3>1. CASE h \in Mounted
      <4>1. K(h) = Status(hook[h], TRUE)
        BY <3>1
      <4>2. Status(hook[h], TRUE).synced => hook[h].connected
        BY <2>1, StatusIs
      <4> QED
        BY <2>1, <4>1, <4>2, StatusIs
    <3>2. CASE h \notin Mounted
      BY <2>1, <3>2
    <3> QED
      BY <3>1, <3>2
  <2>5. hook[h] = Unmounted => K(h) = Unmounted
    BY UnmountedIs DEF Mounted
  <2> HIDE DEF K
  <2>6. hook'[h] \in Hook /\ shown'[h] \in View
    BY <2>1, <2>2, <2>4 DEF Hook, View
  <2>7. /\ hook'[h].c = hook[h].c /\ hook'[h].id = hook[h].id
        /\ hook'[h].store = hook[h].store /\ hook'[h].buffer = hook[h].buffer
        /\ ~ (hook'[h].synced /\ hook'[h].connected)
    BY <2>2, <2>4 DEF Hook
  <2>8. shown'[h].rows = shown[h].rows /\ ~ shown'[h].connected
    BY <2>1, <2>2, <2>3, RenderedIs DEF View
  <2>9. ASSUME hook[h] = Unmounted PROVE hook'[h] = Unmounted /\ shown'[h] = Rendered(Unmounted)
    <3>1. ASSUME NEW k \in Hook, k.here = FALSE PROVE [k EXCEPT !.here = FALSE] = k
      BY <3>1 DEF Hook
    <3>2. ASSUME NEW v \in View, v.here = FALSE PROVE [v EXCEPT !.here = FALSE] = v
      BY <3>2 DEF View
    <3>3. Unmounted \in Hook /\ Unmounted.here = FALSE
      BY UnmountedIs DEF Unmounted
    <3>4. Rendered(Unmounted) \in View /\ Rendered(Unmounted).here = FALSE
      BY <3>3, RenderedIs
    <3> QED
      BY <2>2, <2>3, <2>5, <2>9, <3>1, <3>2, <3>3, <3>4
  <2> QED
    BY <2>6, <2>7, <2>8, <2>9
<1>5. TypeOK'
  <2>1. hook' \in [Hooks -> Hook] /\ shown' \in [Hooks -> View]
    BY <1>1, <1>4
  <2>2. flush' \subseteq Mounted'
    BY <1>1, <1>2, <1>4 DEF Mounted
  <2>3. gen' \in 0 .. MaxOpens
    BY <1>1, <1>2, BoundsAreNat DEF TypeOK
  <2>4. subs' \in Seq(Spec0) /\ toEngine' \in Seq(Frames)
    BY <1>3 DEF Wire
  <2> QED
    BY <1>1, <1>2, <2>1, <2>2, <2>3, <2>4 DEF TypeOK
<1>6. ASSUME NEW h \in Hooks PROVE (Holds(h) /\ HookRows(h) /\ Flags(h))'
  <2>1. Holds(h) /\ HookRows(h)
    BY DEF Inv
  <2>2. Holds(h)'
    BY <1>1, <1>4, <2>1, HoldsOn
  <2>3. HookRows(h)'
    BY <1>4, <2>1 DEF HookRows
  <2>4. h \notin flush' => shown'[h] = Rendered(hook'[h])
    BY <1>1, <1>4, <2>1, ZenonT(60) DEF Mounted, Holds
  <2>5. Flags(h)'
    BY <1>1, <1>4, <2>4 DEF Flags
  <2> QED
    BY <2>2, <2>3, <2>5
<1>7. ASSUME NEW c \in Clusters PROVE (Keeps(c) /\ ConnRows(c))'
  BY <1>1 DEF Inv, Keeps, ConnRows
<1>8. ASSUME NEW s \in ToSet(subs') PROVE Held(s)'
  <2>1. Held(s)
    BY <1>1 DEF Inv
  <2> QED
    BY <1>1, <1>4, <2>1 DEF Held
<1>9. Quiet' /\ LetGo'
  BY <1>1 DEF Inv, Quiet, LetGo
<1> QED
  BY <1>3, <1>5, <1>6, <1>7, <1>8, <1>9 DEF Inv

LEMMA CloseStep ==
  ASSUME Inv, Close
  PROVE  Inv'
<1>1. /\ sock = "open" /\ sock' = "down" /\ toEngine' = <<>> /\ engine' = [i \in Ids |-> NoSub]
      /\ hook' = [h \in Hooks |-> IF h \in Mounted THEN Status(hook[h], FALSE) ELSE hook[h]]
      /\ flush' = flush \cup Mounted
      /\ UNCHANGED <<gen, subs, version, shown, bg, cache>>
      /\ UNCHANGED <<leaving, forgotten, ids, ends>>
  BY DEF Close, ToAll
<1>2. TypeOK /\ Wire(subs, toEngine, ids)
  BY DEF Inv
<1>3. Wire(subs, toEngine, ids)'
  <2>1. <<>> \in Seq(Frames) /\ DOMAIN toEngine' = {}
    BY <1>1, EmptySeq
  <2>2. \A i \in Ids : engine'[i] = NoSub /\ engine'[i].at = "none"
    BY <1>1 DEF NoSub
  <2>3. ASSUME NEW i \in Ids PROVE OneCluster(subs, toEngine, ids, i)'
    <3>1. \A c : Names(subs, toEngine, i, c)' => Names(subs, toEngine, i, c)
      BY <1>1, <2>1, <2>2 DEF Names
    <3>2. OneCluster(subs, toEngine, ids, i)
      BY <1>2 DEF Wire
    <3> QED
      BY <1>1, <3>1, <3>2 DEF OneCluster
  <2> QED
    BY <1>1, <1>2, <2>1, <2>2, <2>3 DEF Wire, Once
<1>4. ASSUME NEW h \in Hooks
      PROVE  /\ hook'[h] \in Hook /\ hook'[h].c = hook[h].c /\ hook'[h].id = hook[h].id
             /\ hook'[h].store = hook[h].store /\ hook'[h].buffer = hook[h].buffer
             /\ ~ hook'[h].connected
             /\ hook[h] = Unmounted => hook'[h] = Unmounted
             /\ h \notin flush' => hook'[h] = hook[h]
  <2>1. hook[h] \in Hook /\ (h \notin Mounted => hook[h] = Unmounted)
    BY <1>2 DEF Inv, TypeOK, Holds, Mounted
  <2>2. CASE h \in Mounted
    <3>1. hook'[h] = Status(hook[h], FALSE) /\ h \in flush' /\ hook[h] # Unmounted
      BY <1>1, <2>2, UnmountedIs DEF Mounted
    <3>2. /\ Status(hook[h], FALSE) \in Hook /\ Status(hook[h], FALSE).connected = FALSE
          /\ Status(hook[h], FALSE).c = hook[h].c /\ Status(hook[h], FALSE).id = hook[h].id
          /\ Status(hook[h], FALSE).store = hook[h].store
          /\ Status(hook[h], FALSE).buffer = hook[h].buffer
      BY <2>1, StatusIs
    <3> QED
      BY <3>1, <3>2
  <2>3. CASE h \notin Mounted
    BY <1>1, <2>1, <2>3, UnmountedIs
  <2> QED
    BY <2>2, <2>3
<1>5. TypeOK'
  <2>1. hook' \in [Hooks -> Hook]
    BY <1>1, <1>4
  <2>2. flush' \subseteq Mounted'
    BY <1>1, <1>2, <1>4 DEF Mounted, TypeOK
  <2>3. engine' \in [Ids -> {NoSub} \cup Stage]
    BY <1>1
  <2>4. subs' \in Seq(Spec0) /\ toEngine' \in Seq(Frames)
    BY <1>3 DEF Wire
  <2> QED
    BY <1>1, <1>2, <2>1, <2>2, <2>3, <2>4 DEF TypeOK
<1>6. ASSUME NEW h \in Hooks PROVE (Holds(h) /\ HookRows(h) /\ Flags(h))'
  <2>1. Holds(h) /\ HookRows(h) /\ Flags(h)
    BY DEF Inv
  <2>2. Holds(h)'
    BY <1>1, <1>4, <2>1, HoldsOn
  <2>3. HookRows(h)'
    BY <1>1, <1>4, <2>1 DEF HookRows
  <2>4. Flags(h)'
    BY <1>1, <1>4, <2>1 DEF Flags
  <2> QED
    BY <2>2, <2>3, <2>4
<1>7. ASSUME NEW c \in Clusters PROVE (Keeps(c) /\ ConnRows(c))'
  BY <1>1 DEF Inv, Keeps, ConnRows
<1>8. ASSUME NEW s \in ToSet(subs') PROVE Held(s)'
  <2>1. Held(s)
    BY <1>1 DEF Inv
  <2> QED
    BY <1>1, <1>4, <2>1 DEF Held
<1>9. Quiet' /\ LetGo'
  BY <1>1 DEF Inv, Quiet, LetGo
<1> QED
  BY <1>3, <1>5, <1>6, <1>7, <1>8, <1>9 DEF Inv

LEMMA ReconnectStep ==
  ASSUME Inv, Reconnect
  PROVE  Inv'
<1>1. /\ sock = "down" /\ flush = {} /\ sock' = "connecting"
      /\ UNCHANGED <<gen, subs, toEngine, engine, version, hook, shown, flush>>
      /\ UNCHANGED <<bg, cache, leaving, forgotten, ids, ends>>
  BY DEF Reconnect
<1>2. Wire(subs, toEngine, ids)'
  <2>1. Wire(subs, toEngine, ids)
    BY DEF Inv
  <2>2. \A i \in Ids : OneCluster(subs, toEngine, ids, i)'
    BY <1>1, <2>1 DEF Wire, OneCluster, Names
  <2> QED
    BY <1>1, <2>1, <2>2 DEF Wire, Once
<1>3. TypeOK'
  BY <1>1 DEF Inv, TypeOK, Mounted
<1>4. ASSUME NEW h \in Hooks PROVE (Holds(h) /\ HookRows(h) /\ Flags(h))'
  BY <1>1 DEF Inv, Holds, HookRows, Flags
<1>5. ASSUME NEW c \in Clusters PROVE (Keeps(c) /\ ConnRows(c))'
  BY <1>1 DEF Inv, Keeps, ConnRows
<1>6. ASSUME NEW s \in ToSet(subs') PROVE Held(s)'
  BY <1>1 DEF Inv, Held
<1>7. Quiet' /\ LetGo'
  BY <1>1 DEF Inv, Quiet, LetGo
<1> QED
  BY <1>2, <1>3, <1>4, <1>5, <1>6, <1>7 DEF Inv

-----------------------------------------------------------------------------
(* Steps of the engine *)

LEMMA SameClient ==
  ASSUME Inv, TypeOK', Wire(subs, toEngine, ids)', ClientSame
  PROVE  Inv'
<1>1. /\ UNCHANGED <<sock, gen>> /\ UNCHANGED <<subs, hook, shown, flush, bg>>
      /\ UNCHANGED <<cache, leaving, forgotten, ids>>
  BY DEF ClientSame, wire
<1>2. ASSUME NEW h \in Hooks PROVE (Holds(h) /\ HookRows(h) /\ Flags(h))'
  BY <1>1 DEF Inv, Holds, HookRows, Flags
<1>3. ASSUME NEW c \in Clusters PROVE (Keeps(c) /\ ConnRows(c))'
  BY <1>1 DEF Inv, Keeps, ConnRows
<1>4. ASSUME NEW s \in ToSet(subs') PROVE Held(s)'
  BY <1>1 DEF Inv, Held
<1>5. Quiet' /\ LetGo'
  BY <1>1 DEF Inv, Quiet, LetGo
<1> QED
  BY <1>2, <1>3, <1>4, <1>5 DEF Inv

LEMMA TakeStep ==
  ASSUME Inv, Take
  PROVE  Inv'
<1> DEFINE f == Head(toEngine)
           rest == Tail(toEngine)
           next == IF f.type = "unsub" THEN NoSub
                   ELSE [c |-> f.c, at |-> "start", sent |-> version[f.c]]
<1>1. /\ toEngine # <<>> /\ engine' = [engine EXCEPT ![f.id] = next] /\ toEngine' = rest
      /\ ClientSame /\ UNCHANGED <<version, ends>>
  BY DEF Take
<1>2. UNCHANGED <<sock, gen>> /\ UNCHANGED <<subs, ids>>
  BY <1>1 DEF ClientSame, wire
<1>3. TypeOK /\ Wire(subs, toEngine, ids) /\ toEngine \in Seq(Frames) /\ sock = "open"
  BY <1>1 DEF Inv, Wire
<1>4. /\ rest \in Seq(Frames) /\ f \in Frames
      /\ 1 \in DOMAIN toEngine /\ toEngine[1] = f
      /\ \A n \in DOMAIN rest : \E m \in DOMAIN toEngine : rest[n] = toEngine[m]
  BY <1>1, <1>3, TailIs
<1>5. ASSUME NEW i
      PROVE  /\ \A n : LastFor(rest, i, n) => LastFor(toEngine, i, n + 1) /\ rest[n] = toEngine[n + 1]
             /\ (\A n \in DOMAIN rest : rest[n].id # i) /\ f.id = i => LastFor(toEngine, i, 1)
             /\ (\A n \in DOMAIN rest : rest[n].id # i) /\ f.id # i =>
                  \A n \in DOMAIN toEngine : toEngine[n].id # i
  <2>1. toEngine \in Seq(Frames) /\ toEngine # <<>>
    BY <1>1, <1>3
  <2>2. ASSUME NEW n, LastFor(rest, i, n)
        PROVE  LastFor(toEngine, i, n + 1) /\ rest[n] = toEngine[n + 1]
    BY <2>1, <2>2, LastInTail
  <2>3. ASSUME \A n \in DOMAIN rest : rest[n].id # i
        PROVE  /\ f.id = i => LastFor(toEngine, i, 1)
               /\ f.id # i => \A n \in DOMAIN toEngine : toEngine[n].id # i
    BY <2>1, <2>3, LastWasHead
  <2> QED
    BY <2>2, <2>3
<1> HIDE DEF f, rest, next
<1>6. f.id \in Ids /\ f.c \in Clusters /\ next \in {NoSub} \cup Stage
  BY <1>3, <1>4 DEF Frames, Stage, TypeOK, next
<1>7. /\ engine'[f.id] = next /\ engine' \in [Ids -> {NoSub} \cup Stage]
      /\ \A i \in Ids : i # f.id => engine'[i] = engine[i]
  BY <1>1, <1>3, <1>6 DEF TypeOK
<1>8. (next.at # "none" <=> f.type # "unsub") /\ (next.at # "none" => next.c = f.c)
  BY DEF NoSub, next
<1>9. ASSUME NEW i \in Ids, NEW c, Names(subs, toEngine, i, c)' PROVE Names(subs, toEngine, i, c)
  <2>1. \/ \E n \in DOMAIN subs : subs[n].id = i /\ subs[n].c = c
        \/ \E n \in DOMAIN rest : rest[n].id = i /\ rest[n].c = c
        \/ engine'[i].at # "none" /\ engine'[i].c = c
    BY <1>1, <1>2, <1>9 DEF Names
  <2>2. CASE \E n \in DOMAIN subs : subs[n].id = i /\ subs[n].c = c
    BY <2>2 DEF Names
  <2>3. CASE \E n \in DOMAIN rest : rest[n].id = i /\ rest[n].c = c
    BY <1>4, <2>3 DEF Names
  <2>4. CASE engine'[i].at # "none" /\ engine'[i].c = c
    <3>1. CASE i = f.id
      BY <1>4, <1>7, <1>8, <2>4, <3>1 DEF Names
    <3>2. CASE i # f.id
      BY <1>7, <2>4, <3>2 DEF Names
    <3> QED
      BY <3>1, <3>2
  <2> QED
    BY <2>1, <2>2, <2>3, <2>4
<1>10. ASSUME NEW i \in Ids PROVE OneCluster(subs, toEngine, ids, i)'
  <2>1. OneCluster(subs, toEngine, ids, i)
    BY <1>3 DEF Wire
  <2> QED
    BY <1>2, <1>9, <2>1 DEF OneCluster
<1>11. ASSUME NEW i \in Ids PROVE Told(subs, toEngine, i)'
  <2>1. Told(subs, toEngine, i)
    BY <1>3 DEF Wire
  <2>2. ASSUME NEW n, LastFor(rest, i, n) PROVE rest[n].type # "unsub" <=> Wants(subs, i)
    BY <1>5, <2>1, <2>2 DEF Told
  <2>3. ASSUME \A n \in DOMAIN rest : rest[n].id # i
        PROVE  engine'[i].at # "none" <=> Wants(subs, i)
    <3>1. CASE f.id = i
      <4>1. LastFor(toEngine, i, 1) /\ toEngine[1] = f
        BY <1>4, <1>5, <2>3, <3>1
      <4>2. f.type # "unsub" <=> Wants(subs, i)
        BY <2>1, <4>1 DEF Told
      <4> QED
        BY <1>7, <1>8, <3>1, <4>2
    <3>2. CASE f.id # i
      <4>1. \A n \in DOMAIN toEngine : toEngine[n].id # i
        BY <1>5, <2>3, <3>2
      <4> QED
        BY <1>7, <2>1, <3>2, <4>1 DEF Told
    <3> QED
      BY <3>1, <3>2
  <2> QED
    BY <1>1, <1>2, <2>2, <2>3 DEF Told, Wants, LastFor
<1>12. Wire(subs, toEngine, ids)'
  BY <1>1, <1>2, <1>3, <1>4, <1>10, <1>11 DEF Wire, Once
<1>13. TypeOK'
  BY <1>1, <1>3, <1>4, <1>7 DEF TypeOK, ClientSame, wire, Mounted
<1> QED
  BY <1>1, <1>12, <1>13, SameClient

LEMMA ChangeStep ==
  ASSUME Inv, NEW c \in Clusters, Change(c)
  PROVE  Inv'
<1>1. /\ \A d \in Clusters : version[d] < MaxVersion
      /\ version' = [version EXCEPT ![c] = @ + 1]
      /\ ClientSame /\ UNCHANGED <<toEngine, engine, ends>>
  BY DEF Change
<1>2. TypeOK /\ Wire(subs, toEngine, ids)
  BY DEF Inv
<1>3. version' \in [Clusters -> Versions]
  <2>1. version[c] + 1 \in Versions
    BY <1>1, <1>2, BoundsAreNat DEF TypeOK, Versions
  <2> QED
    BY <1>1, <1>2, <2>1 DEF TypeOK
<1>4. TypeOK'
  BY <1>1, <1>2, <1>3 DEF TypeOK, ClientSame, wire, Mounted
<1>5. Wire(subs, toEngine, ids)'
  <2>1. Wire(subs', toEngine', ids') /\ UNCHANGED sock
    BY <1>1, <1>2 DEF ClientSame, wire
  <2> QED
    BY <1>1, <2>1, WireMoves
<1> QED
  BY <1>1, <1>4, <1>5, SameClient

(* A frame is handled: by the pages and the background stream whose id it has,
   and those hold the cluster the engine streams under that id. *)
LEMMA HandleStep ==
  ASSUME Inv, NEW i \in Ids, engine[i].at # "none", NEW f, Handle(f),
         f.id = i, f.c = engine[i].c, ForCluster(f, engine[i].c),
         engine' \in [Ids -> {NoSub} \cup Stage], ends' \in 0 .. MaxEnds, version' = version,
         \A j \in Ids : engine'[j].c = engine[j].c /\ (engine'[j].at = "none" <=> engine[j].at = "none")
  PROVE  Inv'
<1> DEFINE mine == {h \in Hooks : Mine(h, f)}
           conn == {c \in Clusters : bg[c].on /\ bg[c].id = f.id}
<1>1. UNCHANGED <<sock, gen>> /\ UNCHANGED <<subs, shown, leaving, forgotten, ids>>
  BY DEF Handle, wire
<1>2. /\ TypeOK /\ Wire(subs, toEngine, ids) /\ toEngine \in Seq(Frames)
      /\ subs \in Seq(Spec0) /\ Once(subs)
  BY DEF Inv, Wire
<1>3. engine[i] \in Stage /\ engine[i].c \in Clusters
  BY <1>2 DEF TypeOK, NoSub, Stage
<1>4. sock = "open"
  BY <1>2 DEF Wire, NoSub
<1>5. Wire(subs, toEngine, ids)' /\ toEngine' \in Seq(Frames)
  <2>1. CASE Rotated(f) /\ toEngine' = Out(<<Frame("resync", f)>>)
    <3>1. /\ Frame("resync", f) \in Frames /\ Frame("resync", f).id = i
          /\ Frame("resync", f).c = engine[i].c /\ Frame("resync", f).type = "resync"
      BY <1>3 DEF Frame, Frames
    <3>2. toEngine' = Append(toEngine, Frame("resync", f))
      BY <1>2, <1>4, <2>1, <3>1, OutIs
    <3>3. Wants(subs, i) /\ Names(subs, toEngine, i, engine[i].c)
      BY <2>1 DEF Rotated, Wants, Names
    <3>4. Wire(subs, Append(toEngine, Frame("resync", f)), ids)
      BY <1>2, <1>3, <1>4, <3>1, <3>3, Resyncs
    <3>5. Wire(subs', toEngine', ids')
      BY <1>1, <3>2, <3>4
    <3>6. Wire(subs, toEngine, ids)'
      BY <1>1, <1>4, <3>5, WireMoves
    <3> QED
      BY <3>5, <3>6 DEF Wire
  <2>2. CASE toEngine' = toEngine
    <3>1. Wire(subs', toEngine', ids')
      BY <1>1, <1>2, <2>2
    <3>2. Wire(subs, toEngine, ids)'
      BY <1>1, <1>4, <3>1, WireMoves
    <3> QED
      BY <1>2, <2>2, <3>2
  <2> QED
    BY <2>1, <2>2 DEF Handle
<1>6. CASE Rotated(f) /\ UNCHANGED <<hook, flush, bg, cache>>
  <2>1. TypeOK'
    BY <1>1, <1>2, <1>5, <1>6 DEF TypeOK, Mounted
  <2>2. ClientSame
    BY <1>1, <1>6 DEF ClientSame, wire
  <2> QED
    BY <1>5, <2>1, <2>2, SameClient
<1>7. CASE ~ Rotated(f)
  <2>1. /\ hook' = [h \in Hooks |-> IF h \in mine THEN OnHook(hook[h], f) ELSE hook[h]]
        /\ flush' = flush \cup mine
        /\ bg' = [c \in Clusters |-> IF c \in conn THEN OnConn(bg[c], f) ELSE bg[c]]
        /\ cache' = [c \in Clusters |->
             IF c \in conn THEN WroteThrough(cache[c], bg[c], f)
             ELSE IF f.type = "sync" /\ \E h \in mine : hook[h].c = c
               THEN Entry((CHOOSE k \in {hook'[h] : h \in mine} : k.c = c).store, TRUE)
             ELSE cache[c]]
    BY <1>7 DEF Handle
  <2>2. ASSUME NEW c \in Clusters, NEW s \in ToSet(subs), s.id = i, s.c = c PROVE c = engine[i].c
    <3>1. Names(subs, toEngine, i, c) /\ Names(subs, toEngine, i, engine[i].c)
      BY <1>2, <2>2, SubsIs DEF Names
    <3> QED
      BY <1>2, <1>3, <3>1 DEF Wire, OneCluster
  <2>3. ASSUME NEW h \in Hooks, h \in mine PROVE hook[h].c = engine[i].c /\ hook[h].c # None
    <3>1. hook[h].c # None /\ hook[h].id = i
      BY <2>3 DEF Mine
    <3>2. Sub(hook[h]) \in ToSet(subs) /\ hook[h].c \in Clusters
      BY <3>1, Own DEF Inv, Holds
    <3> QED
      BY <2>2, <3>1, <3>2 DEF Sub
  <2>4. ASSUME NEW c \in Clusters, c \in conn PROVE c = engine[i].c
    <3>1. [id |-> bg[c].id, c |-> c] \in ToSet(subs) /\ bg[c].id = i
      BY <2>4 DEF Inv, Keeps
    <3> QED
      BY <2>2, <3>1
  <2> HIDE DEF mine, conn
  <2>5. ASSUME NEW h \in Hooks
        PROVE  /\ hook'[h] \in Hook /\ hook'[h].c = hook[h].c /\ hook'[h].id = hook[h].id
               /\ Of(hook'[h].store, hook[h].c) /\ Of(hook'[h].buffer, hook[h].c)
               /\ hook'[h].synced /\ hook'[h].connected => hook'[h].here
               /\ h \notin mine => hook'[h] = hook[h]
               /\ hook[h] = Unmounted => hook'[h] = Unmounted
    <3>1. /\ hook[h] \in Hook /\ Of(hook[h].store, hook[h].c) /\ Of(hook[h].buffer, hook[h].c)
          /\ hook[h].synced /\ hook[h].connected => hook[h].here
      BY <1>2 DEF Inv, HookRows, Flags, TypeOK
    <3>2. CASE h \in mine
      <4>1. hook'[h] = OnHook(hook[h], f) /\ hook[h].c = engine[i].c /\ hook[h] # Unmounted
        BY <2>1, <2>3, <3>2, UnmountedIs
      <4>2. /\ OnHook(hook[h], f) \in Hook
            /\ OnHook(hook[h], f).c = hook[h].c /\ OnHook(hook[h], f).id = hook[h].id
            /\ OnHook(hook[h], f).connected = hook[h].connected
            /\ Of(OnHook(hook[h], f).store, hook[h].c) /\ Of(OnHook(hook[h], f).buffer, hook[h].c)
            /\ OnHook(hook[h], f).synced /\ hook[h].connected => OnHook(hook[h], f).here
        BY <3>1, <4>1, OnHookIs
      <4> QED
        BY <3>2, <4>1, <4>2
    <3>3. CASE h \notin mine
      BY <2>1, <3>1, <3>3
    <3> QED
      BY <3>2, <3>3
  <2>6. ASSUME NEW c \in Clusters
        PROVE  /\ bg'[c] \in Conn /\ bg'[c].on = bg[c].on /\ bg'[c].id = bg[c].id
               /\ Of(bg'[c].store, c) /\ Of(bg'[c].buffer, c)
    <3>1. bg[c] \in Conn /\ Of(bg[c].store, c) /\ Of(bg[c].buffer, c)
      BY <1>2 DEF Inv, ConnRows, TypeOK
    <3>2. CASE c \in conn
      BY <2>1, <2>4, <3>1, <3>2, OnConnIs
    <3>3. CASE c \notin conn
      BY <2>1, <3>1, <3>3
    <3> QED
      BY <3>2, <3>3
  <2>7. ASSUME NEW c \in Clusters PROVE CacheOf(cache'[c], c)
    <3>1. bg[c] \in Conn /\ Of(bg[c].store, c) /\ Of(bg[c].buffer, c) /\ CacheOf(cache[c], c)
      BY <1>2 DEF Inv, ConnRows, TypeOK
    <3>2. CASE c \in conn
      <4>1. cache'[c] = WroteThrough(cache[c], bg[c], f) /\ ForCluster(f, c)
        BY <2>1, <2>4, <3>2
      <4> QED
        BY <3>1, <4>1, WroteThroughIs
    <3>3. CASE c \notin conn /\ \E h \in mine : hook[h].c = c
      <4> DEFINE k == CHOOSE k \in {hook'[h] : h \in mine} : k.c = c
      <4>1. \A h \in mine : h \in Hooks
        BY DEF mine
      <4>2. \E k0 \in {hook'[h] : h \in mine} : k0.c = c
        BY <2>5, <3>3, <4>1
      <4>3. k \in {hook'[h] : h \in mine} /\ k.c = c
        BY <4>2
      <4> HIDE DEF k
      <4>4. k.store \in Rows /\ Of(k.store, c)
        <5>1. PICK g \in Hooks : k = hook'[g]
          BY <4>1, <4>3
        <5> QED
          BY <2>5, <4>3, <5>1 DEF Hook
      <4>5. CacheOf(Entry(k.store, TRUE), c)
        BY <4>4, EntryIs DEF CacheOf
      <4>6. cache'[c] = Entry(k.store, TRUE) \/ cache'[c] = cache[c]
        BY <2>1, <3>3 DEF k
      <4> QED
        BY <3>1, <4>5, <4>6
    <3>4. CASE c \notin conn /\ ~ \E h \in mine : hook[h].c = c
      BY <2>1, <3>1, <3>4
    <3> QED
      BY <3>2, <3>3, <3>4
  <2>8. TypeOK'
    <3>1. hook' \in [Hooks -> Hook] /\ bg' \in [Clusters -> Conn]
      BY <2>1, <2>5, <2>6
    <3>2. cache' \in [Clusters -> Cached]
      BY <2>1, <2>7 DEF CacheOf
    <3>3. flush' \subseteq Mounted'
      <4>1. mine \subseteq Hooks
        BY DEF mine
      <4> QED
        BY <1>2, <2>1, <2>3, <2>5, <4>1 DEF TypeOK, Mounted
    <3> QED
      BY <1>1, <1>2, <1>5, <3>1, <3>2, <3>3 DEF TypeOK
  <2>9. ASSUME NEW h \in Hooks PROVE (Holds(h) /\ HookRows(h) /\ Flags(h))'
    <3>1. Holds(h) /\ HookRows(h) /\ Flags(h)
      BY DEF Inv
    <3>2. Holds(h)'
      BY <1>1, <2>5, <2>6, <3>1, HoldsOn
    <3>3. HookRows(h)'
      BY <1>1, <2>5, <3>1 DEF HookRows
    <3>4. h \notin flush' => shown'[h] = Rendered(hook'[h])
      BY <1>1, <2>1, <2>5, <3>1 DEF Flags
    <3>5. Flags(h)'
      BY <1>1, <1>4, <2>5, <3>1, <3>4 DEF Flags
    <3> QED
      BY <3>2, <3>3, <3>5
  <2>10. ASSUME NEW c \in Clusters PROVE (Keeps(c) /\ ConnRows(c))'
    <3>1. Keeps(c)
      BY DEF Inv
    <3> QED
      BY <1>1, <2>6, <2>7, <3>1 DEF Keeps, ConnRows
  <2>11. ASSUME NEW s \in ToSet(subs') PROVE Held(s)'
    <3>1. Held(s) /\ s.c \in Clusters
      BY <1>1, Fresh DEF Inv
    <3> QED
      BY <2>5, <2>6, <3>1 DEF Held
  <2>12. Quiet'
    <3>1. sock' # "connecting"
      BY <1>1, <1>4
    <3> QED
      BY <1>1, <2>6, <3>1 DEF Inv, Quiet
  <2>13. LetGo'
    BY <1>1 DEF Inv, LetGo
  <2> QED
    BY <1>5, <2>8, <2>9, <2>10, <2>11, <2>12, <2>13 DEF Inv
<1> QED
  BY <1>6, <1>7 DEF Handle

(* A subscription moves on, and stays one. *)
Moves ==
  /\ engine' \in [Ids -> {NoSub} \cup Stage]
  /\ \A j \in Ids : engine'[j].c = engine[j].c /\ (engine'[j].at = "none" <=> engine[j].at = "none")

LEMMA SayStep ==
  ASSUME Inv, NEW i \in Ids, engine[i].at # "none", NEW type, NEW v \in Versions, Say(type, i, v),
         Moves, ends' \in 0 .. MaxEnds, version' = version
  PROVE  Inv'
<1> DEFINE f == [type |-> type, id |-> i, c |-> engine[i].c, row |-> [c |-> engine[i].c, v |-> v]]
<1>1. Handle(f)
  BY DEF Say
<1>2. engine[i].c \in Clusters
  <2>1. engine \in [Ids -> {NoSub} \cup Stage]
    BY DEF Inv, TypeOK
  <2> QED
    BY <2>1 DEF NoSub, Stage
<1>3. f.id = i /\ f.c = engine[i].c /\ ForCluster(f, engine[i].c)
  BY <1>2 DEF ForCluster, Row
<1> HIDE DEF f
<1> QED
  BY <1>1, <1>3, HandleStep DEF Moves

LEMMA StreamStep ==
  ASSUME Inv, NEW i \in Ids, Stream(i) \/ End(i)
  PROVE  Inv'
<1>1. /\ engine \in [Ids -> {NoSub} \cup Stage] /\ version \in [Clusters -> Versions]
      /\ ends \in 0 .. MaxEnds /\ 0 \in Versions /\ MaxEnds \in Nat
  BY BoundsAreNat DEF Inv, TypeOK, Versions
<1>2. ASSUME engine[i].at # "none"
      PROVE  engine[i] \in Stage /\ engine[i].sent \in Versions /\ version[engine[i].c] \in Versions
  <2>1. engine[i] \in Stage
    BY <1>1, <1>2 DEF NoSub
  <2> QED
    BY <1>1, <2>1 DEF Stage
<1>3. ASSUME NEW new \in Stage, engine[i].at # "none", new.c = engine[i].c,
             engine' = [engine EXCEPT ![i] = new]
      PROVE  Moves
  <2>1. engine'[i] = new /\ (\A j \in Ids : j # i => engine'[j] = engine[j])
        /\ engine' \in [Ids -> {NoSub} \cup Stage]
    BY <1>1, <1>3
  <2>2. new.at # "none"
    BY DEF Stage
  <2> QED
    BY <1>3, <2>1, <2>2 DEF Moves
<1>4. ASSUME engine[i].at # "none",
             NEW at \in {"start", "begun", "framed", "live", "rotated", "ended"}, NEW sent \in Versions,
             \/ engine' = [engine EXCEPT ![i].at = at, ![i].sent = sent]
             \/ engine' = [engine EXCEPT ![i].at = at]
             \/ engine' = [engine EXCEPT ![i].sent = sent]
      PROVE  Moves
  <2>1. /\ [engine[i] EXCEPT !.at = at, !.sent = sent] \in Stage
        /\ [engine[i] EXCEPT !.at = at] \in Stage /\ [engine[i] EXCEPT !.sent = sent] \in Stage
    BY <1>2, <1>4 DEF Stage
  <2>2. /\ [engine[i] EXCEPT !.at = at, !.sent = sent].c = engine[i].c
        /\ [engine[i] EXCEPT !.at = at].c = engine[i].c
        /\ [engine[i] EXCEPT !.sent = sent].c = engine[i].c
    BY <1>2, <1>4 DEF Stage
  <2>3. CASE engine' = [engine EXCEPT ![i].at = at, ![i].sent = sent]
    <3>1. engine' = [engine EXCEPT ![i] = [engine[i] EXCEPT !.at = at, !.sent = sent]]
      BY <1>1, <2>3
    <3> QED
      BY <1>3, <1>4, <2>1, <2>2, <3>1
  <2>4. CASE engine' = [engine EXCEPT ![i].at = at]
    BY <1>3, <1>4, <2>1, <2>2, <2>4
  <2>5. CASE engine' = [engine EXCEPT ![i].sent = sent]
    BY <1>3, <1>4, <2>1, <2>2, <2>5
  <2> QED
    BY <1>4, <2>3, <2>4, <2>5
<1> DEFINE now == version[engine[i].c]
<1>6. ASSUME engine[i].at = "start", Say("begin", i, 0), UNCHANGED <<version, ends>>,
             engine' = [engine EXCEPT ![i].at = "begun", ![i].sent = now]
      PROVE  Inv'
  BY <1>1, <1>2, <1>4, <1>6, SayStep
<1>7. ASSUME engine[i].at = "start", Say("items", i, now), UNCHANGED <<version, ends>>,
             engine' = [engine EXCEPT ![i].sent = now]
      PROVE  Inv'
  BY <1>1, <1>2, <1>4, <1>7, SayStep
<1>8. ASSUME engine[i].at = "begun", Say("items", i, engine[i].sent), UNCHANGED <<version, ends>>,
             engine' = [engine EXCEPT ![i].at = "framed"]
      PROVE  Inv'
  BY <1>1, <1>2, <1>4, <1>8, SayStep
<1>9. ASSUME engine[i].at = "framed", Say("sync", i, 0), UNCHANGED <<version, ends>>,
             engine' = [engine EXCEPT ![i].at = "live"]
      PROVE  Inv'
  BY <1>1, <1>2, <1>4, <1>9, SayStep
<1>10. ASSUME engine[i].at = "live", Say("delta", i, now), UNCHANGED <<version, ends>>,
              engine' = [engine EXCEPT ![i].sent = now]
       PROVE  Inv'
  BY <1>1, <1>2, <1>4, <1>10, SayStep
<1>11. ASSUME End(i) PROVE Inv'
  <2>1. /\ ends < MaxEnds /\ ends' = ends + 1 /\ UNCHANGED version
        /\ \E why \in {"forbidden", "disconnected", "rotated"} :
             /\ engine[i].at = "start" \/ (engine[i].at = "live" /\ why # "forbidden")
             /\ Say(why, i, 0)
             /\ engine' = [engine EXCEPT ![i].at = IF why = "rotated" THEN why ELSE "ended", ![i].sent = 0]
    BY <1>11 DEF End
  <2>2. PICK why \in {"forbidden", "disconnected", "rotated"} :
             /\ engine[i].at = "start" \/ (engine[i].at = "live" /\ why # "forbidden")
             /\ Say(why, i, 0)
             /\ engine' = [engine EXCEPT ![i].at = IF why = "rotated" THEN why ELSE "ended", ![i].sent = 0]
    BY <2>1
  <2> DEFINE at == IF why = "rotated" THEN why ELSE "ended"
  <2>3. engine[i].at # "none" /\ at \in {"start", "begun", "framed", "live", "rotated", "ended"}
    BY <2>2
  <2>4. Moves
    BY <1>1, <1>4, <2>2, <2>3
  <2>5. ends' \in 0 .. MaxEnds
    BY <1>1, <2>1
  <2> HIDE DEF at
  <2> QED
    BY <1>1, <2>1, <2>2, <2>3, <2>4, <2>5, SayStep
<1> QED
  BY <1>6, <1>7, <1>8, <1>9, <1>10, <1>11 DEF Stream

-----------------------------------------------------------------------------
(* The invariant *)

LEMMA InitInv ==
  ASSUME Init
  PROVE  Inv
<1>1. /\ sock = "connecting" /\ gen = 0 /\ subs = <<>> /\ toEngine = <<>>
      /\ engine = [i \in Ids |-> NoSub] /\ version = [c \in Clusters |-> 0]
      /\ hook = [h \in Hooks |-> Unmounted] /\ flush = {}
      /\ shown = [h \in Hooks |-> Rendered(Unmounted)]
      /\ bg = [c \in Clusters |-> NoConn] /\ cache = [c \in Clusters |-> NoEntry]
      /\ leaving = None /\ forgotten = {} /\ ids = 0 /\ ends = 0
  BY DEF Init
<1>2. <<>> \in Seq(Spec0) /\ <<>> \in Seq(Frames) /\ DOMAIN subs = {} /\ DOMAIN toEngine = {}
  BY <1>1, EmptySeq
<1>3. {} \in Rows /\ NoEntry \in Cached /\ NoEntry.rows = {} /\ NoEntry.synced = FALSE
  BY DEF Rows, NoEntry, Cached
<1>4. TypeOK
  <2>1. {MaxVersion, MaxOpens, MaxIds, MaxEnds} \subseteq Nat /\ 0 \in Versions
    BY BoundsAreNat DEF Versions
  <2>2. hook \in [Hooks -> Hook] /\ shown \in [Hooks -> View]
    BY <1>1, UnmountedIs, RenderedIs
  <2>3. bg \in [Clusters -> Conn] /\ cache \in [Clusters -> Cached]
    BY <1>1, <1>3, NoConnIs
  <2>4. engine \in [Ids -> {NoSub} \cup Stage] /\ version \in [Clusters -> Versions]
    BY <1>1, <2>1
  <2> QED
    BY <1>1, <1>2, <2>1, <2>2, <2>3, <2>4 DEF TypeOK, Mounted
<1>5. Wire(subs, toEngine, ids)
  BY <1>1, <1>2 DEF Wire, Once, OneCluster, Names, NoSub
<1>6. ASSUME NEW h \in Hooks PROVE Holds(h) /\ HookRows(h) /\ Flags(h)
  BY <1>1, UnmountedIs, RenderedIs DEF Holds, HookRows, Flags, Of
<1>7. ASSUME NEW c \in Clusters PROVE Keeps(c) /\ ConnRows(c)
  BY <1>1, <1>3, NoConnIs DEF Keeps, ConnRows, CacheOf, Of
<1>8. ASSUME NEW s \in ToSet(subs) PROVE Held(s)
  BY <1>2 DEF ToSet
<1>9. Quiet /\ LetGo
  BY <1>1, NoneIsNoCluster DEF Quiet, LetGo
<1> QED
  BY <1>4, <1>5, <1>6, <1>7, <1>8, <1>9 DEF Inv

LEMMA NextInv ==
  ASSUME Inv, [Next]_vars
  PROVE  Inv'
<1>1. CASE UNCHANGED vars
  <2>1. ClientSame /\ UNCHANGED <<toEngine, engine, version, ends>>
    BY <1>1 DEF vars, ClientSame
  <2>2. UNCHANGED <<sock, gen>> /\ UNCHANGED <<subs, hook, flush, ids>>
    BY <2>1 DEF ClientSame, wire
  <2>3. TypeOK'
    BY <2>1 DEF Inv, TypeOK, ClientSame, wire, Mounted
  <2>4. Wire(subs, toEngine, ids)'
    <3>1. Wire(subs', toEngine', ids')
      BY <2>1, <2>2 DEF Inv
    <3> QED
      BY <2>1, <2>2, <3>1, WireMoves
  <2> QED
    BY <2>1, <2>3, <2>4, SameClient
<1>2. ASSUME NEW h \in Hooks, Unmount(h) \/ Flush(h) \/ \E c \in Clusters : Show(h, c) PROVE Inv'
  BY <1>2, UnmountStep, FlushStep, ShowStep
<1>3. ASSUME NEW c \in Clusters, Connect(c) \/ Disconnect(c) \/ RemoteDisconnect(c) \/ Change(c)
      PROVE  Inv'
  BY <1>3, ConnectStep, DisconnectStep, ChangeStep
<1> QED
  BY <1>1, <1>2, <1>3, OpenStep, CloseStep, ReconnectStep, TakeStep, StreamStep DEF Next

THEOREM Invariance == Spec => []Inv
<1>1. Init => Inv
  BY InitInv
<1>2. Inv /\ [Next]_vars => Inv'
  BY NextInv
<1> QED
  BY <1>1, <1>2, PTL DEF Spec

-----------------------------------------------------------------------------
(* The theorems *)

(* Refs, views, subscriptions and frames keep their shape, and only a mounted
   page has a flush pending (useResourceStream.ts, the cleanup cancels it). *)
THEOREM TypeCorrect == Spec => []TypeOK
<1>1. Inv => TypeOK
  BY DEF Inv
<1> QED
  BY <1>1, Invariance, PTL

(* Whenever the wire to the engine is empty, the engine streams what the client
   has subscribed and nothing else, over any number of sockets and whatever was
   subscribed, dropped and resynced in the meantime (ws.ts). *)
THEOREM StreamsAgree == Spec => []SubsAgree
<1>1. ASSUME Inv, sock = "open", toEngine = <<>>
      PROVE  {[id |-> i, c |-> engine[i].c] : i \in {j \in Ids : engine[j].at # "none"}} = ToSet(subs)
  <2>1. subs \in Seq(Spec0) /\ Once(subs) /\ Wire(subs, toEngine, ids) /\ TypeOK
    BY <1>1 DEF Inv, Wire
  <2>2. ASSUME NEW i \in Ids PROVE engine[i].at # "none" <=> Wants(subs, i)
    <3>1. \A n \in DOMAIN toEngine : toEngine[n].id # i
      BY <1>1
    <3> QED
      BY <1>1, <2>1, <3>1 DEF Wire, Told
  <2>3. ASSUME NEW i \in Ids, engine[i].at # "none" PROVE [id |-> i, c |-> engine[i].c] \in ToSet(subs)
    <3>1. PICK n \in DOMAIN subs : subs[n].id = i
      BY <2>2, <2>3 DEF Wants
    <3>2. subs[n] \in ToSet(subs)
      BY <2>1, SubsIs
    <3>3. subs[n].c \in Clusters /\ subs[n] = [id |-> i, c |-> subs[n].c]
      BY <1>1, <3>1, <3>2, Fresh DEF Sub
    <3>4. engine[i].c \in Clusters
      BY <2>1, <2>3 DEF TypeOK, NoSub, Stage
    <3>5. Names(subs, toEngine, i, subs[n].c) /\ Names(subs, toEngine, i, engine[i].c)
      BY <2>3, <3>1 DEF Names
    <3>6. subs[n].c = engine[i].c
      BY <2>1, <3>3, <3>4, <3>5 DEF Wire, OneCluster
    <3> QED
      BY <3>2, <3>3, <3>6
  <2>4. ASSUME NEW s \in ToSet(subs)
        PROVE  s.id \in Ids /\ engine[s.id].at # "none" /\ s = [id |-> s.id, c |-> engine[s.id].c]
    <3>1. s.id \in Ids /\ s.c \in Clusters /\ s = [id |-> s.id, c |-> s.c]
      BY <1>1, Fresh DEF Sub
    <3>2. PICK n \in DOMAIN subs : subs[n] = s
      BY <2>1, SubsIs
    <3>3. engine[s.id].at # "none"
      BY <2>2, <3>1, <3>2 DEF Wants
    <3>4. [id |-> s.id, c |-> engine[s.id].c] \in ToSet(subs)
      BY <2>3, <3>1, <3>3
    <3>5. s = [id |-> s.id, c |-> engine[s.id].c]
      BY <2>1, <3>4, SubsIs
    <3> QED
      BY <3>1, <3>3, <3>5
  <2> QED
    BY <2>3, <2>4
<1>2. Inv => SubsAgree
  BY <1>1 DEF SubsAgree
<1> QED
  BY <1>2, Invariance, PTL

(* A page never says its rows are live unless the snapshot behind them came over
   the socket that is open: rows from the cache, and rows of an earlier socket,
   are not live (useResourceStream.ts applyStatusTransition). *)
THEOREM LiveMeansThisSocket == Spec => []LiveIsThisSocket
<1>1. Inv => LiveIsThisSocket
  BY DEF Inv, Flags, LiveIsThisSocket
<1> QED
  BY <1>1, Invariance, PTL

(* Though every listener is given every frame, and a page goes from cluster to
   cluster through the cache, rows are only ever held under their own cluster
   (useResourceStream.ts and clusterConnections.ts, the guard on the id). *)
THEOREM RowsStayHome == Spec => []NoForeignRows
<1>1. Inv => NoForeignRows
  BY DEF Inv, HookRows, ConnRows, CacheOf, Of, NoForeignRows
<1> QED
  BY <1>1, Invariance, PTL

(* A cluster disconnected here or in another window is asked for by nobody in
   this window once its pages have left, until it is opened again
   (clusterConnections.ts, useRemoteDisconnects.ts). *)
THEOREM DisconnectLetsGo == Spec => []LetGo
<1>1. Inv => LetGo
  BY DEF Inv
<1> QED
  BY <1>1, Invariance, PTL

=============================================================================
