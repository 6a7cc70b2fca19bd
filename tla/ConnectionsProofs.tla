-------------------------- MODULE ConnectionsProofs --------------------------
(***************************************************************************)
(* Theorems about Connections, for any clusters, configs, streams and      *)
(* reads, and any contents of the kubeconfigs; and, at the end, about the  *)
(* Channels that are open over a connection, for any views, queue size and *)
(* shells, and any number of channels, sockets and inputs.                 *)
(***************************************************************************)
EXTENDS Connections, Channels, TLAPS

-----------------------------------------------------------------------------
(* The inductive invariant *)

Holds(u) == user[u].pc \in {"make", "got", "join", "open"}

(* Who makes a pool has the registry's lock, and nobody else has the pool. *)
Making(u) ==
  /\ user[u].pc = "make" <=> rlock = u
  /\ user[u].pc = "make" =>
       /\ ~ pool[user[u].pool].closed
       /\ registry[user[u].cluster] = NoPool
       /\ \A c \in Clusters : registry[c] # user[u].pool
       /\ \A t \in Threads : thread[t].closing # user[u].pool
       /\ \A v \in Users : Holds(v) /\ user[v].pool = user[u].pool => v = u

(* The pool somebody was given is in the registry, being closed, or closed. *)
Given(u) ==
  /\ Holds(u) => user[u].pool \in PoolIds
  /\ user[u].pc \in {"for", "told"} => user[u].pool = NoPool
  /\ user[u].pc \in {"got", "join", "open"} =>
       \/ pool[user[u].pool].closed
       \/ registry[user[u].cluster] = user[u].pool
       \/ \E t \in Threads : thread[t].closing = user[u].pool
  /\ user[u].pc = "open" /\ u \notin late => ~ pool[user[u].pool].closed \/ Awaited(u)

(* A pool in the registry is one cluster's, and is not being closed. *)
Registered(c) ==
  registry[c] # NoPool =>
    /\ ~ pool[registry[c]].closed
    /\ \A t \in Threads : thread[t].closing # registry[c]
    /\ \A d \in Clusters : registry[d] = registry[c] => d = c

(* A Load that has begun has no hooks to run yet. *)
Loading(t) ==
  thread[t].pc \in {"compare", "swap"} =>
    thread[t].close = {} /\ thread[t].retire = {} /\ thread[t].closing = NoPool

(* Subscribers are visited only of a pool that has been marked. *)
Visiting(t) ==
  thread[t].todo # {} => thread[t].closing # NoPool /\ pool[thread[t].closing].closed

Pools ==
  /\ TypeOK
  /\ \A u \in Users : Making(u) /\ Given(u)
  /\ \A c \in Clusters : Registered(c)
  /\ \A t \in Threads : Loading(t) /\ Visiting(t)

(* p is the pool of c, in the registry or about to be. *)
PoolOf(c, p) ==
  \/ p # NoPool /\ registry[c] = p
  \/ \E u \in Users : user[u].pc = "make" /\ user[u].cluster = c /\ user[u].pool = p

(* A pool that is not built from the config its cluster has now is going to be retired. *)
Owed(c) ==
  \A p \in PoolIds : PoolOf(c, p) =>
    /\ pool[p].cfg \in Configs
    /\ c \notin skipped /\ pool[p].cfg # entries[c] => \E t \in Threads : c \in thread[t].close \cup thread[t].retire

Inv == Pools /\ ConnectedListed /\ \A c \in Clusters : Owed(c)

-----------------------------------------------------------------------------
(* Helpers of the steps *)

LEMMA Types ==
  ASSUME TypeOK
  PROVE  /\ \A u \in Users : user[u].pc = "idle" \/ user[u] \in Busy
         /\ \A c \in Clusters : registry[c] \in PoolIds \cup {NoPool}
         /\ \A p \in PoolIds : p # NoPool /\ pool[p] \in [cfg : Configs \cup {Gone}, closed : BOOLEAN]
         /\ \A t \in Threads : thread[t] \in Doing
BY BoundsNat DEF TypeOK, PoolIds, NoPool, Busy

LEMMA RestingOK ==
  /\ Resting \in Doing /\ Resting.pc = "idle"
  /\ Resting.close = {} /\ Resting.retire = {} /\ Resting.closing = NoPool /\ Resting.todo = {}
BY BoundsNat DEF Resting, Doing, Content

LEMMA InitInv == Init => Inv
<1> SUFFICES ASSUME Init PROVE Inv
  OBVIOUS
<1>1. TypeOK
  <2>1. thread \in [Threads -> Doing] /\ pool \in [PoolIds -> [cfg : Configs \cup {Gone}, closed : BOOLEAN]]
    BY RestingOK DEF Init, Unused
  <2>2. file \in Content /\ entries \in Content
    BY StartsAreContent DEF Init, Content
  <2>3. user \in [Users -> [pc : {"idle"}] \cup Busy]
    BY DEF Init, Rest
  <2>4. registry \in [Clusters -> PoolIds \cup {NoPool}] /\ edits \in 0 .. MaxEdits
    BY BoundsNat DEF Init
  <2>5. /\ readable \in BOOLEAN /\ dirty \in BOOLEAN /\ outrun \in BOOLEAN /\ missed \in BOOLEAN
        /\ listed \subseteq Files /\ watched \subseteq Files /\ event \subseteq Files
        /\ late \subseteq Users
        /\ raced \subseteq Loaders /\ connected \subseteq Clusters /\ skipped \subseteq Clusters
        /\ rlock \in Users \cup {Nobody}
    BY Zenon DEF Init
  <2> QED
    BY <2>1, <2>2, <2>3, <2>4, <2>5, Zenon DEF TypeOK
<1>2. \A u \in Users : Making(u) /\ Given(u)
  BY NobodyIsNoUser DEF Init, Making, Given, Holds, Rest
<1>3. \A c \in Clusters : Registered(c) /\ Owed(c)
  BY BoundsNat DEF Init, Registered, Owed, PoolOf, Rest
<1>4. \A t \in Threads : Loading(t) /\ Visiting(t)
  BY DEF Init, Loading, Visiting, Resting
<1>5. ConnectedListed
  BY DEF Init, ConnectedListed
<1> QED
  BY <1>1, <1>2, <1>3, <1>4, <1>5 DEF Inv, Pools

(* A user goes on, in any way but into and out of the making of a pool; pools
   nobody has any more may be collected. *)
LEMMA UserMoves ==
  ASSUME Inv, ConnectedListed', connected' \subseteq Clusters,
         pool' \in [PoolIds -> [cfg : Configs \cup {Gone}, closed : BOOLEAN]],
         NEW u \in Users, NEW r \in [pc : {"idle"}] \cup Busy,
         user' = [user EXCEPT ![u] = r], user[u].pc # "make", r.pc # "make",
         UNCHANGED <<disk, watch, entries, registry, rlock, thread, ghost>>,
         late' \subseteq Users, late \subseteq late' \cup {u},
         \A p \in PoolIds : p \in InUse' => pool'[p] = pool[p],
         r.pc \in {"for", "told"} => r.pool = NoPool,
         r.pc \in {"got", "join", "open"} =>
           /\ r.pool \in PoolIds
           /\ \/ pool'[r.pool].closed
              \/ registry[r.cluster] = r.pool
              \/ \E t \in Threads : thread[t].closing = r.pool
           /\ \A v \in Users : user[v].pc = "make" => user[v].pool # r.pool,
         r.pc = "open" /\ u \notin late' =>
           \/ ~ pool'[r.pool].closed
           \/ \E t \in Threads : thread[t].closing = r.pool /\ u \in thread[t].todo
  PROVE  Inv'
<1>0. /\ UNCHANGED <<file, readable, listed, edits>> /\ UNCHANGED <<watched, event, dirty, missed>> /\ UNCHANGED <<entries, registry, rlock, thread>>
      /\ UNCHANGED <<raced, outrun, skipped>>
  BY DEF disk, watch, ghost
<1>1. TypeOK /\ user'[u] = r /\ \A v \in Users : v # u => user'[v] = user[v]
  BY DEF Inv, Pools, TypeOK
<1>9. TypeOK'
  BY <1>0, <1>1 DEF TypeOK
<1>2. ASSUME NEW v \in Users, Holds(v)' PROVE pool'[user'[v].pool] = pool[user'[v].pool]
  <2>1. user'[v].pool \in PoolIds
    BY <1>1, <1>2 DEF Inv, Pools, Given, Holds
  <2>2. user'[v].pool \in InUse'
    BY <1>2 DEF Holds, InUse
  <2> QED
    BY <2>1, <2>2
<1>3. ASSUME NEW c \in Clusters, registry[c] # NoPool PROVE pool'[registry[c]] = pool[registry[c]]
  BY <1>0, <1>1, <1>3, Types DEF InUse
<1>4. ASSUME NEW v \in Users PROVE Making(v)'
  <2>1. Making(v)
    BY DEF Inv, Pools
  <2>2. CASE v = u
    BY <1>0, <1>1, <2>1, <2>2 DEF Making
  <2>3. CASE v # u
    <3>1. user'[v] = user[v]
      BY <1>1, <2>3
    <3>2. user[v].pc = "make" => pool'[user[v].pool] = pool[user[v].pool]
      BY <1>2, <3>1 DEF Holds
    <3>3. ASSUME user[v].pc = "make", NEW w \in Users, Holds(w)', user'[w].pool = user[v].pool PROVE w = v
      <4>1. CASE w = u
        BY <1>1, <3>3, <4>1 DEF Holds
      <4>2. CASE w # u
        BY <1>1, <2>1, <3>3, <4>2 DEF Holds, Making
      <4> QED
        BY <4>1, <4>2
    <3> QED
      BY <1>0, <2>1, <3>1, <3>2, <3>3 DEF Making
  <2> QED
    BY <2>2, <2>3
<1>5. ASSUME NEW v \in Users PROVE Given(v)'
  <2>1. CASE v = u
    BY <1>0, <1>1, <2>1 DEF Given, Holds, Awaited
  <2>2. CASE v # u
    <3>1. user'[v] = user[v] /\ Given(v) /\ (v \in late => v \in late')
      BY <1>1, <2>2 DEF Inv, Pools
    <3>2. Holds(v) => pool'[user[v].pool] = pool[user[v].pool]
      BY <1>2, <3>1 DEF Holds
    <3> QED
      BY <1>0, <3>1, <3>2 DEF Given, Holds, Awaited
  <2> QED
    BY <2>1, <2>2
<1>6. ASSUME NEW c \in Clusters PROVE Registered(c)'
  BY <1>0, <1>3 DEF Inv, Pools, Registered
<1>7. ASSUME NEW t \in Threads PROVE Loading(t)' /\ Visiting(t)'
  <2>1. Loading(t) /\ Visiting(t) /\ thread[t] \in Doing
    BY <1>1, Types DEF Inv, Pools
  <2>2. thread[t].closing \in PoolIds => pool'[thread[t].closing] = pool[thread[t].closing]
    BY <1>0 DEF InUse
  <2> QED
    BY <1>0, <2>1, <2>2 DEF Loading, Visiting, Doing
<1>8. ASSUME NEW c \in Clusters PROVE Owed(c)'
  <2> SUFFICES ASSUME NEW p \in PoolIds, PoolOf(c, p)'
               PROVE  /\ pool'[p].cfg \in Configs
                      /\ c \notin skipped /\ pool'[p].cfg # entries[c] =>
                           \E t \in Threads : c \in thread[t].close \cup thread[t].retire
    BY <1>0 DEF Owed
  <2>1. PoolOf(c, p) /\ pool'[p] = pool[p]
    <3>1. CASE p # NoPool /\ registry[c] = p
      BY <1>0, <1>3, <3>1 DEF PoolOf
    <3>2. ASSUME NEW v \in Users, user'[v].pc = "make", user'[v].cluster = c, user'[v].pool = p
          PROVE  PoolOf(c, p) /\ pool'[p] = pool[p]
      <4>1. user'[v] = user[v]
        BY <1>1, <3>2
      <4> QED
        BY <1>2, <3>2, <4>1 DEF PoolOf, Holds
    <3> QED
      BY <3>1, <3>2 DEF PoolOf
  <2> QED
    BY <2>1 DEF Inv, Owed
<1> QED
  BY <1>4, <1>5, <1>6, <1>7, <1>8, <1>9 DEF Inv, Pools

-----------------------------------------------------------------------------
(* Steps of the users *)

LEMMA ConnectStep ==
  ASSUME Inv, NEW u \in Users, NEW c \in Clusters, Connect(u, c)
  PROVE  Inv'
<1>1. /\ Asking(c) \in Busy /\ Asking(c).pc = "for" /\ Asking(c).pool = NoPool
  BY DEF Asking, Busy
<1>2. connected' = connected \cup {c} /\ connected' \subseteq Clusters /\ ConnectedListed'
  BY NoSuchConfig DEF Connect, Inv, Pools, TypeOK, ConnectedListed
<1> QED
  BY <1>1, <1>2, UserMoves DEF Connect, Inv, Pools, TypeOK, reg

(* Steps that leave the table alone. *)
LEMMA RestSteps ==
  ASSUME Inv, NEW u \in Users, ConnectFails(u) \/ ForFails(u) \/ SubscribeFails(u) \/ Unsubscribe(u)
  PROVE  Inv'
<1>1. Rest \in [pc : {"idle"}] /\ Rest.pc = "idle" /\ user[u].pc # "make" /\ user' = [user EXCEPT ![u] = Rest]
  BY DEF Rest, ConnectFails, ForFails, SubscribeFails, Unsubscribe
<1>2. UNCHANGED <<disk, watch, entries, connected, registry, rlock, thread, ghost>>
  BY DEF table, reg, ConnectFails, ForFails, SubscribeFails, Unsubscribe
<1>3. /\ connected' \subseteq Clusters /\ ConnectedListed'
      /\ late' \subseteq Users /\ late \subseteq late' \cup {u}
  BY <1>2 DEF Inv, Pools, TypeOK, ConnectedListed, ConnectFails, ForFails, SubscribeFails, Unsubscribe
<1>4. /\ pool' \in [PoolIds -> [cfg : Configs \cup {Gone}, closed : BOOLEAN]]
      /\ \A p \in PoolIds : p \in InUse' => pool'[p] = pool[p]
  <2>1. pool \in [PoolIds -> [cfg : Configs \cup {Gone}, closed : BOOLEAN]]
    BY DEF Inv, Pools, TypeOK
  <2>2. Unused \in [cfg : Configs \cup {Gone}, closed : BOOLEAN]
    BY DEF Unused
  <2>3. pool' = pool \/ Collect(pool)
    BY DEF reg, ConnectFails, ForFails, SubscribeFails, Unsubscribe
  <2> QED
    BY <2>1, <2>2, <2>3 DEF Collect
<1> QED
  BY <1>1, <1>2, <1>3, <1>4, UserMoves

LEMMA ReadStep ==
  ASSUME Inv, NEW u \in Users, NEW c \in Clusters, Read(u, c)
  PROVE  Inv'
<1>1. /\ Asking(c) \in Busy /\ Asking(c).pc = "for" /\ Asking(c).pool = NoPool
  BY DEF Asking, Busy
<1>2. connected' = connected /\ connected' \subseteq Clusters /\ ConnectedListed'
  BY DEF Read, table, Inv, Pools, TypeOK, ConnectedListed
<1> QED
  BY <1>1, <1>2, UserMoves DEF Read, Inv, Pools, TypeOK, reg, table

LEMMA ForFoundStep ==
  ASSUME Inv, NEW u \in Users, ForFound(u)
  PROVE  Inv'
<1> DEFINE r == [user[u] EXCEPT !.pc = "got", !.pool = registry[user[u].cluster]]
<1>1. user[u] \in Busy /\ user[u].pc = "for" /\ registry[user[u].cluster] \in PoolIds
  BY Types DEF ForFound, Inv, Pools, Busy
<1>2. r \in Busy /\ r.pc = "got" /\ r.cluster = user[u].cluster /\ r.pool = registry[r.cluster]
  BY <1>1 DEF Busy
<1>3. user' = [user EXCEPT ![u] = r]
  BY DEF ForFound
<1>4. \A v \in Users : user[v].pc = "make" => user[v].pool # r.pool
  BY <1>1, <1>2, Types DEF Inv, Pools, Making, Busy
<1>5. connected' \subseteq Clusters /\ ConnectedListed' /\ UNCHANGED <<disk, watch, entries, registry, pool, rlock, thread, ghost>>
      /\ late' \subseteq Users /\ late \subseteq late' \cup {u}
  BY DEF ForFound, table, reg, Inv, Pools, TypeOK, ConnectedListed
<1>6. pool \in [PoolIds -> [cfg : Configs \cup {Gone}, closed : BOOLEAN]]
  BY DEF Inv, Pools, TypeOK
<1> HIDE DEF r
<1> QED
  BY <1>1, <1>2, <1>3, <1>4, <1>5, <1>6, UserMoves

LEMMA FetchStep ==
  ASSUME Inv, NEW u \in Users, Fetch(u)
  PROVE  Inv'
<1> DEFINE r == [user[u] EXCEPT !.pc = "join"]
<1>1. user[u] \in Busy /\ user[u].pc = "got" /\ user[u].pool \in PoolIds /\ ~ pool[user[u].pool].closed
  BY Types DEF Fetch, Inv, Pools, Busy, Given, Holds
<1>2. r \in Busy /\ r.pc = "join" /\ r.cluster = user[u].cluster /\ r.pool = user[u].pool
  BY <1>1 DEF Busy
<1>3. user' = [user EXCEPT ![u] = r]
  BY DEF Fetch
<1>4. \A v \in Users : user[v].pc = "make" => user[v].pool # r.pool
  BY <1>1, <1>2 DEF Inv, Pools, Making, Holds
<1>5. connected' \subseteq Clusters /\ ConnectedListed' /\ UNCHANGED <<disk, watch, entries, registry, pool, rlock, thread, ghost>>
      /\ late' \subseteq Users /\ late \subseteq late' \cup {u}
  BY DEF Fetch, table, reg, Inv, Pools, TypeOK, ConnectedListed
<1>6. pool \in [PoolIds -> [cfg : Configs \cup {Gone}, closed : BOOLEAN]]
  BY DEF Inv, Pools, TypeOK
<1>7. \/ registry[r.cluster] = r.pool
      \/ \E t \in Threads : thread[t].closing = r.pool
  BY <1>1, <1>2 DEF Inv, Pools, Given
<1> HIDE DEF r
<1> QED
  BY <1>1, <1>2, <1>3, <1>4, <1>5, <1>6, <1>7, UserMoves

LEMMA JoinStep ==
  ASSUME Inv, NEW u \in Users, Join(u)
  PROVE  Inv'
<1> DEFINE r == [user[u] EXCEPT !.pc = "open"]
<1>1. user[u] \in Busy /\ user[u].pc = "join" /\ user[u].pool \in PoolIds
  BY Types DEF Join, Inv, Pools, Busy, Given, Holds
<1>2. r \in Busy /\ r.pc = "open" /\ r.cluster = user[u].cluster /\ r.pool = user[u].pool
  BY <1>1 DEF Busy
<1>3. user' = [user EXCEPT ![u] = r]
  BY DEF Join
<1>4. \A v \in Users : user[v].pc = "make" => user[v].pool # r.pool
  BY <1>1, <1>2 DEF Inv, Pools, Making, Holds
<1>5. connected' \subseteq Clusters /\ ConnectedListed' /\ UNCHANGED <<disk, watch, entries, registry, pool, rlock, thread, ghost>>
      /\ late' \subseteq Users /\ late \subseteq late' \cup {u}
  BY DEF Join, table, reg, Inv, Pools, TypeOK, ConnectedListed
<1>6. pool \in [PoolIds -> [cfg : Configs \cup {Gone}, closed : BOOLEAN]]
  BY DEF Inv, Pools, TypeOK
<1>7. \/ pool[r.pool].closed
      \/ registry[r.cluster] = r.pool
      \/ \E t \in Threads : thread[t].closing = r.pool
  BY <1>1, <1>2 DEF Inv, Pools, Given
<1>8. u \notin late' =>
        \/ ~ pool[r.pool].closed
        \/ \E t \in Threads : thread[t].closing = r.pool /\ u \in thread[t].todo
  BY <1>1, <1>2 DEF Join, Awaited
<1> HIDE DEF r
<1> QED
  BY <1>1, <1>2, <1>3, <1>4, <1>5, <1>6, <1>7, <1>8, UserMoves

LEMMA ForReadsStep ==
  ASSUME Inv, NEW u \in Users, ForReads(u)
  PROVE  Inv'
<1> DEFINE p == CHOOSE p \in Free : TRUE
           k == user[u].cluster
<1>0. TypeOK /\ p \in PoolIds /\ p \notin InUse /\ p # NoPool
  BY Types DEF ForReads, Free, Inv, Pools
<1>1. /\ UNCHANGED <<file, readable, listed, edits>> /\ UNCHANGED <<watched, event, dirty, missed>> /\ UNCHANGED <<entries, connected, registry, thread>>
      /\ UNCHANGED <<raced, outrun, skipped, late>> /\ rlock = Nobody /\ rlock' = u
  BY DEF ForReads, disk, watch, table, ghost
<1>2. /\ user[u] \in Busy /\ user[u].pc = "for" /\ k \in Clusters /\ registry[k] = NoPool
      /\ entries[k] \in Configs
  BY <1>0, Types DEF ForReads, Busy
<1>3. /\ user'[u] = [user[u] EXCEPT !.pc = "make", !.pool = p] /\ user' \in [Users -> [pc : {"idle"}] \cup Busy]
      /\ \A v \in Users : v # u => user'[v] = user[v]
  BY <1>0, <1>2 DEF ForReads, TypeOK, Busy
<1>4. user'[u].pc = "make" /\ user'[u].pool = p /\ user'[u].cluster = k
  BY <1>2, <1>3 DEF Busy
<1>5. /\ pool'[p] = [cfg |-> entries[k], closed |-> FALSE]
      /\ pool' \in [PoolIds -> [cfg : Configs \cup {Gone}, closed : BOOLEAN]]
      /\ \A q \in PoolIds : q # p => pool'[q] = pool[q]
  BY <1>0, <1>2 DEF ForReads, TypeOK
<1>6. /\ \A c \in Clusters : registry[c] # p
      /\ \A t \in Threads : thread[t].closing # p
      /\ \A v \in Users : Holds(v) => user[v].pool # p
  BY <1>0 DEF InUse, Holds
<1>7. \A v \in Users : user[v].pc # "make"
  BY <1>1, NobodyIsNoUser DEF Inv, Pools, Making
<1> HIDE DEF p, k
<1>8. TypeOK'
  BY <1>0, <1>1, <1>3, <1>5 DEF TypeOK
<1>9. ASSUME NEW v \in Users PROVE Making(v)' /\ Given(v)'
  <2>1. CASE v = u
    <3>1. Making(v)'
      <4>1. pool'[p].closed = FALSE
        BY <1>5
      <4>2. \A w \in Users : Holds(w)' /\ user'[w].pool = p => w = u
        BY <1>3, <1>6 DEF Holds
      <4> QED
        BY <1>1, <1>2, <1>4, <1>6, <2>1, <4>1, <4>2 DEF Making
    <3>2. Given(v)'
      BY <1>0, <1>4, <2>1 DEF Given, Holds
    <3> QED
      BY <3>1, <3>2
  <2>2. CASE v # u
    <3>1. user'[v] = user[v] /\ Given(v)
      BY <1>3, <2>2 DEF Inv, Pools
    <3>2. Making(v)'
      BY <1>1, <1>7, <2>2, <3>1 DEF Making
    <3>3. Holds(v) => pool'[user[v].pool] = pool[user[v].pool]
      BY <1>5, <1>6, <3>1 DEF Given
    <3>4. Given(v)'
      BY <1>1, <3>1, <3>3 DEF Given, Holds, Awaited
    <3> QED
      BY <3>2, <3>4
  <2> QED
    BY <2>1, <2>2
<1>10. ASSUME NEW c \in Clusters PROVE Registered(c)'
  <2>1. Registered(c) /\ registry[c] \in PoolIds \cup {NoPool}
    BY <1>0, Types DEF Inv, Pools
  <2> QED
    BY <1>1, <1>5, <1>6, <2>1 DEF Registered
<1>11. ASSUME NEW t \in Threads PROVE Loading(t)' /\ Visiting(t)'
  <2>1. Loading(t) /\ Visiting(t) /\ thread[t] \in Doing
    BY <1>0, Types DEF Inv, Pools
  <2>2. thread[t].closing \in PoolIds => pool'[thread[t].closing] = pool[thread[t].closing]
    BY <1>5, <1>6
  <2> QED
    BY <1>1, <2>1, <2>2 DEF Loading, Visiting, Doing
<1>12. ASSUME NEW c \in Clusters PROVE Owed(c)'
  <2> SUFFICES ASSUME NEW q \in PoolIds, PoolOf(c, q)'
               PROVE  /\ pool'[q].cfg \in Configs
                      /\ c \notin skipped /\ pool'[q].cfg # entries[c] =>
                           \E t \in Threads : c \in thread[t].close \cup thread[t].retire
    BY <1>1 DEF Owed
  <2>1. CASE q # NoPool /\ registry[c] = q
    <3>1. PoolOf(c, q) /\ pool'[q] = pool[q]
      BY <1>5, <1>6, <2>1 DEF PoolOf
    <3> QED
      BY <3>1 DEF Inv, Owed
  <2>2. ASSUME NEW v \in Users, user'[v].pc = "make", user'[v].cluster = c, user'[v].pool = q
        PROVE  pool'[q].cfg \in Configs /\ pool'[q].cfg = entries[c]
    <3>1. v = u
      BY <1>3, <1>7, <2>2
    <3> QED
      BY <1>2, <1>4, <1>5, <2>2, <3>1
  <2> QED
    BY <1>1, <2>1, <2>2 DEF PoolOf
<1>13. ConnectedListed'
  BY <1>1 DEF Inv, ConnectedListed
<1> QED
  BY <1>8, <1>9, <1>10, <1>11, <1>12, <1>13 DEF Inv, Pools

LEMMA ForMakesStep ==
  ASSUME Inv, NEW u \in Users, ForMakes(u)
  PROVE  Inv'
<1> DEFINE p == user[u].pool
           k == user[u].cluster
<1>1. /\ UNCHANGED <<file, readable, listed, edits>> /\ UNCHANGED <<watched, event, dirty, missed>> /\ UNCHANGED <<entries, connected, pool, thread>>
      /\ UNCHANGED <<raced, outrun, skipped, late>> /\ rlock' = Nobody
  BY DEF ForMakes, disk, watch, table, ghost
<1>2. TypeOK /\ user[u] \in Busy /\ user[u].pc = "make" /\ k \in Clusters /\ p \in PoolIds /\ p # NoPool
  BY Types DEF ForMakes, Inv, Pools, Busy, Given, Holds
<1>3. /\ rlock = u /\ ~ pool[p].closed
      /\ registry[k] = NoPool
      /\ \A c \in Clusters : registry[c] # p
      /\ \A t \in Threads : thread[t].closing # p
      /\ \A v \in Users : Holds(v) /\ user[v].pool = p => v = u
  BY <1>2 DEF Inv, Pools, Making
<1>4. /\ user'[u] = [user[u] EXCEPT !.pc = "got"] /\ user' \in [Users -> [pc : {"idle"}] \cup Busy]
      /\ \A v \in Users : v # u => user'[v] = user[v]
  BY <1>2 DEF ForMakes, TypeOK, Busy
<1>5. user'[u].pc = "got" /\ user'[u].pool = p /\ user'[u].cluster = k
  BY <1>2, <1>4 DEF Busy
<1>6. /\ registry'[k] = p /\ registry' \in [Clusters -> PoolIds \cup {NoPool}]
      /\ \A c \in Clusters : c # k => registry'[c] = registry[c]
  BY <1>2 DEF ForMakes, TypeOK
<1>7. \A v \in Users : v # u => user[v].pc # "make"
  BY <1>3 DEF Inv, Pools, Making
<1> HIDE DEF p, k
<1>8. TypeOK'
  BY <1>1, <1>2, <1>4, <1>6 DEF TypeOK
<1>9. ASSUME NEW v \in Users PROVE Making(v)' /\ Given(v)'
  <2>1. Making(v)'
    BY <1>1, <1>4, <1>5, <1>7, NobodyIsNoUser DEF Making
  <2>2. CASE v = u
    BY <1>2, <1>5, <1>6, <2>1, <2>2 DEF Given, Holds
  <2>3. CASE v # u
    <3>1. user'[v] = user[v] /\ Given(v)
      BY <1>4, <2>3 DEF Inv, Pools
    <3>2. user[v].pc \in {"got", "join", "open"} =>
            \/ pool[user[v].pool].closed
            \/ registry'[user[v].cluster] = user[v].pool
            \/ \E t \in Threads : thread[t].closing = user[v].pool
      BY <1>2, <1>3, <1>6, <3>1, Types DEF Given, Holds, Busy
    <3>3. Given(v)'
      BY <1>1, <3>1, <3>2 DEF Given, Holds, Awaited
    <3> QED
      BY <2>1, <3>3
  <2> QED
    BY <2>1, <2>2, <2>3
<1>10. ASSUME NEW c \in Clusters PROVE Registered(c)'
  <2>1. Registered(c) /\ \A d \in Clusters : registry'[d] = p => d = k
    BY <1>3, <1>6 DEF Inv, Pools
  <2>2. CASE c = k
    BY <1>1, <1>3, <1>6, <2>1, <2>2 DEF Registered
  <2>3. CASE c # k
    BY <1>1, <1>3, <1>6, <2>1, <2>3 DEF Registered
  <2> QED
    BY <2>2, <2>3
<1>11. ASSUME NEW t \in Threads PROVE Loading(t)' /\ Visiting(t)'
  BY <1>1 DEF Inv, Pools, Loading, Visiting
<1>12. ASSUME NEW c \in Clusters PROVE Owed(c)'
  <2> SUFFICES ASSUME NEW q \in PoolIds, PoolOf(c, q)'
               PROVE  PoolOf(c, q)
    BY <1>1 DEF Owed, Inv
  <2>1. ASSUME q # NoPool, registry'[c] = q PROVE PoolOf(c, q)
    <3>1. CASE c = k
      BY <1>2, <1>6, <2>1, <3>1 DEF PoolOf, p, k
    <3>2. CASE c # k
      BY <1>6, <2>1, <3>2 DEF PoolOf
    <3> QED
      BY <3>1, <3>2
  <2>2. \A v \in Users : user'[v].pc # "make"
    BY <1>4, <1>5, <1>7
  <2> QED
    BY <2>1, <2>2 DEF PoolOf
<1>13. ConnectedListed'
  BY <1>1 DEF Inv, ConnectedListed
<1> QED
  BY <1>8, <1>9, <1>10, <1>11, <1>12, <1>13 DEF Inv, Pools

-----------------------------------------------------------------------------
(* Steps of the loaders and of the handler *)

(* A thread that closes no pool goes on, and begins no closing. *)
LEMMA ThreadMoves ==
  ASSUME Pools, TypeOK', NEW t \in Threads, NEW d, thread' = [thread EXCEPT ![t] = d],
         thread[t].closing = NoPool, d.closing = NoPool,
         d.pc \in {"compare", "swap"} => d.close = {} /\ d.retire = {},
         d.todo = {},
         UNCHANGED <<registry, pool, rlock, user, late>>
  PROVE  Pools'
<1>1. TypeOK /\ thread'[t] = d /\ \A s \in Threads : s # t => thread'[s] = thread[s]
  BY DEF Pools, TypeOK
<1>2. \A s \in Threads : thread'[s].closing = thread[s].closing
  BY <1>1
<1>3. ASSUME NEW u \in Users PROVE Making(u)' /\ Given(u)'
  <2>1. Making(u) /\ Given(u)
    BY DEF Pools
  <2>2. Making(u)'
    BY <1>2, <2>1 DEF Making, Holds
  <2>3. Holds(u) /\ Awaited(u) => Awaited(u)'
    BY <1>1, <2>1, Types DEF Given, Awaited
  <2>4. Given(u)'
    BY <1>2, <2>1, <2>3 DEF Given, Holds
  <2> QED
    BY <2>2, <2>4
<1>4. ASSUME NEW c \in Clusters PROVE Registered(c)'
  BY <1>2 DEF Pools, Registered
<1>5. ASSUME NEW s \in Threads PROVE Loading(s)' /\ Visiting(s)'
  BY <1>1 DEF Pools, Loading, Visiting
<1> QED
  BY <1>3, <1>4, <1>5 DEF Pools

(* A thread that owes no hook owes none to begin with. *)
LEMMA ThreadBegins ==
  ASSUME Inv, Pools', ConnectedListed', NEW t \in Threads, NEW d, thread' = [thread EXCEPT ![t] = d],
         thread[t].close = {}, thread[t].retire = {},
         UNCHANGED <<entries, registry, pool, user, skipped>>
  PROVE  Inv'
<1>1. TypeOK /\ \A s \in Threads : s # t => thread'[s] = thread[s]
  BY DEF Inv, Pools, TypeOK
<1>2. ASSUME NEW c \in Clusters PROVE Owed(c)'
  <2> SUFFICES ASSUME NEW p \in PoolIds, PoolOf(c, p)'
               PROVE  /\ pool[p].cfg \in Configs
                      /\ c \notin skipped /\ pool[p].cfg # entries[c] =>
                           \E s \in Threads : c \in thread'[s].close \cup thread'[s].retire
    BY DEF Owed
  <2>1. PoolOf(c, p)
    BY DEF PoolOf
  <2>2. /\ pool[p].cfg \in Configs
        /\ c \notin skipped /\ pool[p].cfg # entries[c] =>
             \E s \in Threads : c \in thread[s].close \cup thread[s].retire
    BY <2>1 DEF Inv, Owed
  <2> QED
    BY <1>1, <2>2
<1> QED
  BY <1>2 DEF Inv

LEMMA ReadsMove ==
  ASSUME Inv, NEW l \in Loaders, thread[l] = Resting, LoadReads(l),
         file' \in Content, readable' \in BOOLEAN, dirty' \in BOOLEAN, edits' \in 0 .. MaxEdits,
         listed' \subseteq Files, UNCHANGED <<watched, event>>,
         UNCHANGED <<table, reg, user, ghost, late>>
  PROVE  Inv'
<1>1. /\ UNCHANGED <<entries, connected>> /\ UNCHANGED <<registry, pool, rlock>>
      /\ UNCHANGED <<raced, outrun, skipped, late>> /\ l \in Threads
  BY DEF table, reg, ghost, Threads
<1>2. PICK d \in Doing :
        /\ thread' = [thread EXCEPT ![l] = d]
        /\ d.closing = NoPool /\ d.close = {} /\ d.retire = {} /\ d.todo = {}
  <2>1. [Resting EXCEPT !.pc = "compare", !.list = listed', !.at = edits', !.raw = file'] \in Doing
    BY RestingOK DEF Doing
  <2>2. LET d == [Resting EXCEPT !.pc = "compare", !.list = listed', !.at = edits', !.raw = file'] IN
        d.closing = NoPool /\ d.close = {} /\ d.retire = {} /\ d.todo = {}
    BY DEF Resting
  <2>3. CASE readable'
    BY <2>1, <2>2, <2>3 DEF LoadReads
  <2>4. CASE ~ readable'
    BY <2>4, RestingOK DEF LoadReads
  <2> QED
    BY <2>3, <2>4
<1>3. TypeOK'
  <2>1. TypeOK /\ thread' \in [Threads -> Doing] /\ missed' \in BOOLEAN
    BY <1>1, <1>2 DEF Inv, Pools, TypeOK, LoadReads
  <2> QED
    BY <1>1, <2>1 DEF TypeOK
<1>4. thread[l].closing = NoPool /\ thread[l].close = {} /\ thread[l].retire = {}
  BY RestingOK
<1>5. Pools'
  BY <1>1, <1>2, <1>3, <1>4, ThreadMoves DEF Inv
<1>6. ConnectedListed'
  BY <1>1 DEF Inv, ConnectedListed
<1> QED
  BY <1>1, <1>2, <1>4, <1>5, <1>6, ThreadBegins

LEMMA ChangeTypes ==
  ASSUME TypeOK, Change \/ Spoil \/ Reload
  PROVE  file' \in Content /\ readable' \in BOOLEAN /\ edits' \in 0 .. MaxEdits
<1>1. file' \in Content
  BY ChangesAreContent DEF Change, Spoil, Reload, TypeOK, Content
<1>2. edits' \in 0 .. MaxEdits
  BY BoundsNat DEF Change, Spoil, Reload, TypeOK
<1>3. readable' \in BOOLEAN
  BY Zenon DEF Change, Spoil, Reload, TypeOK
<1> QED
  BY <1>1, <1>2, <1>3

LEMMA WatchFiresStep ==
  ASSUME Inv, WatchFires
  PROVE  Inv'
<1>1. Watcher \in Loaders /\ TypeOK
  BY DEF Loaders, Inv, Pools
<1>2. file' \in Content /\ edits' \in 0 .. MaxEdits /\ listed' \subseteq Files
  BY <1>1 DEF WatchFires, TypeOK, disk
<1>3. readable' \in BOOLEAN /\ dirty' \in BOOLEAN
  BY <1>1, Zenon DEF WatchFires, TypeOK, disk
<1> QED
  BY <1>1, <1>2, <1>3, ReadsMove DEF WatchFires

LEMMA SaveStep ==
  ASSUME Inv, Save
  PROVE  Inv'
<1>1. Saver \in Loaders /\ TypeOK
  BY DEF Loaders, Inv, Pools
<1>2. file' \in Content /\ edits' \in 0 .. MaxEdits /\ readable' \in BOOLEAN
  BY <1>1, ChangeTypes DEF Save
<1>3. dirty' \in BOOLEAN
  BY <1>1, Zenon DEF Save, TypeOK
<1>4. listed' \subseteq Files
  BY <1>1 DEF Save, TypeOK
<1> QED
  BY <1>1, <1>2, <1>3, <1>4, ReadsMove DEF Save

LEMMA LoadComparesStep ==
  ASSUME Inv, NEW l \in Loaders, LoadCompares(l)
  PROVE  Inv'
<1> DEFINE d == [thread[l] EXCEPT !.pc = "swap", !.prev = entries]
<1>1. /\ UNCHANGED <<file, readable, listed, edits>> /\ UNCHANGED <<watched, event, dirty, missed>> /\ UNCHANGED <<entries, connected>>
      /\ UNCHANGED <<registry, pool, rlock, user>> /\ UNCHANGED <<raced, outrun, skipped, late>>
  BY DEF LoadCompares, disk, watch, table, reg, ghost
<1>2. TypeOK /\ l \in Threads /\ thread[l] \in Doing /\ entries \in Content
  BY Types DEF Inv, Pools, TypeOK, Threads
<1>3. thread[l].close = {} /\ thread[l].retire = {} /\ thread[l].closing = NoPool
  BY <1>2 DEF LoadCompares, Inv, Pools, Loading
<1>4. d \in Doing /\ d.close = {} /\ d.retire = {} /\ d.closing = NoPool /\ d.todo = {}
  BY <1>2, <1>3 DEF Doing, Inv, Pools, Visiting
<1>5. thread' = [thread EXCEPT ![l] = d]
  BY DEF LoadCompares
<1> HIDE DEF d
<1>6. TypeOK'
  <2>1. thread' \in [Threads -> Doing]
    BY <1>2, <1>4, <1>5 DEF TypeOK
  <2> QED
    BY <1>1, <1>2, <2>1 DEF TypeOK
<1>7. Pools'
  BY <1>1, <1>2, <1>3, <1>4, <1>5, <1>6, ThreadMoves DEF Inv
<1>8. ConnectedListed'
  BY <1>1 DEF Inv, ConnectedListed
<1> QED
  BY <1>1, <1>2, <1>3, <1>5, <1>7, <1>8, ThreadBegins

LEMMA HooksOK ==
  \A close, retire \in SUBSET Clusters :
    /\ Hooks(close, retire) \in Doing
    /\ Hooks(close, retire).pc = "idle" /\ Hooks(close, retire).closing = NoPool
    /\ Hooks(close, retire).close = close /\ Hooks(close, retire).retire = retire
    /\ Hooks(close, retire).todo = {}
<1> SUFFICES ASSUME NEW close \in SUBSET Clusters, NEW retire \in SUBSET Clusters
             PROVE  /\ Hooks(close, retire) \in Doing
                    /\ Hooks(close, retire).pc = "idle" /\ Hooks(close, retire).closing = NoPool
                    /\ Hooks(close, retire).close = close /\ Hooks(close, retire).retire = retire
                    /\ Hooks(close, retire).todo = {}
  OBVIOUS
<1>1. Hooks(close, retire) \in Doing
  BY RestingOK DEF Hooks, Doing
<1> QED
  BY <1>1 DEF Hooks, Resting

LEMMA DisconnectStep ==
  ASSUME Inv, NEW c \in Clusters, Disconnect(c)
  PROVE  Inv'
<1>1. /\ UNCHANGED <<file, readable, listed, edits>> /\ UNCHANGED <<watched, event, dirty, missed>> /\ UNCHANGED entries
      /\ UNCHANGED <<registry, pool, rlock, user>> /\ UNCHANGED <<raced, outrun, skipped, late>>
  BY DEF Disconnect, disk, watch, reg, ghost
<1>2. TypeOK /\ Handler \in Threads
  BY DEF Inv, Pools, Threads
<1>3. thread[Handler].close = {} /\ thread[Handler].retire = {} /\ thread[Handler].closing = NoPool
  BY RestingOK DEF Disconnect
<1>4. /\ Hooks({c}, {}) \in Doing
      /\ Hooks({c}, {}).pc = "idle" /\ Hooks({c}, {}).closing = NoPool /\ Hooks({c}, {}).todo = {}
  <2>1. {c} \in SUBSET Clusters /\ {} \in SUBSET Clusters
    OBVIOUS
  <2>2. Hooks({c}, {}) \in Doing
    BY <2>1, HooksOK
  <2> QED
    BY <2>2 DEF Hooks, Resting
<1>5. thread' = [thread EXCEPT ![Handler] = Hooks({c}, {})]
  BY DEF Disconnect
<1>6. TypeOK'
  <2>1. thread' \in [Threads -> Doing] /\ connected' \subseteq Clusters
    BY <1>2, <1>4, <1>5 DEF Disconnect, TypeOK
  <2> QED
    BY <1>1, <1>2, <2>1 DEF TypeOK
<1>7. Pools'
  BY <1>1, <1>2, <1>3, <1>4, <1>5, <1>6, ThreadMoves DEF Inv
<1>8. ConnectedListed'
  BY <1>1 DEF Disconnect, Inv, ConnectedListed
<1> QED
  BY <1>1, <1>2, <1>3, <1>5, <1>7, <1>8, ThreadBegins

(* A pool that is not of the new table's config was not of the old one's
   either, and is still owed its hook, or this Load owes it one. *)
LEMMA LoadSwapsStep ==
  ASSUME Inv, NEW l \in Loaders, LoadSwaps(l)
  PROVE  Inv'
<1> DEFINE raw == thread[l].raw
           prev == thread[l].prev
           gone == Removed(entries, raw)
           d == [Hooks(gone \cap connected, Changed(prev, raw)) EXCEPT !.pc = "watch", !.list = thread[l].list]
<1>1. /\ UNCHANGED <<file, readable, listed, edits>> /\ UNCHANGED <<watched, event, dirty, missed>> /\ UNCHANGED <<registry, pool, rlock, user, late>>
      /\ thread[l].pc = "swap" /\ entries' = raw /\ connected' = connected \ gone
      /\ thread' = [thread EXCEPT ![l] = d]
      /\ skipped' = skipped \cup {c \in Clusters : HasPool(c) /\ (prev # entries \/ c \in gone \ connected)}
  BY DEF LoadSwaps, disk, watch, reg
<1>2. TypeOK /\ l \in Threads /\ thread[l] \in Doing /\ raw \in Content /\ prev \in Content
  BY Types DEF Inv, Pools, Threads, Doing
<1>3. thread[l].close = {} /\ thread[l].retire = {} /\ thread[l].closing = NoPool
  BY <1>1, <1>2 DEF Inv, Pools, Loading
<1>4. gone \cap connected \in SUBSET Clusters /\ Changed(prev, raw) \in SUBSET Clusters
  BY DEF Removed, Changed
<1>5. /\ d \in Doing /\ d.pc = "watch" /\ d.closing = NoPool /\ d.todo = {}
      /\ d.close = gone \cap connected /\ d.retire = Changed(prev, raw)
  <2>1. /\ Hooks(gone \cap connected, Changed(prev, raw)) \in Doing
        /\ LET h == Hooks(gone \cap connected, Changed(prev, raw)) IN
             /\ h.closing = NoPool /\ h.todo = {}
             /\ h.close = gone \cap connected /\ h.retire = Changed(prev, raw)
    <3>1. Hooks(gone \cap connected, Changed(prev, raw)) \in Doing
      BY <1>4, HooksOK
    <3> QED
      BY <3>1 DEF Hooks, Resting
  <2>2. thread[l].list \in SUBSET Files
    BY <1>2 DEF Doing
  <2> QED
    BY <2>1, <2>2 DEF Doing
<1>6. ASSUME NEW c \in Clusters, raw[c] = Gone, entries[c] # Gone PROVE c \in gone
  BY <1>6 DEF Removed
<1>7. ASSUME NEW c \in Clusters, prev[c] \in Configs, raw[c] # Gone, raw[c] # prev[c]
      PROVE  c \in Changed(prev, raw)
  BY <1>7 DEF Changed
<1> HIDE DEF d, gone, raw, prev
<1>8. TypeOK'
  <2>1. thread' \in [Threads -> Doing]
    BY <1>1, <1>2, <1>5 DEF TypeOK
  <2>2. connected' \subseteq Clusters /\ skipped' \subseteq Clusters /\ raced' \subseteq Loaders
    BY <1>1, <1>2 DEF TypeOK, LoadSwaps, InFlight
  <2>3. outrun' \in BOOLEAN
    <3>1. outrun' = (l \in raced)
      BY DEF LoadSwaps
    <3>2. CASE l \in raced
      BY <3>1, <3>2
    <3>3. CASE l \notin raced
      BY <3>1, <3>3
    <3> QED
      BY <3>2, <3>3
  <2> QED
    BY <1>1, <1>2, <2>1, <2>2, <2>3 DEF TypeOK
<1>9. Pools'
  BY <1>1, <1>2, <1>3, <1>5, <1>8, ThreadMoves DEF Inv
<1>10. ConnectedListed'
  <2> SUFFICES ASSUME NEW c \in connected', raw[c] = Gone PROVE FALSE
    BY <1>1 DEF ConnectedListed
  <2>1. c \in connected /\ c \notin gone /\ c \in Clusters
    BY <1>1, <1>2 DEF TypeOK
  <2> QED
    BY <1>6, <2>1 DEF Inv, ConnectedListed
<1>11. ASSUME NEW c \in Clusters PROVE Owed(c)'
  <2> SUFFICES ASSUME NEW p \in PoolIds, PoolOf(c, p)'
               PROVE  /\ pool[p].cfg \in Configs
                      /\ c \notin skipped' /\ pool[p].cfg # raw[c] =>
                           \E t \in Threads : c \in thread'[t].close \cup thread'[t].retire
    BY <1>1 DEF Owed
  <2>1. PoolOf(c, p)
    BY <1>1 DEF PoolOf
  <2>2. /\ pool[p].cfg \in Configs
        /\ c \notin skipped /\ pool[p].cfg # entries[c] =>
             \E t \in Threads : c \in thread[t].close \cup thread[t].retire
    BY <2>1 DEF Inv, Owed
  <2>3. HasPool(c)
    BY <2>1 DEF PoolOf, HasPool
  <2>4. ASSUME c \notin skipped', pool[p].cfg # raw[c]
        PROVE  \E t \in Threads : c \in thread'[t].close \cup thread'[t].retire
    <3>1. c \notin skipped /\ prev = entries /\ c \notin gone \ connected
      BY <1>1, <2>3, <2>4
    <3>2. CASE pool[p].cfg # entries[c]
      <4>1. PICK t \in Threads : c \in thread[t].close \cup thread[t].retire
        BY <2>2, <3>1, <3>2
      <4>2. t # l
        BY <1>3, <4>1
      <4>3. thread'[t] = thread[t]
        BY <1>1, <1>2, <4>2 DEF TypeOK
      <4> QED
        BY <4>1, <4>3
    <3>3. CASE pool[p].cfg = entries[c]
      <4>1. c \in d.close \cup d.retire
        <5>1. CASE raw[c] = Gone
          BY <1>5, <1>6, <2>2, <3>1, <3>3, <5>1, NoSuchConfig
        <5>2. CASE raw[c] # Gone
          BY <1>5, <1>7, <2>2, <2>4, <3>1, <3>3, <5>2
        <5> QED
          BY <5>1, <5>2
      <4>2. thread'[l] = d
        BY <1>1, <1>2 DEF TypeOK
      <4> QED
        BY <1>2, <4>1, <4>2
    <3> QED
      BY <3>2, <3>3
  <2> QED
    BY <2>2, <2>4
<1> QED
  BY <1>9, <1>10, <1>11 DEF Inv

LEMMA LoadWatchesStep ==
  ASSUME Inv, NEW l \in Loaders, LoadWatches(l)
  PROVE  Inv'
<1>1. /\ UNCHANGED <<file, readable, listed, edits, event, dirty, missed>> /\ UNCHANGED <<entries, connected>>
      /\ UNCHANGED <<registry, pool, rlock, user>> /\ UNCHANGED <<raced, outrun, skipped, late>>
  BY DEF LoadWatches, disk, table, reg, ghost
<1>2. TypeOK /\ l \in Threads /\ thread[l] \in Doing
  BY Types DEF Inv, Pools, Threads
<1>3. /\ thread[l].close = {} /\ thread[l].retire = {} /\ thread[l].closing = NoPool
      /\ thread' = [thread EXCEPT ![l] = Resting] /\ watched' = thread[l].list
  BY DEF LoadWatches, HooksDone
<1>4. TypeOK'
  <2>1. thread' \in [Threads -> Doing] /\ watched' \subseteq Files
    BY <1>2, <1>3, RestingOK DEF TypeOK, Doing
  <2> QED
    BY <1>1, <1>2, <2>1 DEF TypeOK
<1>5. Pools'
  BY <1>1, <1>2, <1>3, <1>4, RestingOK, ThreadMoves DEF Inv
<1>6. ConnectedListed'
  BY <1>1 DEF Inv, ConnectedListed
<1> QED
  BY <1>1, <1>2, <1>3, <1>5, <1>6, ThreadBegins

LEMMA TakeStep ==
  ASSUME Inv, NEW t \in Threads, NEW c \in Clusters, Take(t, c)
  PROVE  Inv'
<1> DEFINE p == registry[c]
<1>1. /\ UNCHANGED <<file, readable, listed, edits>> /\ UNCHANGED <<watched, event, dirty, missed>> /\ UNCHANGED <<entries, connected>>
      /\ UNCHANGED <<pool, user>> /\ UNCHANGED <<raced, outrun, late>>
      /\ rlock = Nobody /\ rlock' = Nobody /\ skipped' = skipped \ {c}
      /\ thread[t].closing = NoPool /\ (c \in thread[t].close \/ c \in thread[t].retire)
  BY DEF Take, Due, disk, watch, table
<1>2. TypeOK /\ thread[t] \in Doing /\ p \in PoolIds \cup {NoPool}
  BY Types DEF Inv, Pools
<1>3. /\ registry'[c] = NoPool /\ registry' \in [Clusters -> PoolIds \cup {NoPool}]
      /\ \A e \in Clusters : e # c => registry'[e] = registry[e]
  BY <1>2 DEF Take, TypeOK
<1>4. /\ thread' \in [Threads -> Doing]
      /\ \A s \in Threads : s # t => thread'[s] = thread[s]
  <2>1. \E d \in Doing : thread' = [thread EXCEPT ![t] = d]
    <3> DEFINE d == [thread[t] EXCEPT !.close = @ \ {c},
                                      !.retire = IF c \in thread[t].close THEN @ ELSE @ \ {c},
                                      !.closing = registry[c],
                                      !.why = IF registry[c] = NoPool THEN ""
                                              ELSE IF c \in thread[t].close THEN "disconnected" ELSE "credentials"]
    <3>1. d \in Doing
      BY <1>2 DEF Doing
    <3>2. thread' = [thread EXCEPT ![t] = d]
      BY DEF Take
    <3> QED
      BY <3>1, <3>2
  <2> QED
    BY <1>2, <2>1 DEF TypeOK
<1>5. /\ thread'[t].closing = p /\ thread'[t].pc = thread[t].pc /\ thread'[t].todo = thread[t].todo
      /\ thread'[t].close = thread[t].close \ {c}
      /\ thread[t].retire \ {c} \subseteq thread'[t].retire
  BY <1>2 DEF Take, TypeOK, Doing
<1>6. thread[t].pc \notin {"compare", "swap"} /\ thread[t].todo = {}
  BY <1>1 DEF Inv, Pools, Loading, Visiting
<1>7. \A u \in Users : user[u].pc # "make"
  BY <1>1, NobodyIsNoUser DEF Inv, Pools, Making
<1>8. p # NoPool => \A e \in Clusters : registry[e] = p => e = c
  BY DEF Inv, Pools, Registered
<1> HIDE DEF p
<1>9. TypeOK'
  <2>1. skipped' \subseteq Clusters /\ rlock' \in Users \cup {Nobody}
    BY <1>1, <1>2 DEF TypeOK
  <2> QED
    BY <1>1, <1>2, <1>3, <1>4, <2>1 DEF TypeOK
<1>10. ASSUME NEW u \in Users PROVE Making(u)' /\ Given(u)'
  <2>1. Making(u)'
    BY <1>1, <1>7, NobodyIsNoUser DEF Making
  <2>2. Given(u)
    BY DEF Inv, Pools
  <2>3. user[u].pc \in {"got", "join", "open"} =>
          \/ pool[user[u].pool].closed
          \/ registry'[user[u].cluster] = user[u].pool
          \/ \E s \in Threads : thread'[s].closing = user[u].pool
    <3> SUFFICES ASSUME user[u].pc \in {"got", "join", "open"}
                 PROVE  \/ pool[user[u].pool].closed
                        \/ registry'[user[u].cluster] = user[u].pool
                        \/ \E s \in Threads : thread'[s].closing = user[u].pool
      OBVIOUS
    <3>1. user[u].pool \in PoolIds /\ user[u].pool # NoPool /\ user[u].cluster \in Clusters
      BY <1>2, <2>2, Types DEF Given, Holds, Busy
    <3>2. CASE registry[user[u].cluster] = user[u].pool
      BY <1>3, <1>5, <3>1, <3>2 DEF p
    <3>3. ASSUME NEW s \in Threads, thread[s].closing = user[u].pool
          PROVE  thread'[s].closing = user[u].pool
      BY <1>1, <1>4, <3>1, <3>3
    <3> QED
      BY <2>2, <3>2, <3>3 DEF Given
  <2>4. Awaited(u) => Awaited(u)'
    BY <1>1, <1>4, <1>6 DEF Awaited
  <2>5. Given(u)'
    BY <1>1, <2>2, <2>3, <2>4 DEF Given, Holds
  <2> QED
    BY <2>1, <2>5
<1>11. ASSUME NEW e \in Clusters PROVE Registered(e)'
  <2>1. CASE e = c
    BY <1>3, <2>1 DEF Registered
  <2>2. CASE e # c
    <3>1. Registered(e) /\ registry'[e] = registry[e]
      BY <1>3, <2>2 DEF Inv, Pools
    <3>2. \A d \in Clusters : registry'[d] # NoPool => registry'[d] = registry[d]
      BY <1>3
    <3>3. registry[e] # NoPool => \A s \in Threads : thread'[s].closing # registry[e]
      BY <1>4, <1>5, <1>8, <2>2, <3>1 DEF Registered, p
    <3> QED
      BY <1>1, <3>1, <3>2, <3>3 DEF Registered
  <2> QED
    BY <2>1, <2>2
<1>12. ASSUME NEW s \in Threads PROVE Loading(s)' /\ Visiting(s)'
  <2>1. CASE s = t
    BY <1>5, <1>6, <2>1 DEF Loading, Visiting
  <2>2. CASE s # t
    BY <1>1, <1>4, <2>2 DEF Inv, Pools, Loading, Visiting
  <2> QED
    BY <2>1, <2>2
<1>13. ASSUME NEW e \in Clusters PROVE Owed(e)'
  <2> SUFFICES ASSUME NEW q \in PoolIds, PoolOf(e, q)'
               PROVE  /\ pool[q].cfg \in Configs
                      /\ e \notin skipped' /\ pool[q].cfg # entries[e] =>
                           \E s \in Threads : e \in thread'[s].close \cup thread'[s].retire
    BY <1>1 DEF Owed
  <2>1. q # NoPool /\ registry'[e] = q
    BY <1>1, <1>7 DEF PoolOf
  <2>2. e # c /\ registry[e] = q
    BY <1>3, <2>1
  <2>3. PoolOf(e, q)
    BY <2>1, <2>2 DEF PoolOf
  <2>4. /\ pool[q].cfg \in Configs
        /\ e \notin skipped /\ pool[q].cfg # entries[e] =>
             \E s \in Threads : e \in thread[s].close \cup thread[s].retire
    BY <2>3 DEF Inv, Owed
  <2>5. ASSUME NEW s \in Threads, e \in thread[s].close \cup thread[s].retire
        PROVE  e \in thread'[s].close \cup thread'[s].retire
    BY <1>4, <1>5, <2>2, <2>5
  <2> QED
    BY <1>1, <2>2, <2>4, <2>5
<1>14. ConnectedListed'
  BY <1>1 DEF Inv, ConnectedListed
<1> QED
  BY <1>9, <1>10, <1>11, <1>12, <1>13, <1>14 DEF Inv, Pools

(* A thread closes a pool that is marked, some of whose streams end; those
   it leaves open are still to be visited, but for the late. *)
LEMMA CloseMoves ==
  ASSUME Inv, NEW t \in Threads, thread[t].closing # NoPool,
         NEW todo \in SUBSET Users, Closing(t, todo),
         NEW pools, Collect(pools),
         pools = [pool EXCEPT ![thread[t].closing].closed = TRUE],
         user' \in [Users -> [pc : {"idle"}] \cup Busy],
         \A u \in Users :
           \/ user'[u] = user[u]
           \/ user[u].pc = "open" /\ user'[u].pc \in {"idle", "told"} /\ (user'[u].pc = "told" => user'[u].pool = NoPool),
         \A u \in Users \ late :
           user'[u].pc = "open" /\ user'[u].pool = thread[t].closing =>
             \/ u \in todo
             \/ \E s \in Threads \ {t} : thread[s].closing = thread[t].closing /\ u \in thread[s].todo,
         UNCHANGED <<disk, watch, table, registry, rlock, ghost, late>>
  PROVE  Inv'
<1> DEFINE p == thread[t].closing
<1>1. /\ UNCHANGED <<file, readable, listed, edits>> /\ UNCHANGED <<watched, event, dirty, missed>> /\ UNCHANGED <<entries, connected, registry, rlock>>
      /\ UNCHANGED <<raced, outrun, skipped, late>> /\ p # NoPool
  BY DEF disk, watch, table, ghost
<1>2. TypeOK /\ thread[t] \in Doing /\ p \in PoolIds
  BY <1>1, Types DEF Inv, Pools, Doing
<1>3. Collect([pool EXCEPT ![p].closed = TRUE])
  BY Zenon
<1>4. /\ thread' \in [Threads -> Doing] /\ thread'[t].pc = thread[t].pc
      /\ thread'[t].closing = (IF todo = {} THEN NoPool ELSE p) /\ thread'[t].todo = todo
      /\ thread'[t].close = thread[t].close /\ thread'[t].retire = thread[t].retire
      /\ \A s \in Threads : s # t => thread'[s] = thread[s]
  <2> DEFINE d == IF todo = {} THEN [thread[t] EXCEPT !.closing = NoPool, !.why = "", !.todo = {}]
                  ELSE [thread[t] EXCEPT !.todo = todo]
  <2>1. thread' = [thread EXCEPT ![t] = d]
    BY DEF Closing
  <2>2. /\ d \in Doing /\ d.pc = thread[t].pc /\ d.todo = todo
        /\ d.closing = (IF todo = {} THEN NoPool ELSE p)
        /\ d.close = thread[t].close /\ d.retire = thread[t].retire
    BY <1>2 DEF Doing
  <2> HIDE DEF d
  <2> QED
    BY <1>2, <2>1, <2>2 DEF TypeOK
<1>5. /\ pool' \in [PoolIds -> [cfg : Configs \cup {Gone}, closed : BOOLEAN]]
      /\ \A q \in PoolIds : q \in InUse' => pool'[q].cfg = pool[q].cfg
      /\ \A q \in PoolIds : q \in InUse' /\ q # p => pool'[q] = pool[q]
      /\ p \in InUse' => pool'[p].closed
  <2>1. pool \in [PoolIds -> [cfg : Configs \cup {Gone}, closed : BOOLEAN]]
    BY <1>2 DEF TypeOK
  <2>2. Unused \in [cfg : Configs \cup {Gone}, closed : BOOLEAN]
    BY DEF Unused
  <2> DEFINE m == [pool EXCEPT ![p].closed = TRUE]
  <2>3. /\ m \in [PoolIds -> [cfg : Configs \cup {Gone}, closed : BOOLEAN]] /\ m[p].closed
        /\ \A q \in PoolIds : m[q].cfg = pool[q].cfg /\ (q # p => m[q] = pool[q])
    BY <1>2, <2>1
  <2>4. pool' = [q \in PoolIds |-> IF q \in InUse' THEN m[q] ELSE Unused]
    BY <1>3 DEF Collect
  <2> HIDE DEF m
  <2> QED
    BY <1>2, <2>2, <2>3, <2>4
<1>6. /\ \A c \in Clusters : registry[c] # p
      /\ \A u \in Users : user[u].pc = "make" => user[u].pool # p
  BY <1>2, <1>1 DEF Inv, Pools, Registered, Making
<1>7. /\ \A u \in Users :
           \/ user'[u] = user[u]
           \/ user[u].pc = "open" /\ user'[u].pc \in {"idle", "told"} /\ (user'[u].pc = "told" => user'[u].pool = NoPool)
      /\ \A u \in Users \ late : user'[u].pc = "open" /\ user'[u].pool = p =>
           u \in todo \/ \E s \in Threads \ {t} : thread[s].closing = p /\ u \in thread[s].todo
  BY Zenon
<1> HIDE DEF p
<1>8. ASSUME NEW u \in Users
      PROVE  /\ \/ user'[u] = user[u]
                \/ ~ Holds(u)' /\ user[u].pc # "make" /\ user'[u].pc # "make"
             /\ user'[u].pc \in {"for", "told"} => user'[u].pool = NoPool
  <2>1. Given(u)
    BY DEF Inv, Pools
  <2> QED
    BY <2>1 DEF Given, Holds
<1>9. TypeOK'
  BY <1>1, <1>2, <1>4, <1>5 DEF TypeOK
<1>10. \A u \in Users : Holds(u)' => user'[u] = user[u] /\ Holds(u) /\ user[u].pool \in PoolIds /\ user[u].pool \in InUse'
  BY <1>8 DEF Holds, InUse, Inv, Pools, Given
<1>11. ASSUME NEW u \in Users PROVE Making(u)'
  <2>1. Making(u) /\ (user'[u].pc = "make" <=> user[u].pc = "make")
    BY <1>8 DEF Inv, Pools
  <2>2. ASSUME user'[u].pc = "make"
        PROVE  /\ ~ pool'[user'[u].pool].closed
               /\ registry[user'[u].cluster] = NoPool
               /\ \A c \in Clusters : registry[c] # user'[u].pool
               /\ \A s \in Threads : thread'[s].closing # user'[u].pool
               /\ \A v \in Users : Holds(v)' /\ user'[v].pool = user'[u].pool => v = u
    <3>1. user'[u] = user[u] /\ user[u].pool \in PoolIds /\ user[u].pool \in InUse' /\ user[u].pool # p
      BY <1>6, <1>10, <2>2 DEF Holds
    <3>2. pool'[user[u].pool] = pool[user[u].pool] /\ user[u].pool # NoPool
      BY <1>2, <1>5, <3>1, Types
    <3> QED
      BY <1>4, <1>10, <2>1, <2>2, <3>1, <3>2 DEF Making
  <2> QED
    BY <1>1, <2>1, <2>2 DEF Making
<1>12. ASSUME NEW u \in Users PROVE Given(u)'
  <2>1. Holds(u)' => user'[u].pool \in PoolIds
    BY <1>10
  <2>2. ASSUME user'[u].pc \in {"got", "join", "open"}
        PROVE  /\ \/ pool'[user'[u].pool].closed
                  \/ registry[user'[u].cluster] = user'[u].pool
                  \/ \E s \in Threads : thread'[s].closing = user'[u].pool
               /\ user'[u].pc = "open" /\ u \notin late => ~ pool'[user'[u].pool].closed \/ Awaited(u)'
    <3>1. user'[u] = user[u] /\ user[u].pool \in PoolIds /\ user[u].pool \in InUse' /\ Given(u)
      BY <1>10, <2>2 DEF Holds, Inv, Pools
    <3>2. CASE user[u].pool = p
      <4>1. pool'[p].closed
        BY <1>5, <3>1, <3>2
      <4>2. user[u].pc = "open" /\ u \notin late => Awaited(u)'
        BY <1>4, <1>7, <3>1, <3>2 DEF Awaited
      <4> QED
        BY <3>1, <3>2, <4>1, <4>2
    <3>3. CASE user[u].pool # p
      <4>1. pool'[user[u].pool] = pool[user[u].pool]
        BY <1>5, <3>1, <3>3
      <4>2. \A s \in Threads : thread[s].closing = user[u].pool => thread'[s] = thread[s]
        BY <1>4, <3>3 DEF p
      <4>3. Awaited(u) => Awaited(u)'
        BY <3>1, <4>2 DEF Awaited
      <4> QED
        BY <2>2, <3>1, <4>1, <4>2, <4>3 DEF Given
    <3> QED
      BY <3>2, <3>3
  <2> QED
    BY <1>1, <1>8, <2>1, <2>2 DEF Given
<1>13. ASSUME NEW c \in Clusters, registry[c] # NoPool
       PROVE  pool'[registry[c]] = pool[registry[c]] /\ registry[c] \in PoolIds
  <2>1. registry[c] \in PoolIds /\ registry'[c] \in InUse'
    BY <1>2, <1>13, Types DEF InUse
  <2> QED
    BY <1>1, <1>5, <1>6, <2>1
<1>14. ASSUME NEW c \in Clusters PROVE Registered(c)'
  <2>1. Registered(c)
    BY DEF Inv, Pools
  <2>2. registry[c] # NoPool => \A s \in Threads : thread'[s].closing # registry[c]
    BY <1>4, <1>6, <2>1 DEF Registered
  <2> QED
    BY <1>1, <1>13, <2>1, <2>2 DEF Registered
<1>15. ASSUME NEW s \in Threads PROVE Loading(s)' /\ Visiting(s)'
  <2>1. Loading(s) /\ Visiting(s) /\ thread[s] \in Doing
    BY <1>2, Types DEF Inv, Pools
  <2>2. Loading(s)'
    BY <1>4, <2>1 DEF Loading, p
  <2>3. CASE s = t
    <3>1. todo # {} => p \in InUse'
      BY <1>4 DEF InUse
    <3> QED
      BY <1>1, <1>4, <1>5, <2>2, <2>3, <3>1 DEF Visiting
  <2>4. CASE s # t
    <3>1. thread'[s] = thread[s]
      BY <1>4, <2>4
    <3>2. thread[s].closing \in PoolIds => thread[s].closing \in InUse'
      BY <3>1 DEF InUse
    <3>3. thread[s].closing \in PoolIds /\ pool[thread[s].closing].closed => pool'[thread[s].closing].closed
      BY <1>5, <3>2
    <3> QED
      BY <2>1, <2>2, <3>1, <3>3 DEF Visiting, Doing
  <2> QED
    BY <2>3, <2>4
<1>16. ASSUME NEW c \in Clusters PROVE Owed(c)'
  <2> SUFFICES ASSUME NEW q \in PoolIds, PoolOf(c, q)'
               PROVE  /\ pool'[q].cfg \in Configs
                      /\ c \notin skipped /\ pool'[q].cfg # entries[c] =>
                           \E s \in Threads : c \in thread'[s].close \cup thread'[s].retire
    BY <1>1 DEF Owed
  <2>1. PoolOf(c, q) /\ pool'[q].cfg = pool[q].cfg
    <3>1. CASE q # NoPool /\ registry[c] = q
      BY <1>13, <3>1 DEF PoolOf
    <3>2. ASSUME NEW v \in Users, user'[v].pc = "make", user'[v].cluster = c, user'[v].pool = q
          PROVE  PoolOf(c, q) /\ pool'[q].cfg = pool[q].cfg
      <4>1. user'[v] = user[v] /\ q \in InUse'
        BY <1>10, <3>2 DEF Holds
      <4> QED
        BY <1>5, <3>2, <4>1 DEF PoolOf
    <3> QED
      BY <1>1, <3>1, <3>2 DEF PoolOf
  <2>2. /\ pool[q].cfg \in Configs
        /\ c \notin skipped /\ pool[q].cfg # entries[c] =>
             \E s \in Threads : c \in thread[s].close \cup thread[s].retire
    BY <2>1 DEF Inv, Owed
  <2>3. \A s \in Threads : thread'[s].close = thread[s].close /\ thread'[s].retire = thread[s].retire
    BY <1>4
  <2> QED
    BY <2>1, <2>2, <2>3
<1>17. ConnectedListed'
  BY <1>1 DEF Inv, ConnectedListed
<1> QED
  BY <1>9, <1>11, <1>12, <1>14, <1>15, <1>16, <1>17 DEF Inv, Pools

LEMMA CloseMarksStep ==
  ASSUME Inv, NEW t \in Threads, CloseMarks(t)
  PROVE  Inv'
<1> DEFINE p == thread[t].closing
           todo == {u \in Users : user[u].pc \in {"join", "open"} /\ user[u].pool = p}
           pools == [pool EXCEPT ![p].closed = TRUE]
<1>1. /\ p # NoPool /\ Closing(t, todo) /\ Collect(pools) /\ user' = user
      /\ UNCHANGED <<disk, watch, table, registry, rlock, ghost, late>>
  BY DEF CloseMarks
<1>2. todo \in SUBSET Users /\ user' \in [Users -> [pc : {"idle"}] \cup Busy]
  BY <1>1 DEF Inv, Pools, TypeOK
<1>3. \A u \in Users : user'[u].pc = "open" /\ user'[u].pool = thread[t].closing => u \in todo
  BY <1>1
<1>4. pools = [pool EXCEPT ![thread[t].closing].closed = TRUE]
  OBVIOUS
<1> HIDE DEF todo, pools
<1> QED
  BY <1>1, <1>2, <1>3, <1>4, CloseMoves

LEMMA CloseVisitsStep ==
  ASSUME Inv, NEW t \in Threads, NEW u \in Users, CloseVisits(t, u)
  PROVE  Inv'
<1> DEFINE p == thread[t].closing
           todo == thread[t].todo \ {u}
<1>1. /\ u \in thread[t].todo /\ Closing(t, todo) /\ Collect(pool)
      /\ UNCHANGED <<disk, watch, table, registry, rlock, ghost, late>>
  BY DEF CloseVisits
<1>2. TypeOK /\ thread[t] \in Doing /\ p # NoPool /\ pool[p].closed
  BY <1>1, Types DEF Inv, Pools, Visiting
<1>3. p \in PoolIds /\ todo \in SUBSET Users
  BY <1>2 DEF Doing
<1>4. pool = [pool EXCEPT ![p].closed = TRUE]
  BY <1>2, <1>3 DEF TypeOK
<1>5. PICK r \in [pc : {"idle"}] \cup Busy :
        /\ user' = [user EXCEPT ![u] = r]
        /\ \/ r = user[u] /\ (user[u].pc # "open" \/ user[u].pool # p)
           \/ user[u].pc = "open" /\ r.pc \in {"idle", "told"} /\ (r.pc = "told" => r.pool = NoPool)
  <2>1. CASE user[u].pc # "open" \/ user[u].pool # p
    <3>1. user' = [user EXCEPT ![u] = user[u]] /\ user[u] \in [pc : {"idle"}] \cup Busy
      BY <1>2, <2>1 DEF CloseVisits, TypeOK
    <3> QED
      BY <2>1, <3>1
  <2>2. CASE user[u].pc = "open" /\ user[u].pool = p
    <3> DEFINE told == [user[u] EXCEPT !.pc = "told", !.pool = NoPool]
    <3>1. told \in Busy /\ told.pc = "told" /\ told.pool = NoPool
      BY <1>2, <2>2, Types DEF Busy
    <3>2. Rest \in [pc : {"idle"}] /\ Rest.pc = "idle"
      BY DEF Rest
    <3>3. user' = [user EXCEPT ![u] = told] \/ user' = [user EXCEPT ![u] = Rest]
      BY <2>2 DEF CloseVisits
    <3> HIDE DEF told
    <3> QED
      BY <2>2, <3>1, <3>2, <3>3
  <2> QED
    BY <2>1, <2>2
<1>6. user' \in [Users -> [pc : {"idle"}] \cup Busy] /\ user'[u] = r /\ \A v \in Users : v # u => user'[v] = user[v]
  BY <1>2, <1>5 DEF TypeOK
<1>7. ASSUME NEW v \in Users \ late, user'[v].pc = "open", user'[v].pool = p
      PROVE  v \in todo \/ \E s \in Threads \ {t} : thread[s].closing = p /\ v \in thread[s].todo
  <2>1. v # u
    BY <1>5, <1>6, <1>7
  <2>2. Awaited(v) /\ user[v].pool = p
    BY <1>2, <1>6, <1>7, <2>1 DEF Inv, Pools, Given
  <2> QED
    BY <2>1, <2>2 DEF Awaited
<1> QED
  BY <1>1, <1>2, <1>3, <1>4, <1>5, <1>6, <1>7, CloseMoves

-----------------------------------------------------------------------------
(* Steps of the kubeconfig and of the connect request *)

(* They change neither pools nor what is done with them. *)
LEMMA SameHooks ==
  ASSUME Inv, TypeOK', ConnectedListed', UNCHANGED <<entries, skipped>>,
         UNCHANGED <<registry, pool, rlock, user, thread, late>>
  PROVE  Inv'
<1>1. \A u \in Users : Making(u)' /\ Given(u)'
  BY DEF Inv, Pools, Making, Given, Holds, Awaited
<1>2. \A c \in Clusters : Registered(c)'
  BY DEF Inv, Pools, Registered
<1>3. \A t \in Threads : Loading(t)' /\ Visiting(t)'
  BY DEF Inv, Pools, Loading, Visiting
<1>4. \A c \in Clusters : Owed(c)'
  BY DEF Inv, Owed, PoolOf
<1> QED
  BY <1>1, <1>2, <1>3, <1>4 DEF Inv, Pools

LEMMA EditStep ==
  ASSUME Inv, NEW f \in Files, Edit(f)
  PROVE  Inv'
<1>1. /\ UNCHANGED <<entries, connected>> /\ UNCHANGED <<registry, pool, rlock, user, thread>>
      /\ UNCHANGED <<raced, outrun, skipped, late>> /\ UNCHANGED <<listed, watched, dirty>>
  BY DEF Edit, table, reg, ghost
<1>2. TypeOK
  BY DEF Inv, Pools
<1>3. file' \in Content /\ edits' \in 0 .. MaxEdits /\ readable' \in BOOLEAN
  BY <1>2, ChangeTypes DEF Edit
<1>4. event' \subseteq Files /\ missed' \in BOOLEAN
  <2>1. \/ event' = event \cup {f} /\ missed' = missed
        \/ event' = event /\ missed' = TRUE
    BY Zenon DEF Edit
  <2> QED
    BY <1>2, <2>1 DEF TypeOK
<1>5. TypeOK'
  BY <1>1, <1>2, <1>3, <1>4 DEF TypeOK
<1>6. ConnectedListed'
  BY <1>1 DEF Inv, ConnectedListed
<1> QED
  BY <1>1, <1>5, <1>6, SameHooks

LEMMA WatchSeesStep ==
  ASSUME Inv, NEW f \in Files, WatchSees(f)
  PROVE  Inv'
<1>1. /\ UNCHANGED <<entries, connected>> /\ UNCHANGED <<registry, pool, rlock, user, thread>>
      /\ UNCHANGED <<raced, outrun, skipped, late>> /\ UNCHANGED <<file, readable, listed, edits, watched>>
  BY DEF WatchSees, disk, table, reg, ghost
<1>2. TypeOK
  BY DEF Inv, Pools
<1>3. event' \subseteq Files /\ dirty' \in BOOLEAN /\ missed' \in BOOLEAN
  BY <1>2 DEF WatchSees, TypeOK
<1>4. TypeOK'
  BY <1>1, <1>2, <1>3 DEF TypeOK
<1>5. ConnectedListed'
  BY <1>1 DEF Inv, ConnectedListed
<1> QED
  BY <1>1, <1>4, <1>5, SameHooks

LEMMA ConnectOnlyStep ==
  ASSUME Inv, NEW c \in Clusters, ConnectOnly(c)
  PROVE  Inv'
<1>1. /\ UNCHANGED <<file, readable, listed, edits>> /\ UNCHANGED <<watched, event, dirty, missed>> /\ UNCHANGED <<registry, pool, rlock, user, thread>>
      /\ UNCHANGED <<raced, outrun, skipped, late>> /\ UNCHANGED entries
  BY DEF ConnectOnly, disk, watch, reg, ghost
<1>2. TypeOK'
  BY <1>1 DEF ConnectOnly, Inv, Pools, TypeOK
<1>3. ConnectedListed'
  BY NoSuchConfig DEF ConnectOnly, Inv, ConnectedListed
<1> QED
  BY <1>1, <1>2, <1>3, SameHooks

LEMMA Stutter == Inv /\ UNCHANGED vars => Inv'
<1> SUFFICES ASSUME Inv, UNCHANGED vars PROVE Inv'
  OBVIOUS
<1>1. TypeOK'
  BY DEF vars, disk, watch, table, reg, ghost, Inv, Pools, TypeOK
<1>2. ConnectedListed'
  BY DEF vars, table, Inv, ConnectedListed
<1> QED
  BY <1>1, <1>2, SameHooks DEF vars, table, reg, ghost

LEMMA NextInv == Inv /\ [Next]_vars => Inv'
<1> SUFFICES ASSUME Inv, [Next]_vars PROVE Inv'
  OBVIOUS
<1>1. ASSUME NEW u \in Users, UserStep(u) PROVE Inv'
  BY <1>1, ConnectStep, RestSteps, ForFoundStep, ForReadsStep, ForMakesStep, FetchStep, JoinStep DEF UserStep
<1>2. ASSUME NEW u \in Users, Unsubscribe(u) PROVE Inv'
  BY <1>2, RestSteps
<1>3. ASSUME NEW u \in Users, NEW c \in Clusters, Connect(u, c) \/ Read(u, c) PROVE Inv'
  BY <1>3, ConnectStep, ReadStep
<1>4. ASSUME NEW t \in Threads, ThreadStep(t) PROVE Inv'
  BY <1>4, WatchFiresStep, WatchSeesStep, LoadComparesStep, LoadSwapsStep, LoadWatchesStep, TakeStep,
     CloseMarksStep, CloseVisitsStep DEF ThreadStep
<1>5. ASSUME NEW c \in Clusters, Disconnect(c) \/ ConnectOnly(c) PROVE Inv'
  BY <1>5, DisconnectStep, ConnectOnlyStep
<1>6. CASE Save \/ \E f \in Files : Edit(f)
  BY <1>6, EditStep, SaveStep
<1>7. CASE UNCHANGED vars
  BY <1>7, Stutter
<1> QED
  BY <1>1, <1>2, <1>3, <1>4, <1>5, <1>6, <1>7 DEF Next

LEMMA Invariance == Spec => []Inv
BY InitInv, NextInv, PTL DEF Spec

-----------------------------------------------------------------------------
(* The theorems *)

(* Type correctness of the manager, the registry and their users. *)
THEOREM TypeCorrect == Spec => []TypeOK
<1>1. Inv => TypeOK
  BY DEF Inv, Pools
<1> QED
  BY <1>1, Invariance, PTL

(* However reloads and disconnects race, a connected cluster is one the
   manager lists: whoever is connected to it can disconnect it
   (Manager.Load's second locked section, Connect, Disconnect). *)
THEOREM ConnectedAreListed == Spec => []ConnectedListed
<1>1. Inv => ConnectedListed
  BY DEF Inv
<1> QED
  BY <1>1, Invariance, PTL

(* However ForUser, Subscribe, Close and Retire interleave, an open stream is
   on a pool that a disconnect still reaches, and the registry never hands
   out a closed pool (PoolRegistry.ForUser, Close, Retire). *)
THEOREM DisconnectReaches == Spec => []StreamsReachable
<1>1. Inv => StreamsReachable
  <2> SUFFICES ASSUME Inv PROVE StreamsReachable
    OBVIOUS
  <2>1. ASSUME NEW u \in Users \ late, user[u].pc = "open"
        PROVE  \/ Awaited(u)
               \/ /\ ~ pool[user[u].pool].closed
                  /\ \/ registry[user[u].cluster] = user[u].pool
                     \/ \E t \in Threads : thread[t].closing = user[u].pool
    BY <2>1 DEF Inv, Pools, Given
  <2>2. \A c \in Clusters : registry[c] # NoPool => ~ pool[registry[c]].closed
    BY DEF Inv, Pools, Registered
  <2> QED
    BY <2>1, <2>2 DEF StreamsReachable
<1> QED
  BY <1>1, Invariance, PTL

(* A reload reaches the pools: one that is not built from the config its
   cluster has now is owed a hook, outside the two cases `skipped` records
   (Manager.Load's hooks, and the order of ForUser's lock and the table's). *)
THEOREM NoneMissesARotation == Spec => []CurrentOrRetiring
<1>1. Inv => CurrentOrRetiring
  <2> SUFFICES ASSUME Inv, NEW c \in Clusters \ skipped, registry[c] # NoPool,
                      pool[registry[c]].cfg # entries[c]
               PROVE  \E t \in Threads : c \in thread[t].close \cup thread[t].retire
    BY DEF CurrentOrRetiring
  <2>1. registry[c] \in PoolIds /\ PoolOf(c, registry[c])
    BY Types DEF Inv, Pools, PoolOf
  <2> QED
    BY <2>1 DEF Inv, Owed
<1> QED
  BY <1>1, Invariance, PTL

-----------------------------------------------------------------------------
(* Channels: the inductive invariant *)

(* The frames of a queue are of channels drawn.  A channel that is to be opened has
   no runner yet, is opened once, and has its view or is closed after that. *)
Sound(q, drawn, runs, views) ==
  /\ \A p \in DOMAIN q : q[p].id \in 1 .. drawn
  /\ \A p \in DOMAIN q : q[p].type = "open" =>
       /\ runs[q[p].id].at = "none"
       /\ \A r \in DOMAIN q : q[r] = q[p] => r = p
       /\ \/ \E v \in Views : views[v].id = q[p].id
          \/ \E r \in DOMAIN q : r > p /\ q[r] = Frame("close", q[p].id)

Wire ==
  /\ Sound(queue, ids, run, view) /\ Sound(toEngine, ids, run, view)
  /\ sock = "open" => queue = <<>>
  /\ sock # "open" => toEngine = <<>>

(* A view's channel is its own, and a runner is of a channel drawn and a socket opened. *)
Drawn ==
  /\ ids \in 0 .. MaxIds
  /\ \A v \in Views : view[v].id <= ids
  /\ \A v, w \in Views : view[v].id = view[w].id /\ view[v].id # 0 => v = w
  /\ \A i \in Ids : run[i].at # "none" => i <= ids /\ run[i].on \in 1 .. opens

(* A runner is in its table, or about to be: until then no frame is read. *)
InTable ==
  /\ \A i \in Ids : run[i].at = "running" /\ ~run[i].cancelled =>
       i \in chans \/ loop[run[i].on] = [at |-> "insert", id |-> i]
  /\ \A s \in Sockets : loop[s].at = "insert" => loop[s].id \in Ids

LiveIsAShell ==
  \A v \in Views : /\ view[v].phase = "live" => Kind[v] = "local-shell"
                   /\ view[v].phase # "idle" => view[v].id # 0

ChannelsInv ==
  /\ ChannelsTypeOK /\ Wire /\ Drawn /\ InTable
  /\ NoOrphan /\ LiveIsAShell /\ LiveIsRunning

ViewStates ==
  [id : {0} \cup Ids, cand : 1 .. Shells, got : BOOLEAN,
   phase : {"idle", "streaming", "closed", "connecting", "live", "ended", "lost"}]
Runners ==
  [at : {"none", "running", "said", "gone"}, on : {0} \cup Sockets, cancelled : BOOLEAN]

LEMMA ChannelsInitInv == ChannelsInit => ChannelsInv
<1> SUFFICES ASSUME ChannelsInit PROVE ChannelsInv
  OBVIOUS
<1>1. ChannelsTypeOK
  <2>1. view \in [Views -> ViewStates]
    BY SizesArePos DEF ChannelsInit, Closed, ViewStates
  <2>2. queue \in Seq(Frames) /\ toEngine \in Seq(Frames) /\ Len(queue) <= MaxQueued
    BY SizesArePos DEF ChannelsInit
  <2>3. run \in [Ids -> Runners] /\ owner \in [Ids -> Views \cup {NoView}]
    BY DEF ChannelsInit, NoRunner, Runners
  <2>4. loop \in [Sockets -> [at : {"read", "insert", "ack", "pipe"}, id : {0} \cup Ids]]
    BY DEF ChannelsInit, Reading
  <2> QED BY <2>1, <2>2, <2>3, <2>4, SizesArePos DEF ChannelsInit, ChannelsTypeOK, ViewStates, Runners
<1>2. Wire
  BY DEF ChannelsInit, Wire, Sound
<1>3. Drawn /\ InTable
  BY BoundsAreNat DEF ChannelsInit, Drawn, InTable, Closed, NoRunner, Reading, Ids
<1>4. NoOrphan /\ LiveIsAShell /\ LiveIsRunning
  BY DEF ChannelsInit, NoOrphan, LiveIsAShell, LiveIsRunning, NoRunner, Closed
<1> QED BY <1>1, <1>2, <1>3, <1>4 DEF ChannelsInv

-----------------------------------------------------------------------------
(* Frames that are sent, lost from a full queue, and read *)

(* What is left of a queue when its oldest frames are lost is as sound as it was:
   a close is never lost before the open it follows. *)
LEMMA SoundAfter ==
  ASSUME NEW q \in Seq(Frames), NEW f \in Seq(Frames), NEW n \in 0 .. Len(q \o f),
         NEW drawn \in Nat, NEW more \in Nat, drawn <= more,
         NEW runs, NEW after, NEW views, NEW later, Sound(q, drawn, runs, views),
         \A i \in 1 .. drawn : runs[i].at = "none" => after[i].at = "none",
         \A v \in Views : \/ views[v].id = 0 \/ later[v].id = views[v].id
                          \/ \E p \in DOMAIN f : f[p] = Frame("close", views[v].id),
         \A p \in DOMAIN f : f[p].id \in 1 .. more,
         \A p \in DOMAIN f : f[p].type = "open" =>
           /\ f[p].id > drawn /\ after[f[p].id].at = "none"
           /\ \A r \in DOMAIN f : f[r] = f[p] => r = p
           /\ \E v \in Views : later[v].id = f[p].id
  PROVE  Sound(SubSeq(q \o f, n + 1, Len(q \o f)), more, after, later)
<1> DEFINE all  == q \o f
           kept == SubSeq(all, n + 1, Len(all))
<1>1. /\ Len(all) = Len(q) + Len(f) /\ all \in Seq(Frames)
      /\ \A p \in 1 .. Len(all) : all[p] = IF p <= Len(q) THEN q[p] ELSE f[p - Len(q)]
  OBVIOUS
<1>2. /\ DOMAIN kept = 1 .. (Len(all) - n)
      /\ \A p \in 1 .. (Len(all) - n) : kept[p] = all[p + n] /\ p + n \in 1 .. Len(all)
  BY <1>1
<1> DEFINE Was(p) == p <= Len(q)
<1>3. ASSUME NEW p \in 1 .. Len(all) PROVE all[p].id \in 1 .. more
  <2>1. CASE Was(p)
    BY <1>1, <1>3, <2>1 DEF Sound
  <2>2. CASE ~Was(p)
    BY <1>1, <1>3, <2>2
  <2> QED BY <2>1, <2>2
<1>4. ASSUME NEW p \in 1 .. Len(all), all[p].type = "open"
      PROVE  /\ after[all[p].id].at = "none"
             /\ \A r \in 1 .. Len(all) : all[r] = all[p] => r = p
             /\ \/ \E v \in Views : later[v].id = all[p].id
                \/ \E r \in 1 .. Len(all) : r > p /\ all[r] = Frame("close", all[p].id)
  <2>1. CASE Was(p)
    <3>1. p \in DOMAIN q /\ all[p] = q[p] /\ q[p].id \in 1 .. drawn /\ q[p].type = "open"
      BY <1>1, <1>4, <2>1 DEF Sound
    <3>2. after[all[p].id].at = "none"
      BY <3>1 DEF Sound
    <3>3. ASSUME NEW r \in 1 .. Len(all), all[r] = all[p] PROVE r = p
      <4>1. CASE Was(r)
        BY <1>1, <3>1, <3>3, <4>1 DEF Sound
      <4>2. CASE ~Was(r)
        BY <1>1, <3>1, <3>3, <4>2
      <4> QED BY <4>1, <4>2
    <3>4. \/ \E v \in Views : later[v].id = all[p].id
          \/ \E r \in 1 .. Len(all) : r > p /\ all[r] = Frame("close", all[p].id)
      <4>1. CASE \E r \in DOMAIN q : r > p /\ q[r] = Frame("close", q[p].id)
        BY <1>1, <3>1, <4>1
      <4>2. CASE \E v \in Views : views[v].id = q[p].id
        <5>1. PICK v \in Views : views[v].id = q[p].id
          BY <4>2
        <5>2. CASE views[v].id = 0 \/ later[v].id = views[v].id
          BY <3>1, <5>1, <5>2
        <5>3. CASE \E r \in DOMAIN f : f[r] = Frame("close", views[v].id)
          <6>1. PICK r \in 1 .. Len(f) : f[r] = Frame("close", views[v].id)
            BY <5>3
          <6>2. Len(q) + r \in 1 .. Len(all) /\ Len(q) + r > p /\ all[Len(q) + r] = f[r]
            BY <1>1, <2>1, <6>1
          <6> QED BY <3>1, <5>1, <6>1, <6>2
        <5> QED BY <5>2, <5>3
      <4> QED BY <3>1, <4>1, <4>2 DEF Sound
    <3> QED BY <3>2, <3>3, <3>4
  <2>2. CASE ~Was(p)
    <3>1. p - Len(q) \in DOMAIN f /\ all[p] = f[p - Len(q)] /\ all[p].id > drawn
      BY <1>1, <1>4, <2>2
    <3>2. ASSUME NEW r \in 1 .. Len(all), all[r] = all[p] PROVE r = p
      <4>1. CASE Was(r)
        BY <1>1, <3>1, <3>2, <4>1 DEF Sound
      <4>2. CASE ~Was(r)
        <5>1. r - Len(q) \in DOMAIN f /\ f[r - Len(q)] = f[p - Len(q)]
          BY <1>1, <3>1, <3>2, <4>2
        <5>2. r - Len(q) = p - Len(q)
          BY <1>4, <3>1, <5>1
        <5> QED BY <5>2
      <4> QED BY <4>1, <4>2
    <3> QED BY <1>4, <3>1, <3>2
  <2> QED BY <2>1, <2>2
<1> HIDE DEF all, kept, Was
<1>5. \A p \in DOMAIN kept : kept[p].id \in 1 .. more
  BY <1>2, <1>3
<1>6. ASSUME NEW p \in DOMAIN kept, kept[p].type = "open"
      PROVE  /\ after[kept[p].id].at = "none"
             /\ \A r \in DOMAIN kept : kept[r] = kept[p] => r = p
             /\ \/ \E v \in Views : later[v].id = kept[p].id
                \/ \E r \in DOMAIN kept : r > p /\ kept[r] = Frame("close", kept[p].id)
  <2>1. p + n \in 1 .. Len(all) /\ kept[p] = all[p + n] /\ p \in 1 .. (Len(all) - n)
    BY <1>2
  <2>2. ASSUME NEW r \in DOMAIN kept, kept[r] = kept[p] PROVE r = p
    <3>1. r + n \in 1 .. Len(all) /\ all[r + n] = all[p + n] /\ r \in Int /\ p \in Int /\ n \in Int
      BY <1>2, <2>1, <2>2
    <3>2. r + n = p + n
      BY <1>4, <1>6, <2>1, <3>1
    <3> QED BY <3>1, <3>2
  <2>3. ASSUME NEW r \in 1 .. Len(all), r > p + n, all[r] = Frame("close", kept[p].id)
        PROVE  \E u \in DOMAIN kept : u > p /\ kept[u] = Frame("close", kept[p].id)
    <3>1. r - n \in DOMAIN kept /\ r - n > p /\ kept[r - n] = all[(r - n) + n]
      BY <1>1, <1>2, <2>1, <2>3
    <3>2. (r - n) + n = r
      OBVIOUS
    <3> QED BY <2>3, <3>1, <3>2
  <2> QED BY <1>4, <1>6, <2>1, <2>2, <2>3
<1> QED BY <1>5, <1>6 DEF Sound, kept, all

(* The same of a queue that is only read, or not at all. *)
LEMMA SoundTail ==
  ASSUME NEW q \in Seq(Frames), q # <<>>, NEW drawn, NEW runs, NEW views, Sound(q, drawn, runs, views)
  PROVE  /\ Tail(q) \in Seq(Frames) /\ Sound(Tail(q), drawn, runs, views)
         /\ \A p \in DOMAIN Tail(q) : Tail(q)[p] = q[p + 1] /\ p + 1 \in DOMAIN q
         /\ \A p \in DOMAIN q : p # 1 => p - 1 \in DOMAIN Tail(q) /\ Tail(q)[p - 1] = q[p]
<1>1. /\ Tail(q) \in Seq(Frames) /\ DOMAIN Tail(q) = 1 .. (Len(q) - 1) /\ DOMAIN q = 1 .. Len(q)
      /\ Len(q) \in Nat /\ Len(q) > 0
      /\ \A p \in 1 .. (Len(q) - 1) : Tail(q)[p] = q[p + 1]
  OBVIOUS
<1>2. \A p \in DOMAIN Tail(q) : Tail(q)[p] = q[p + 1] /\ p + 1 \in DOMAIN q
  BY <1>1
<1>3. \A p \in DOMAIN q : p # 1 => p - 1 \in DOMAIN Tail(q) /\ Tail(q)[p - 1] = q[p]
  <2> SUFFICES ASSUME NEW p \in 1 .. Len(q), p # 1
               PROVE  p - 1 \in DOMAIN Tail(q) /\ Tail(q)[p - 1] = q[p]
    BY <1>1
  <2>1. p - 1 \in 1 .. (Len(q) - 1) /\ (p - 1) + 1 = p
    BY <1>1
  <2> QED BY <1>1, <2>1
<1>4. ASSUME NEW p \in DOMAIN Tail(q), Tail(q)[p].type = "open"
      PROVE  /\ runs[Tail(q)[p].id].at = "none"
             /\ \A r \in DOMAIN Tail(q) : Tail(q)[r] = Tail(q)[p] => r = p
             /\ \/ \E v \in Views : views[v].id = Tail(q)[p].id
                \/ \E r \in DOMAIN Tail(q) : r > p /\ Tail(q)[r] = Frame("close", Tail(q)[p].id)
  <2>1. p + 1 \in DOMAIN q /\ Tail(q)[p] = q[p + 1] /\ p \in Nat
    BY <1>1, <1>2
  <2>2. \A r \in DOMAIN Tail(q) : Tail(q)[r] = Tail(q)[p] => r = p
    <3> SUFFICES ASSUME NEW r \in DOMAIN Tail(q), Tail(q)[r] = Tail(q)[p] PROVE r = p
      OBVIOUS
    <3>1. r + 1 = p + 1
      BY <1>2, <1>4, <2>1 DEF Sound
    <3> QED BY <1>1, <2>1, <3>1
  <2>3. ASSUME NEW r \in DOMAIN q, r > p + 1, q[r] = Frame("close", q[p + 1].id)
        PROVE  \E u \in DOMAIN Tail(q) : u > p /\ Tail(q)[u] = Frame("close", Tail(q)[p].id)
    <3>1. r # 1 /\ r - 1 > p
      BY <1>1, <2>1, <2>3
    <3> QED BY <1>3, <2>1, <2>3, <3>1
  <2> QED BY <1>4, <2>1, <2>2, <2>3 DEF Sound
<1>5. \A p \in DOMAIN Tail(q) : Tail(q)[p].id \in 1 .. drawn
  BY <1>2 DEF Sound
<1> QED BY <1>1, <1>2, <1>3, <1>4, <1>5 DEF Sound

LEMMA SoundStill ==
  ASSUME NEW q, NEW drawn, NEW runs, NEW after, NEW views, NEW later, Sound(q, drawn, runs, views),
         \A p \in DOMAIN q : q[p].type = "open" /\ runs[q[p].id].at = "none" => after[q[p].id].at = "none",
         \A v \in Views : later[v].id = views[v].id
  PROVE  Sound(q, drawn, after, later)
BY DEF Sound

-----------------------------------------------------------------------------
(* The client *)

(* What frames the client may send while its views and the runners change so: an
   open is of a new channel, and a view that leaves its channel closes it. *)
Sends(f) ==
  /\ f \in Seq(Frames) /\ ids' \in Nat /\ ids <= ids'
  /\ \A v \in Views : \/ view[v].id = 0 \/ view'[v].id = view[v].id
                      \/ \E p \in DOMAIN f : f[p] = Frame("close", view[v].id)
  /\ \A p \in DOMAIN f : f[p].id \in 1 .. ids'
  /\ \A p \in DOMAIN f : f[p].type = "open" =>
       /\ f[p].id > ids
       /\ \A r \in DOMAIN f : f[r] = f[p] => r = p
       /\ \E v \in Views : view'[v].id = f[p].id

(* A runner goes on as it was, or is past its end. *)
Goes(was, is) == is = was \/ (was.at # "none" /\ is.at \in {"said", "gone"} /\ is.on = was.on)

LEMMA SendWire ==
  ASSUME ChannelsInv, NEW f, Sends(f), Send(f), UNCHANGED <<sock, opens>>, ids' \in 0 .. MaxIds,
         \A i \in Ids : Goes(run[i], run'[i])
  PROVE  /\ queue' \in Seq(Frames) /\ Len(queue') <= MaxQueued /\ toEngine' \in Seq(Frames)
         /\ Wire' /\ NoOrphan'
<1> DEFINE all == queue \o f
           cut == IF Len(all) > MaxQueued THEN Len(all) - MaxQueued ELSE 0
<1>1. /\ f \in Seq(Frames) /\ queue \in Seq(Frames) /\ toEngine \in Seq(Frames)
      /\ ids \in Nat /\ ids' \in Nat /\ ids <= ids' /\ MaxQueued \in Nat
      /\ Sound(queue, ids, run, view) /\ Sound(toEngine, ids, run, view)
  BY SizesArePos DEF Sends, ChannelsInv, ChannelsTypeOK, Drawn, Wire
<1>2. \A i \in 1 .. ids' : run[i].at = "none" => run'[i].at = "none"
  <2>1. \A i \in 1 .. ids' : i \in Ids
    BY BoundsAreNat DEF Ids
  <2> QED BY <2>1 DEF Goes
<1>3. \A i \in 1 .. ids' : i > ids => run[i].at = "none"
  BY BoundsAreNat DEF ChannelsInv, Drawn, Ids
<1>4. /\ \A p \in DOMAIN f : f[p].id \in 1 .. ids'
      /\ \A p \in DOMAIN f : f[p].type = "open" =>
           /\ f[p].id > ids /\ run'[f[p].id].at = "none"
           /\ \A r \in DOMAIN f : f[r] = f[p] => r = p
           /\ \E v \in Views : view'[v].id = f[p].id
  BY <1>2, <1>3 DEF Sends
<1>5. ASSUME NEW q \in Seq(Frames), Sound(q, ids, run, view), NEW n \in 0 .. Len(q \o f)
      PROVE  Sound(SubSeq(q \o f, n + 1, Len(q \o f)), ids', run', view')
  <2>1. \A i \in 1 .. ids : run[i].at = "none" => run'[i].at = "none"
    BY <1>1, <1>2
  <2>2. \A v \in Views : view[v].id = 0 \/ view'[v].id = view[v].id \/ \E p \in DOMAIN f : f[p] = Frame("close", view[v].id)
    BY DEF Sends
  <2>3. /\ f \in Seq(Frames) /\ ids \in Nat /\ ids' \in Nat /\ ids <= ids'
    BY <1>1
  <2> QED BY <1>4, <1>5, <2>1, <2>2, <2>3, SoundAfter, ZenonT(60)
<1>6. CASE sock = "open"
  <2>1. toEngine' = toEngine \o f /\ queue' = <<>> /\ queue' = queue
    BY <1>6 DEF Send, ChannelsInv, Wire
  <2>2. toEngine' \in Seq(Frames) /\ toEngine' = SubSeq(toEngine \o f, 0 + 1, Len(toEngine \o f))
        /\ 0 \in 0 .. Len(toEngine \o f)
    BY <1>1, <2>1
  <2>3. Sound(toEngine', ids', run', view')
    BY <1>1, <1>5, <2>2
  <2>4. Wire'
    <3>1. Sound(<<>>, ids', run', view')
      BY DEF Sound
    <3>2. sock' = "open" /\ queue' = <<>>
      BY <1>6, <2>1
    <3> QED BY <2>3, <3>1, <3>2 DEF Wire
  <2>5. NoOrphan'
    <3> SUFFICES ASSUME NEW i \in Ids, run'[i].at = "running", ~run'[i].cancelled
                 PROVE  (\/ Live(run[i].on) /\ (Wanted(i) \/ Frame("close", i) \in ToSet(toEngine))
                         \/ ~Live(run[i].on) /\ run[i].on > 0)'
      BY DEF NoOrphan
    <3>1. run'[i] = run[i]
      BY DEF Goes
    <3>2. Live(run[i].on)' <=> Live(run[i].on)
      BY <3>1 DEF Live
    <3>3. CASE ~Live(run[i].on)
      BY <3>1, <3>2, <3>3 DEF ChannelsInv, NoOrphan
    <3>4. CASE Live(run[i].on)
      <4>1. CASE Frame("close", i) \in ToSet(toEngine)
        <5>1. PICK p \in DOMAIN toEngine : toEngine[p] = Frame("close", i)
          BY <4>1 DEF ToSet
        <5>2. p \in DOMAIN toEngine' /\ toEngine'[p] = toEngine[p]
          BY <1>1, <2>1, <5>1
        <5>3. Frame("close", i) \in ToSet(toEngine')
          BY <5>1, <5>2 DEF ToSet
        <5> QED BY <3>1, <3>2, <3>4, <5>3
      <4>2. CASE Wanted(i)
        <5>1. PICK v \in Views : view[v].id = i
          BY <4>2 DEF Wanted
        <5>2. CASE view[v].id = 0 \/ view'[v].id = view[v].id
          <6>1. view'[v].id = i
            BY <5>1, <5>2 DEF Ids
          <6> QED BY <3>1, <3>2, <3>4, <6>1 DEF Wanted
        <5>3. CASE \E p \in DOMAIN f : f[p] = Frame("close", i)
          <6>1. PICK p \in 1 .. Len(f) : f[p] = Frame("close", i)
            BY <1>1, <5>3
          <6>2. Len(toEngine) + p \in DOMAIN toEngine' /\ toEngine'[Len(toEngine) + p] = f[p]
            BY <1>1, <2>1, <6>1
          <6>3. Frame("close", i) \in ToSet(toEngine')
            BY <6>1, <6>2 DEF ToSet
          <6> QED BY <3>1, <3>2, <3>4, <6>3
        <5> QED BY <5>1, <5>2, <5>3 DEF Sends
      <4> QED BY <3>1, <3>4, <4>1, <4>2 DEF ChannelsInv, NoOrphan
    <3> QED BY <3>3, <3>4
  <2> QED BY <1>1, <2>1, <2>2, <2>4, <2>5, SizesArePos
<1>7. CASE sock # "open"
  <2>1. queue' = SubSeq(all, cut + 1, Len(all)) /\ toEngine' = toEngine /\ toEngine = <<>>
    BY <1>7 DEF Send, ChannelsInv, Wire
  <2>2. all \in Seq(Frames) /\ cut \in 0 .. Len(all) /\ Len(all) - cut <= MaxQueued
    BY <1>1
  <2>3. queue' \in Seq(Frames) /\ Len(queue') <= MaxQueued
    BY <2>1, <2>2
  <2>4. Sound(queue', ids', run', view')
    BY <1>1, <1>5, <2>1, <2>2
  <2>5. Wire'
    <3>1. Sound(<<>>, ids', run', view')
      BY DEF Sound
    <3>2. sock' # "open" /\ toEngine' = <<>>
      BY <1>7, <2>1
    <3> HIDE DEF all, cut
    <3> QED BY <2>4, <3>1, <3>2 DEF Wire
  <2>6. NoOrphan'
    BY <1>7 DEF ChannelsInv, NoOrphan, Goes, Live
  <2> QED BY <1>1, <2>1, <2>3, <2>5, <2>6
<1> QED BY <1>6, <1>7

(* A step after which each view has the channel it had leaves the frames sound. *)
LEMMA StillWire ==
  ASSUME ChannelsInv, UNCHANGED <<sock, opens, queue, toEngine, ids>>,
         \A v \in Views : view'[v].id = view[v].id,
         \A i \in Ids : \/ Goes(run[i], run'[i])
                        \/ /\ run'[i].at = run[i].at /\ run'[i].on = run[i].on
                           /\ run'[i].at = "running" => run'[i].cancelled
  PROVE  Wire' /\ NoOrphan'
<1>1. \A i \in 1 .. ids : i \in Ids
  BY BoundsAreNat DEF ChannelsInv, Drawn, Ids
<1>2. \A i \in 1 .. ids : run[i].at = "none" => run'[i].at = "none"
  BY <1>1 DEF Goes
<1>3. Sound(queue, ids, run', view') /\ Sound(toEngine, ids, run', view')
  <2>1. \A p \in DOMAIN queue : queue[p].id \in 1 .. ids
    BY DEF ChannelsInv, Wire, Sound
  <2>2. \A p \in DOMAIN toEngine : toEngine[p].id \in 1 .. ids
    BY DEF ChannelsInv, Wire, Sound
  <2> QED BY <1>2, <2>1, <2>2, SoundStill DEF ChannelsInv, Wire
<1>4. Wire'
  BY <1>3 DEF ChannelsInv, Wire
<1>5. NoOrphan'
  BY DEF ChannelsInv, NoOrphan, Goes, Live, Wanted
<1> QED BY <1>4, <1>5

(* One view at most changes, and then it is on no channel or on a new one. *)
Turns ==
  /\ view' \in [Views -> ViewStates]
  /\ \/ ids' = ids /\ \A v \in Views : view'[v] = view[v] \/ (view'[v].id = 0 /\ view'[v].phase = "idle")
     \/ \E w \in Views :
          /\ ids' = ids + 1 /\ ids' # 0 /\ view'[w].id = ids' /\ view'[w].phase # "live"
          /\ \A v \in Views \ {w} : view'[v] = view[v]

LEMMA ClientInv ==
  ASSUME ChannelsInv, NEW f, Sends(f), Send(f), UNCHANGED <<sock, opens, chans, loop>>,
         ids' \in 0 .. MaxIds, owner' \in [Ids -> Views \cup {NoView}], Turns,
         run' \in [Ids -> Runners],
         \A i \in Ids : Goes(run[i], run'[i]) /\ (run'[i] = run[i] \/ \A v \in Views : view'[v].id # i)
  PROVE  ChannelsInv'
<1>a. \A i \in Ids : Goes(run[i], run'[i])
  OBVIOUS
<1>1. /\ queue' \in Seq(Frames) /\ Len(queue') <= MaxQueued /\ toEngine' \in Seq(Frames)
      /\ Wire' /\ NoOrphan'
  BY <1>a, SendWire
<1>2. ChannelsTypeOK'
  BY <1>1 DEF ChannelsInv, ChannelsTypeOK, Turns, ViewStates, Runners
<1>3. Drawn'
  <2>1. ids \in Nat /\ MaxIds \in Nat /\ ids' \in Nat /\ ids <= ids'
    BY BoundsAreNat DEF ChannelsInv, Drawn, Turns
  <2>2. \A v \in Views : view[v].id \in Nat /\ view[v].id <= ids
    BY DEF ChannelsInv, Drawn, ChannelsTypeOK, Ids
  <2>3. \A v \in Views : view'[v].id <= ids'
    BY <2>1, <2>2 DEF Turns
  <2>4. \A v, w \in Views : view'[v].id = view'[w].id /\ view'[v].id # 0 => v = w
    BY <2>1, <2>2 DEF ChannelsInv, Drawn, Turns
  <2>5. \A i \in Ids : run'[i].at # "none" => i <= ids' /\ run'[i].on \in 1 .. opens'
    BY <1>a, <2>1 DEF ChannelsInv, Drawn, Ids, Goes
  <2> QED BY <2>3, <2>4, <2>5 DEF Drawn
<1>4. InTable'
  BY <1>a DEF ChannelsInv, InTable, Goes
<1>5. LiveIsAShell'
  BY DEF ChannelsInv, LiveIsAShell, Turns
<1>6. LiveIsRunning'
  <2> SUFFICES ASSUME NEW v \in Views, view'[v].phase = "live"
               PROVE  (run[view[v].id].at = "running" /\ Live(run[view[v].id].on))'
    BY DEF LiveIsRunning
  <2>1. view'[v] = view[v] /\ view[v].id \in Ids
    <3>1. view'[v] = view[v]
      BY DEF Turns
    <3> QED BY <3>1 DEF ChannelsInv, LiveIsAShell, ChannelsTypeOK
  <2>2. run'[view[v].id] = run[view[v].id]
    BY <2>1
  <2> QED BY <2>1, <2>2 DEF ChannelsInv, LiveIsRunning, Live
<1> QED BY <1>1, <1>2, <1>3, <1>4, <1>5, <1>6 DEF ChannelsInv

(* The runners are left alone. *)
LEMMA RunnersStay ==
  ASSUME ChannelsInv, UNCHANGED run
  PROVE  /\ run' \in [Ids -> Runners]
         /\ \A i \in Ids : Goes(run[i], run'[i]) /\ (run'[i] = run[i] \/ \A v \in Views : view'[v].id # i)
BY DEF ChannelsInv, ChannelsTypeOK, Runners, Goes

LEMMA FreshView ==
  ASSUME ChannelsInv, NEW v \in Views, NEW i \in Ids
  PROVE  Fresh(v, i) \in ViewStates /\ Fresh(v, i).id = i /\ Fresh(v, i).phase # "live"
<1> DEFINE phase == IF Kind[v] = "logs" THEN "streaming" ELSE "connecting"
<1>1. Closed \in ViewStates
  BY SizesArePos DEF Closed, ViewStates
<1>2. Fresh(v, i) = [Closed EXCEPT !.id = i, !.phase = phase]
  BY DEF Fresh
<1>3. phase \in {"streaming", "connecting"}
  OBVIOUS
<1> HIDE DEF phase
<1>4. \A c \in ViewStates : /\ [c EXCEPT !.id = i, !.phase = phase] \in ViewStates
                           /\ [c EXCEPT !.id = i, !.phase = phase].id = i
                           /\ [c EXCEPT !.id = i, !.phase = phase].phase = phase
  BY <1>3 DEF ViewStates
<1> QED BY <1>1, <1>2, <1>3, <1>4

LEMMA NextId ==
  ASSUME ChannelsInv, ids < MaxIds, ids' = ids + 1
  PROVE  /\ ids' \in Ids /\ ids' \in 0 .. MaxIds /\ ids' \in Nat /\ ids <= ids' /\ ids' > ids
         /\ ids \in Nat /\ Frame("open", ids') \in Frames /\ ids' \in 1 .. ids'
BY BoundsAreNat DEF ChannelsInv, Drawn, Ids, Frame, Frames

LEMMA ViewId ==
  ASSUME ChannelsInv, NEW v \in Views, view[v].id # 0
  PROVE  /\ view[v].id \in Ids /\ view[v].id \in 1 .. ids /\ ids \in Nat
         /\ Frame("close", view[v].id) \in Frames /\ Frame("input", view[v].id) \in Frames
BY BoundsAreNat DEF ChannelsInv, ChannelsTypeOK, Drawn, Ids, Frame, Frames

LEMMA MountInv ==
  ASSUME ChannelsInv, NEW v \in Views, Mount(v)
  PROVE  ChannelsInv'
<1> DEFINE f == <<Frame("open", ids')>>
<1>1. /\ view' = [view EXCEPT ![v] = Fresh(v, ids')] /\ view[v].id = 0
      /\ ids' = ids + 1 /\ ids < MaxIds /\ Send(f) /\ owner' = [owner EXCEPT ![ids'] = v]
      /\ UNCHANGED <<sock, opens, run, chans, loop>>
  BY DEF Mount
<1>2. view \in [Views -> ViewStates] /\ owner \in [Ids -> Views \cup {NoView}]
  BY DEF ChannelsInv, ChannelsTypeOK, ViewStates
<1>3. view'[v].id = ids' /\ view'[v].phase # "live" /\ \A w \in Views \ {v} : view'[w] = view[w]
  BY <1>1, <1>2, NextId, FreshView
<1>4. Turns
  BY <1>1, <1>2, <1>3, NextId, FreshView DEF Turns
<1>5. Sends(f)
  <2>1. f \in Seq(Frames) /\ DOMAIN f = {1} /\ f[1] = Frame("open", ids')
    BY <1>1, NextId
  <2>2. \A w \in Views : view[w].id = 0 \/ view'[w].id = view[w].id
    BY <1>1, <1>3
  <2>3. ids' \in Nat /\ ids <= ids' /\ ids' > ids /\ ids' \in 1 .. ids'
    BY <1>1, NextId
  <2> HIDE DEF f
  <2> QED BY <1>3, <2>1, <2>2, <2>3 DEF Sends, Frame
<1> HIDE DEF f
<1> QED BY <1>1, <1>2, <1>4, <1>5, NextId, RunnersStay, ClientInv

LEMMA UnmountInv ==
  ASSUME ChannelsInv, NEW v \in Views, Unmount(v)
  PROVE  ChannelsInv'
<1> DEFINE f == <<Frame("close", view[v].id)>>
<1>1. /\ view' = [view EXCEPT ![v] = Closed] /\ view[v].id # 0 /\ Send(f)
      /\ UNCHANGED <<sock, opens, owner, ids, run, chans, loop>>
  BY DEF Unmount, Leaving
<1>2. view \in [Views -> ViewStates] /\ owner \in [Ids -> Views \cup {NoView}] /\ ids \in 0 .. MaxIds
  BY DEF ChannelsInv, ChannelsTypeOK, ViewStates, Drawn
<1>3. Closed \in ViewStates /\ Closed.id = 0 /\ Closed.phase = "idle"
  BY SizesArePos DEF Closed, ViewStates
<1>4. Turns
  <2>1. \A w \in Views : view'[w] = IF w = v THEN Closed ELSE view[w]
    BY <1>1, <1>2
  <2> QED BY <1>1, <1>2, <1>3, <2>1 DEF Turns
<1>5. Sends(f)
  <2>1. f \in Seq(Frames) /\ DOMAIN f = {1} /\ f[1] = Frame("close", view[v].id)
    BY <1>1, ViewId
  <2>2. \A w \in Views \ {v} : view'[w] = view[w]
    BY <1>1, <1>2
  <2>3. ids' \in Nat /\ ids <= ids' /\ view[v].id \in 1 .. ids'
    BY <1>1, ViewId
  <2>4. f[1].id \in 1 .. ids' /\ f[1].type = "close"
    BY <2>1, <2>3 DEF Frame
  <2> HIDE DEF f
  <2> QED BY <2>1, <2>2, <2>3, <2>4 DEF Sends
<1> HIDE DEF f
<1> QED BY <1>1, <1>2, <1>4, <1>5, RunnersStay, ClientInv

LEMMA RestartInv ==
  ASSUME ChannelsInv, NEW v \in Views, Restart(v)
  PROVE  ChannelsInv'
<1> DEFINE f == <<Frame("close", view[v].id), Frame("open", ids')>>
<1>1. /\ view' = [view EXCEPT ![v] = Fresh(v, ids')] /\ view[v].id # 0
      /\ ids' = ids + 1 /\ ids < MaxIds /\ owner' = [owner EXCEPT ![ids'] = v]
      /\ UNCHANGED <<sock, opens, run, chans, loop>>
  BY DEF Restart, ChannelsInv, LiveIsAShell
<1>2. view \in [Views -> ViewStates] /\ owner \in [Ids -> Views \cup {NoView}]
  BY DEF ChannelsInv, ChannelsTypeOK, ViewStates
<1>3. view'[v].id = ids' /\ view'[v].phase # "live" /\ \A w \in Views \ {v} : view'[w] = view[w]
  BY <1>1, <1>2, NextId, FreshView
<1>4. Turns
  BY <1>1, <1>2, <1>3, NextId, FreshView DEF Turns
<1>5. Sends(f)
  <2>1. /\ f \in Seq(Frames) /\ DOMAIN f = {1, 2}
        /\ f[1] = Frame("close", view[v].id) /\ f[2] = Frame("open", ids')
    BY <1>1, NextId, ViewId
  <2>2. ids' \in Nat /\ ids <= ids' /\ ids' > ids /\ ids' \in 1 .. ids' /\ view[v].id \in 1 .. ids'
    BY <1>1, NextId, ViewId
  <2>3. /\ f[1].id = view[v].id /\ f[1].type = "close" /\ f[2].id = ids' /\ f[2].type = "open"
        /\ f[1] # f[2]
    BY <2>1 DEF Frame
  <2> HIDE DEF f
  <2> QED BY <1>3, <2>1, <2>2, <2>3 DEF Sends
<1>6. Send(f)
  <2>1. f = Leaving(v) \o <<Frame("open", ids')>>
    BY <1>1, NextId, ViewId DEF Leaving
  <2> QED BY <2>1 DEF Restart
<1> HIDE DEF f
<1> QED BY <1>1, <1>2, <1>4, <1>5, <1>6, NextId, RunnersStay, ClientInv

LEMMA TypeInv ==
  ASSUME ChannelsInv, NEW v \in Views, Type(v)
  PROVE  ChannelsInv'
<1> DEFINE f == <<Frame("input", view[v].id)>>
<1>1. view[v].id # 0 /\ Send(f) /\ UNCHANGED <<sock, opens, view, owner, ids, run, chans, loop>>
  BY DEF Type
<1>2. view \in [Views -> ViewStates] /\ owner \in [Ids -> Views \cup {NoView}] /\ ids \in 0 .. MaxIds
  BY DEF ChannelsInv, ChannelsTypeOK, ViewStates, Drawn
<1>3. Turns
  BY <1>1, <1>2 DEF Turns
<1>4. Sends(f)
  <2>1. f \in Seq(Frames) /\ DOMAIN f = {1} /\ f[1] = Frame("input", view[v].id)
    BY <1>1, ViewId
  <2>2. ids' \in Nat /\ ids <= ids' /\ view[v].id \in 1 .. ids'
    BY <1>1, ViewId
  <2>3. f[1].id \in 1 .. ids' /\ f[1].type = "input"
    BY <2>1, <2>2 DEF Frame
  <2> HIDE DEF f
  <2> QED BY <1>1, <2>1, <2>2, <2>3 DEF Sends
<1> HIDE DEF f
<1> QED BY <1>1, <1>2, <1>3, <1>4, RunnersStay, ClientInv

(* Nothing is live while the socket is not open, and nothing stays so when it is lost. *)
LEMMA OfflineViews ==
  ASSUME ChannelsInv, view' = [v \in Views |-> Offline(v)]
  PROVE  /\ view' \in [Views -> ViewStates]
         /\ \A v \in Views : /\ view'[v].id = view[v].id /\ view'[v].phase # "live"
                             /\ view'[v].phase # "idle" => view[v].id # 0
<1>1. view \in [Views -> ViewStates]
  BY DEF ChannelsInv, ChannelsTypeOK, ViewStates
<1>2. ASSUME NEW v \in Views
      PROVE  /\ Offline(v) \in ViewStates /\ Offline(v).id = view[v].id /\ Offline(v).phase # "live"
             /\ Offline(v).phase # "idle" => view[v].id # 0
  <2>1. view[v] \in ViewStates /\ (view[v].phase = "live" => Kind[v] = "local-shell")
        /\ (view[v].phase # "idle" => view[v].id # 0)
    BY <1>1 DEF ChannelsInv, LiveIsAShell
  <2>2. CASE Kind[v] = "local-shell" /\ view[v].id # 0 /\ view[v].phase # "ended"
    <3>1. Offline(v) = [view[v] EXCEPT !.phase = "lost"]
      BY <2>2 DEF Offline
    <3> QED BY <2>1, <2>2, <3>1 DEF ViewStates
  <2>3. CASE ~(Kind[v] = "local-shell" /\ view[v].id # 0 /\ view[v].phase # "ended")
    BY <2>1, <2>3 DEF Offline
  <2> QED BY <2>2, <2>3
<1> QED BY <1>2

LEMMA NoneIsLive ==
  ASSUME ChannelsInv, sock # "open", NEW v \in Views
  PROVE  view[v].phase # "live"
BY DEF ChannelsInv, LiveIsRunning, Live

(* The socket comes and goes; the runners of a lost one are to be cleaned up. *)
LEMMA SocketInv ==
  ASSUME ChannelsInv, sock' \in {"connecting", "open", "down"}, opens' \in 0 .. MaxOpens,
         \/ sock' # "open" /\ toEngine' = <<>> /\ queue' = queue /\ opens' = opens
         \/ sock' = "open" /\ toEngine' = queue /\ queue' = <<>> /\ opens' = opens + 1,
         view' \in [Views -> ViewStates],
         \A v \in Views : /\ view'[v].id = view[v].id /\ view'[v].phase # "live"
                          /\ view'[v].phase # "idle" => view[v].id # 0,
         UNCHANGED <<owner, ids, run, chans, loop>>
  PROVE  ChannelsInv'
<1>1. ChannelsTypeOK'
  <2>1. queue' \in Seq(Frames) /\ Len(queue') <= MaxQueued /\ toEngine' \in Seq(Frames)
    <3>1. <<>> \in Seq(Frames) /\ Len(<<>>) <= MaxQueued
      BY SizesArePos
    <3> QED BY <3>1 DEF ChannelsInv, ChannelsTypeOK
  <2> QED BY <2>1 DEF ChannelsInv, ChannelsTypeOK, ViewStates
<1>2. Wire'
  <2>1. Sound(queue, ids, run, view') /\ Sound(toEngine, ids, run, view')
    BY SoundStill DEF ChannelsInv, Wire
  <2>2. Sound(<<>>, ids, run, view')
    BY DEF Sound
  <2> QED BY <2>1, <2>2 DEF Wire
<1>3. opens \in Nat /\ opens <= opens'
  BY DEF ChannelsInv, ChannelsTypeOK
<1>4. Drawn'
  BY <1>3 DEF ChannelsInv, Drawn
<1>5. InTable' /\ LiveIsAShell' /\ LiveIsRunning'
  BY DEF ChannelsInv, InTable, LiveIsAShell, LiveIsRunning
<1>6. NoOrphan'
  BY <1>3 DEF ChannelsInv, Drawn, NoOrphan, Live
<1> QED BY <1>1, <1>2, <1>4, <1>5, <1>6 DEF ChannelsInv

LEMMA ConnectionInv ==
  ASSUME ChannelsInv, Open \/ Refuse \/ Close \/ Reconnect
  PROVE  ChannelsInv'
<1>1. view \in [Views -> ViewStates] /\ opens \in 0 .. MaxOpens /\ MaxOpens \in Nat
  BY SizesArePos DEF ChannelsInv, ChannelsTypeOK, ViewStates
<1>2. sock # "open" => toEngine = <<>> /\ \A v \in Views : view[v].phase # "live"
  BY NoneIsLive DEF ChannelsInv, Wire
<1>3. \A v \in Views : view[v].phase # "idle" => view[v].id # 0
  BY DEF ChannelsInv, LiveIsAShell
<1>4. CASE Open
  <2>1. /\ sock' = "open" /\ sock # "open" /\ toEngine' = queue /\ queue' = <<>> /\ opens' = opens + 1
        /\ opens' \in 0 .. MaxOpens /\ UNCHANGED <<view, owner, ids, run, chans, loop>>
    BY <1>1, <1>4 DEF Open, Flushed
  <2> QED BY <1>1, <1>2, <1>3, <2>1, SocketInv
<1>5. CASE Refuse
  <2>1. /\ sock' = "down" /\ toEngine' = <<>> /\ queue' = queue /\ opens' = opens
        /\ view' = [v \in Views |-> Offline(v)] /\ UNCHANGED <<owner, ids, run, chans, loop>>
    BY <1>2, <1>5 DEF Refuse
  <2> QED BY <1>1, <2>1, OfflineViews, SocketInv
<1>6. CASE Close
  <2>1. /\ sock' = "down" /\ toEngine' = <<>> /\ queue' = queue /\ opens' = opens
        /\ view' = [v \in Views |-> Offline(v)] /\ UNCHANGED <<owner, ids, run, chans, loop>>
    BY <1>6 DEF Close
  <2> QED BY <1>1, <2>1, OfflineViews, SocketInv
<1>7. CASE Reconnect
  <2>1. /\ sock' = "connecting" /\ sock # "open" /\ toEngine' = <<>> /\ queue' = queue /\ opens' = opens
        /\ UNCHANGED <<view, owner, ids, run, chans, loop>>
    BY <1>2, <1>7 DEF Reconnect
  <2> QED BY <1>1, <1>2, <1>3, <2>1, SocketInv
<1> QED BY <1>4, <1>5, <1>6, <1>7

-----------------------------------------------------------------------------
(* Frames reach the client *)

(* The views of a channel hear of it; each keeps its channel. *)
Hear(s, i) ==
  /\ view' \in [Views -> ViewStates]
  /\ \A v \in Views :
       /\ view'[v].id = view[v].id
       /\ view'[v].phase # "idle" => view[v].id # 0
       /\ view'[v].phase = "live" =>
            \/ view[v].phase = "live"
            \/ Live(s) /\ Mine(v, i) /\ Kind[v] = "local-shell"

LEMMA AckHeard ==
  ASSUME ChannelsInv, NEW s, NEW i, OnAck(s, i)
  PROVE  Hear(s, i) /\ \A v \in Views : view'[v].phase = "live" => view[v].phase = "live"
<1>1. ASSUME NEW v \in Views
      PROVE  /\ view'[v] \in ViewStates /\ view'[v].id = view[v].id
             /\ view'[v].phase # "idle" => view[v].id # 0
             /\ view'[v].phase = "live" => view[v].phase = "live"
  <2>1. view[v] \in ViewStates /\ (view[v].phase # "idle" => view[v].id # 0)
    BY DEF ChannelsInv, ChannelsTypeOK, ViewStates, LiveIsAShell
  <2>2. CASE Live(s) /\ Mine(v, i) /\ Kind[v] = "logs"
    <3>1. view'[v] = [view[v] EXCEPT !.phase = "streaming"] /\ view[v].id # 0
      BY <2>2 DEF OnAck, Mine
    <3> QED BY <2>1, <3>1 DEF ViewStates
  <2>3. CASE ~(Live(s) /\ Mine(v, i) /\ Kind[v] = "logs")
    <3>1. view'[v] = view[v]
      BY <2>3 DEF OnAck
    <3> QED BY <2>1, <3>1
  <2> QED BY <2>2, <2>3
<1>2. view' = [v \in Views |-> view'[v]]
  BY DEF OnAck
<1> QED BY <1>1, <1>2 DEF Hear

LEMMA DataHeard ==
  ASSUME ChannelsInv, NEW s, NEW i, OnData(s, i)
  PROVE  Hear(s, i)
<1>1. ASSUME NEW v \in Views
      PROVE  /\ view'[v] \in ViewStates /\ view'[v].id = view[v].id
             /\ view'[v].phase # "idle" => view[v].id # 0
             /\ view'[v].phase = "live" =>
                  view[v].phase = "live" \/ (Live(s) /\ Mine(v, i) /\ Kind[v] = "local-shell")
  <2>a. view'[v] = IF ~(Live(s) /\ Mine(v, i)) THEN view[v]
                   ELSE CASE Kind[v] = "exec"        -> [view[v] EXCEPT !.got = TRUE]
                          [] Kind[v] = "local-shell" -> [view[v] EXCEPT !.phase = "live"]
                          [] OTHER                   -> view[v]
    BY Zenon DEF OnData
  <2>1. view[v] \in ViewStates /\ (view[v].phase # "idle" => view[v].id # 0)
    BY DEF ChannelsInv, ChannelsTypeOK, ViewStates, LiveIsAShell
  <2>2. CASE ~(Live(s) /\ Mine(v, i))
    <3>1. view'[v] = view[v]
      BY <2>2, <2>a
    <3> QED BY <2>1, <3>1
  <2>3. CASE Live(s) /\ Mine(v, i) /\ Kind[v] = "exec"
    <3>1. view'[v] = [view[v] EXCEPT !.got = TRUE]
      BY <2>3, <2>a
    <3> QED BY <2>1, <3>1 DEF ViewStates
  <2>4. CASE Live(s) /\ Mine(v, i) /\ Kind[v] = "local-shell"
    <3>1. view'[v] = [view[v] EXCEPT !.phase = "live"] /\ view[v].id # 0
      BY <2>4, <2>a DEF Mine
    <3> QED BY <2>1, <2>4, <3>1 DEF ViewStates
  <2>5. CASE Live(s) /\ Mine(v, i) /\ Kind[v] \notin {"exec", "local-shell"}
    <3>1. view'[v] = view[v]
      BY <2>5, <2>a
    <3> QED BY <2>1, <3>1
  <2> QED BY <2>2, <2>3, <2>4, <2>5
<1>2. view' = [v \in Views |-> view'[v]]
  BY DEF OnData
<1> QED BY <1>1, <1>2 DEF Hear

(* A channel's last frame: its view says so, or tries the next shell on a channel of
   its own. *)
LEMMA FinishInv ==
  ASSUME ChannelsInv, NEW i \in Ids, Finish(i)
  PROVE  ChannelsInv'
<1>1. /\ run[i].at = "running" /\ run' = [run EXCEPT ![i].at = "said"]
      /\ UNCHANGED <<chans, loop>>
  BY DEF Finish
<1>2. PICK why : OnClosed(run[i].on, i, why)
  BY DEF Finish
<1>3. /\ run \in [Ids -> Runners] /\ view \in [Views -> ViewStates]
      /\ owner \in [Ids -> Views \cup {NoView}] /\ ids \in 0 .. MaxIds
  BY DEF ChannelsInv, ChannelsTypeOK, Runners, ViewStates, Drawn
<1>4. /\ run' \in [Ids -> Runners] /\ run'[i].at = "said" /\ run'[i].on = run[i].on
      /\ \A j \in Ids \ {i} : run'[j] = run[j]
  BY <1>1, <1>3 DEF Runners
<1>5. \A j \in Ids : Goes(run[j], run'[j])
  BY <1>1, <1>4 DEF Goes
<1> DEFINE mine == {v \in Views : Live(run[i].on) /\ Mine(v, i)}
<1>6. CASE \E v \in mine : FallsBack(v, why)
  <2>1. /\ ids < MaxIds /\ ids' = ids + 1 /\ UNCHANGED <<sock, opens>>
        /\ \E v \in mine :
             /\ owner' = [owner EXCEPT ![ids'] = v]
             /\ view' = [view EXCEPT ![v].id = ids', ![v].cand = @ + 1]
             /\ Send(<<Frame("close", i), Frame("open", ids')>>)
    BY <1>2, <1>6 DEF OnClosed
  <2>2. PICK v \in mine :
             /\ owner' = [owner EXCEPT ![ids'] = v]
             /\ view' = [view EXCEPT ![v].id = ids', ![v].cand = @ + 1]
             /\ Send(<<Frame("close", i), Frame("open", ids')>>)
    BY <2>1
  <2>3. view[v].id = i /\ i # 0 /\ v \in Views /\ \A w \in Views : view[w].id = i => w = v
    BY <2>2 DEF Mine, ChannelsInv, Drawn
  <2>4. FallsBack(v, why)
    BY <1>6, <2>3 DEF Mine
  <2>5. view[v].phase # "live" /\ view[v].cand + 1 \in 1 .. Shells
    <3>1. view[v] \in ViewStates /\ Shells \in Nat
      BY <1>3, <2>3, SizesArePos
    <3>2. view[v].cand \in 1 .. Shells
      BY <3>1 DEF ViewStates
    <3>3. Kind[v] = "exec" /\ view[v].cand < Shells
      BY <2>4 DEF FallsBack
    <3> QED BY <2>3, <3>1, <3>2, <3>3 DEF ChannelsInv, LiveIsAShell
  <2>6. /\ view' \in [Views -> ViewStates] /\ view'[v].id = ids' /\ view'[v].phase = view[v].phase
        /\ \A w \in Views \ {v} : view'[w] = view[w]
    BY <1>3, <2>1, <2>2, <2>3, <2>5, NextId DEF ViewStates
  <2>7. Turns
    BY <2>1, <2>3, <2>5, <2>6, NextId DEF Turns
  <2> DEFINE f == <<Frame("close", i), Frame("open", ids')>>
  <2>8. Sends(f)
    <3>1. /\ f \in Seq(Frames) /\ DOMAIN f = {1, 2} /\ f[1] = Frame("close", i) /\ f[2] = Frame("open", ids')
      BY <2>1, <2>3, NextId, ViewId
    <3>2. ids' \in Nat /\ ids <= ids' /\ ids' > ids /\ ids' \in 1 .. ids' /\ i \in 1 .. ids'
      BY <2>1, <2>3, NextId, ViewId
    <3>3. /\ f[1].id = i /\ f[1].type = "close" /\ f[2].id = ids' /\ f[2].type = "open"
          /\ f[1] # f[2]
      BY <3>1 DEF Frame
    <3> HIDE DEF f
    <3> QED BY <2>3, <2>6, <3>1, <3>2, <3>3 DEF Sends
  <2>9. \A w \in Views : view'[w].id # i
    BY <2>1, <2>3, <2>6, NextId, ViewId
  <2>10. owner' \in [Ids -> Views \cup {NoView}] /\ ids' \in 0 .. MaxIds
    BY <1>3, <2>1, <2>2, <2>3, NextId
  <2>11. \A j \in Ids : run'[j] = run[j] \/ \A w \in Views : view'[w].id # j
    BY <1>4, <2>9
  <2>12. Send(f)
    BY <2>2
  <2> HIDE DEF f
  <2> QED BY <1>1, <1>4, <1>5, <2>1, <2>7, <2>8, <2>10, <2>11, <2>12, ClientInv
<1>7. CASE ~\E v \in mine : FallsBack(v, why)
  <2>1. /\ view' = [v \in Views |-> IF v \notin mine THEN view[v]
                     ELSE [view[v] EXCEPT !.phase = IF Kind[v] = "logs" THEN "closed" ELSE "ended"]]
        /\ UNCHANGED <<sock, opens, queue, toEngine, owner, ids, typed>>
    BY <1>2, <1>7 DEF OnClosed
  <2>2. ASSUME NEW v \in Views
        PROVE  /\ view'[v] \in ViewStates /\ view'[v].id = view[v].id
               /\ view'[v].phase # "idle" => view[v].id # 0
               /\ view'[v].phase = "live" => view'[v] = view[v] /\ v \notin mine
    <3>1. view[v] \in ViewStates /\ (view[v].phase # "idle" => view[v].id # 0)
      BY <1>3 DEF ChannelsInv, LiveIsAShell
    <3>2. CASE v \notin mine
      BY <2>1, <3>1, <3>2
    <3>3. CASE v \in mine
      <4>1. PICK phase \in {"closed", "ended"} : view'[v] = [view[v] EXCEPT !.phase = phase]
        BY <2>1, <3>3
      <4>2. view[v].id # 0
        BY <3>3 DEF Mine
      <4> QED BY <3>1, <4>1, <4>2 DEF ViewStates
    <3> QED BY <3>2, <3>3
  <2>3. view' \in [Views -> ViewStates]
    <3>1. view' = [v \in Views |-> view'[v]]
      BY <2>1
    <3> QED BY <2>2, <3>1
  <2>4. Wire' /\ NoOrphan'
    BY <1>5, <2>1, <2>2, StillWire
  <2>5. ChannelsTypeOK'
    BY <1>1, <1>4, <2>1, <2>3 DEF ChannelsInv, ChannelsTypeOK, ViewStates, Runners
  <2>6. Drawn'
    BY <1>5, <2>1, <2>2 DEF ChannelsInv, Drawn, Goes
  <2>7. InTable'
    BY <1>1, <1>5 DEF ChannelsInv, InTable, Goes
  <2>8. LiveIsAShell'
    BY <2>2 DEF ChannelsInv, LiveIsAShell
  <2>9. LiveIsRunning'
    <3> SUFFICES ASSUME NEW v \in Views, view'[v].phase = "live"
                 PROVE  (run[view[v].id].at = "running" /\ Live(run[view[v].id].on))'
      BY DEF LiveIsRunning
    <3>1. /\ view'[v] = view[v] /\ v \notin mine /\ view[v].id \in Ids
          /\ run[view[v].id].at = "running" /\ Live(run[view[v].id].on)
      BY <1>3, <2>2 DEF ChannelsInv, LiveIsAShell, LiveIsRunning, ViewStates
    <3>2. view[v].id # i
      BY <3>1 DEF Mine, Ids
    <3>3. run'[view[v].id] = run[view[v].id]
      BY <1>4, <3>1, <3>2
    <3> QED BY <2>1, <3>1, <3>3 DEF Live
  <2> QED BY <2>4, <2>5, <2>6, <2>7, <2>8, <2>9 DEF ChannelsInv
<1> QED BY <1>6, <1>7

LEMMA RunningOn ==
  ASSUME ChannelsInv, NEW i \in Ids, run[i].at = "running"
  PROVE  run[i].on \in Sockets /\ run[i].on \in 1 .. opens
BY SizesArePos DEF ChannelsInv, Drawn, ChannelsTypeOK, Sockets

(* What a view hears changes neither its channel nor the channel's runner. *)
LEMMA HeardInv ==
  ASSUME ChannelsInv, NEW s, NEW i, Hear(s, i),
         UNCHANGED <<sock, opens, queue, toEngine, owner, ids, run, chans>>,
         loop' \in [Sockets -> [at : {"read", "insert", "ack", "pipe"}, id : {0} \cup Ids]],
         \A t \in Sockets : loop'[t] = loop[t] \/ (loop[t].at # "insert" /\ loop'[t].at = "read"),
         \A v \in Views : view'[v].phase = "live" =>
           view[v].phase = "live" \/ (run[view[v].id].at = "running" /\ Live(run[view[v].id].on))
  PROVE  ChannelsInv'
<1>1. \A v \in Views : view'[v].id = view[v].id
  BY DEF Hear
<1>2. Wire' /\ NoOrphan'
  BY <1>1, StillWire DEF Goes
<1>3. ChannelsTypeOK'
  BY DEF ChannelsInv, ChannelsTypeOK, Hear, ViewStates
<1>4. Drawn'
  BY <1>1 DEF ChannelsInv, Drawn
<1>5. InTable'
  <2>1. \A j \in Ids : run[j].at = "running" => run[j].on \in Sockets
    BY RunningOn
  <2> QED BY <2>1 DEF ChannelsInv, InTable
<1>6. LiveIsAShell'
  BY DEF ChannelsInv, LiveIsAShell, Hear, Mine
<1>7. LiveIsRunning'
  BY <1>1 DEF ChannelsInv, LiveIsRunning, Live
<1> QED BY <1>2, <1>3, <1>4, <1>5, <1>6, <1>7 DEF ChannelsInv

LEMMA AckInv ==
  ASSUME ChannelsInv, NEW s \in Sockets, Ack(s)
  PROVE  ChannelsInv'
<1>1. OnAck(s, loop[s].id) /\ loop[s].at = "ack" /\ loop' = [loop EXCEPT ![s] = Reading] /\ UNCHANGED <<run, chans>>
  BY DEF Ack
<1>2. UNCHANGED <<sock, opens, queue, toEngine, owner, ids>>
  BY <1>1 DEF OnAck
<1>3. loop \in [Sockets -> [at : {"read", "insert", "ack", "pipe"}, id : {0} \cup Ids]]
  BY DEF ChannelsInv, ChannelsTypeOK
<1>4. /\ loop' \in [Sockets -> [at : {"read", "insert", "ack", "pipe"}, id : {0} \cup Ids]]
      /\ \A t \in Sockets : loop'[t] = loop[t] \/ (loop[t].at # "insert" /\ loop'[t].at = "read")
  BY <1>1, <1>3 DEF Reading
<1> QED BY <1>1, <1>2, <1>4, AckHeard, HeardInv

LEMMA OutputInv ==
  ASSUME ChannelsInv, NEW i \in Ids, Output(i)
  PROVE  ChannelsInv'
<1>1. OnData(run[i].on, i) /\ run[i].at = "running" /\ UNCHANGED <<run, chans, loop>>
  BY DEF Output
<1>2. UNCHANGED <<sock, opens, queue, toEngine, owner, ids>>
  BY <1>1 DEF OnData
<1>3. Hear(run[i].on, i)
  BY <1>1, DataHeard
<1>4. \A v \in Views : view'[v].phase = "live" =>
        view[v].phase = "live" \/ (run[view[v].id].at = "running" /\ Live(run[view[v].id].on))
  BY <1>1, <1>3 DEF Hear, Mine
<1>5. loop' \in [Sockets -> [at : {"read", "insert", "ack", "pipe"}, id : {0} \cup Ids]]
  BY <1>1 DEF ChannelsInv, ChannelsTypeOK
<1> QED BY <1>1, <1>2, <1>3, <1>4, <1>5, HeardInv

-----------------------------------------------------------------------------
(* The engine *)

(* The frame a read loop has taken: the next one follows it. *)
LEMMA TakenFrame ==
  ASSUME ChannelsInv, NEW s \in Sockets, NEW type, Takes(s, type)
  PROVE  /\ toEngine # <<>> /\ toEngine' = Tail(toEngine) /\ toEngine' \in Seq(Frames)
         /\ Sound(toEngine', ids, run, view)
         /\ Head(toEngine) = toEngine[1] /\ 1 \in DOMAIN toEngine
         /\ Head(toEngine).type = type /\ Head(toEngine) \in Frames /\ Head(toEngine).id \in 1 .. ids
         /\ Head(toEngine).id \in Ids /\ Head(toEngine) = Frame(type, Head(toEngine).id)
         /\ sock = "open" /\ s = opens /\ loop[s].at = "read"
         /\ UNCHANGED <<sock, opens, queue, view, owner, ids>>
<1>1. /\ toEngine # <<>> /\ toEngine' = Tail(toEngine) /\ toEngine \in Seq(Frames)
      /\ Head(toEngine).type = type /\ sock = "open" /\ s = opens /\ loop[s].at = "read"
      /\ UNCHANGED <<sock, opens, queue, view, owner, ids>>
  BY DEF Takes, Live, client, ChannelsInv, ChannelsTypeOK
<1>2. Sound(toEngine', ids, run, view) /\ toEngine' \in Seq(Frames)
  BY <1>1, SoundTail DEF ChannelsInv, Wire
<1>3. Head(toEngine) = toEngine[1] /\ 1 \in DOMAIN toEngine /\ Head(toEngine) \in Frames
  BY <1>1
<1>4. Head(toEngine).id \in 1 .. ids
  BY <1>3 DEF ChannelsInv, Wire, Sound
<1>5. Head(toEngine).id \in Ids /\ Head(toEngine) = Frame(type, Head(toEngine).id)
  BY <1>1, <1>3 DEF Frames, Frame
<1> QED BY <1>1, <1>2, <1>3, <1>4, <1>5

(* A frame that is on the wire and is not the one taken is still to come. *)
LEMMA StillComing ==
  ASSUME ChannelsInv, NEW s \in Sockets, NEW type, Takes(s, type),
         NEW x, x \in ToSet(toEngine), x # Head(toEngine)
  PROVE  x \in ToSet(toEngine')
<1>1. PICK p \in DOMAIN toEngine : toEngine[p] = x
  BY DEF ToSet
<1>2. p # 1 /\ toEngine' = Tail(toEngine) /\ toEngine \in Seq(Frames) /\ toEngine # <<>>
  BY <1>1, TakenFrame DEF ChannelsInv, ChannelsTypeOK
<1>3. p - 1 \in DOMAIN toEngine' /\ toEngine'[p - 1] = x
  BY <1>1, <1>2, SoundTail DEF ChannelsInv, Wire
<1> QED BY <1>3 DEF ToSet

LEMMA ReadOpenInv ==
  ASSUME ChannelsInv, NEW s \in Sockets, ReadOpen(s)
  PROVE  ChannelsInv'
<1>a. PICK i : i = Head(toEngine).id
  OBVIOUS
<1>1. Takes(s, "open") /\ Go(s, "insert", i) /\ UNCHANGED chans
      /\ run' = [run EXCEPT ![i] = [at |-> "running", on |-> s, cancelled |-> FALSE]]
  BY <1>a DEF ReadOpen
<1>2. /\ toEngine # <<>> /\ toEngine' = Tail(toEngine) /\ toEngine' \in Seq(Frames)
      /\ Sound(toEngine', ids, run, view)
      /\ 1 \in DOMAIN toEngine /\ toEngine[1] = Frame("open", i) /\ Head(toEngine) = toEngine[1]
      /\ i \in Ids /\ i \in 1 .. ids
      /\ sock = "open" /\ s = opens /\ loop[s].at = "read"
      /\ UNCHANGED <<sock, opens, queue, view, owner, ids>>
  BY <1>a, <1>1, TakenFrame
<1>3. /\ toEngine \in Seq(Frames) /\ run \in [Ids -> Runners] /\ Sound(toEngine, ids, run, view)
      /\ loop \in [Sockets -> [at : {"read", "insert", "ack", "pipe"}, id : {0} \cup Ids]]
      /\ opens \in Sockets /\ queue = <<>>
  BY <1>2 DEF ChannelsInv, ChannelsTypeOK, Runners, Wire
<1>4. /\ run[i].at = "none"
      /\ \A r \in DOMAIN toEngine : toEngine[r] = toEngine[1] => r = 1
      /\ \/ Wanted(i)
         \/ \E r \in DOMAIN toEngine : r > 1 /\ toEngine[r] = Frame("close", i)
  BY <1>2, <1>3 DEF Sound, Frame, Wanted
<1>5. /\ run'[i] = [at |-> "running", on |-> s, cancelled |-> FALSE] /\ run' \in [Ids -> Runners]
      /\ \A j \in Ids \ {i} : run'[j] = run[j]
  BY <1>1, <1>2, <1>3 DEF Runners
<1>6. /\ loop'[s] = [at |-> "insert", id |-> i] /\ \A t \in Sockets \ {s} : loop'[t] = loop[t]
      /\ loop' \in [Sockets -> [at : {"read", "insert", "ack", "pipe"}, id : {0} \cup Ids]]
  BY <1>1, <1>2, <1>3 DEF Go
<1>7. ChannelsTypeOK'
  BY <1>1, <1>2, <1>5, <1>6 DEF ChannelsInv, ChannelsTypeOK, Runners
<1>8. Wire'
  <2>1. ASSUME NEW p \in DOMAIN toEngine', toEngine'[p].type = "open"
        PROVE  run'[toEngine'[p].id].at = "none"
    <3>1. p + 1 \in DOMAIN toEngine /\ toEngine'[p] = toEngine[p + 1] /\ p + 1 # 1
      BY <1>2, <1>3, SoundTail
    <3>2. toEngine[p + 1] \in Frames
      BY <1>3, <3>1
    <3>3. toEngine[p + 1].id # i
      BY <1>2, <1>4, <2>1, <3>1, <3>2 DEF Frames, Frame
    <3>4. toEngine'[p].id \in Ids
      BY <3>1, <3>2 DEF Frames
    <3> QED BY <1>2, <1>5, <2>1, <3>1, <3>3, <3>4 DEF Sound
  <2>2. Sound(toEngine', ids, run', view)
    BY <1>2, <2>1, SoundStill
  <2>3. Sound(<<>>, ids, run', view)
    BY DEF Sound
  <2> QED BY <1>2, <1>3, <2>2, <2>3 DEF Wire
<1>9. Drawn'
  BY <1>2, <1>3, <1>5 DEF ChannelsInv, Drawn, Sockets
<1>10. InTable'
  <2>1. \A j \in Ids : run[j].at = "running" => run[j].on \in Sockets
    BY RunningOn
  <2>2. ASSUME NEW j \in Ids, run'[j].at = "running", ~run'[j].cancelled
        PROVE  j \in chans' \/ loop'[run'[j].on] = [at |-> "insert", id |-> j]
    <3>1. CASE j = i
      BY <1>5, <1>6, <3>1
    <3>2. CASE j # i
      <4>1. run'[j] = run[j] /\ (j \in chans \/ loop[run[j].on] = [at |-> "insert", id |-> j])
        BY <1>5, <2>2, <3>2 DEF ChannelsInv, InTable
      <4>2. CASE j \in chans
        BY <1>1, <4>2
      <4>3. CASE loop[run[j].on] = [at |-> "insert", id |-> j]
        <5>1. run[j].on \in Sockets \ {s}
          BY <1>2, <2>1, <2>2, <4>1, <4>3
        <5> QED BY <1>6, <4>1, <4>3, <5>1
      <4> QED BY <4>1, <4>2, <4>3
    <3> QED BY <3>1, <3>2
  <2>3. \A t \in Sockets : loop'[t].at = "insert" => loop'[t].id \in Ids
    BY <1>2, <1>6 DEF ChannelsInv, InTable
  <2> QED BY <2>2, <2>3 DEF InTable
<1>11. NoOrphan'
  <2> SUFFICES ASSUME NEW j \in Ids, run'[j].at = "running", ~run'[j].cancelled
               PROVE  (\/ Live(run[j].on) /\ (Wanted(j) \/ Frame("close", j) \in ToSet(toEngine))
                       \/ ~Live(run[j].on) /\ run[j].on > 0)'
    BY DEF NoOrphan
  <2>1. CASE j = i
    <3>1. Live(run[i].on)'
      BY <1>2, <1>5 DEF Live
    <3>2. CASE Wanted(i)
      BY <1>2, <2>1, <3>1, <3>2 DEF Wanted
    <3>3. CASE \E r \in DOMAIN toEngine : r > 1 /\ toEngine[r] = Frame("close", i)
      <4>1. Frame("close", i) \in ToSet(toEngine) /\ Frame("close", i) # Head(toEngine)
        BY <1>2, <3>3 DEF ToSet, Frame
      <4> QED BY <1>1, <2>1, <3>1, <4>1, StillComing
    <3> QED BY <1>4, <3>2, <3>3
  <2>2. CASE j # i
    <3>1. run'[j] = run[j]
      BY <1>5, <2>2
    <3>2. Frame("close", j) \in ToSet(toEngine) => Frame("close", j) \in ToSet(toEngine')
      BY <1>1, <1>2, StillComing DEF Frame
    <3> QED BY <1>2, <3>1, <3>2 DEF ChannelsInv, NoOrphan, Live, Wanted
  <2> QED BY <2>1, <2>2
<1>12. LiveIsAShell' /\ LiveIsRunning'
  <2>1. \A v \in Views : view[v].phase = "live" => view[v].id \in Ids /\ view[v].id # i
    BY <1>4 DEF ChannelsInv, LiveIsAShell, LiveIsRunning, ChannelsTypeOK
  <2>2. \A v \in Views : view[v].phase = "live" => run'[view[v].id] = run[view[v].id]
    BY <1>5, <2>1
  <2> QED BY <1>2, <2>2 DEF ChannelsInv, LiveIsAShell, LiveIsRunning, Live
<1> QED BY <1>7, <1>8, <1>9, <1>10, <1>11, <1>12 DEF ChannelsInv

LEMMA LoopOf ==
  ASSUME ChannelsInv, NEW s \in Sockets, NEW at \in {"read", "insert", "ack", "pipe"}, NEW i \in {0} \cup Ids,
         loop' = [loop EXCEPT ![s] = [at |-> at, id |-> i]]
  PROVE  /\ loop' \in [Sockets -> [at : {"read", "insert", "ack", "pipe"}, id : {0} \cup Ids]]
         /\ loop'[s] = [at |-> at, id |-> i] /\ \A t \in Sockets \ {s} : loop'[t] = loop[t]
BY DEF ChannelsInv, ChannelsTypeOK

(* A step of the engine after which the views are as they were, runners have been
   cancelled or have gone, and those that go on are in the table, or about to be. *)
LEMMA EngineInv ==
  ASSUME ChannelsInv, UNCHANGED <<sock, opens, queue, view, owner, ids>>,
         toEngine' \in Seq(Frames), Sound(toEngine', ids, run, view), sock # "open" => toEngine' = <<>>,
         chans' \subseteq Ids, run' \in [Ids -> Runners],
         loop' \in [Sockets -> [at : {"read", "insert", "ack", "pipe"}, id : {0} \cup Ids]],
         \A i \in Ids : /\ run'[i].on = run[i].on
                        /\ \/ run'[i].at = run[i].at
                           \/ run[i].at = "said" /\ run'[i].at = "gone"
                        /\ run'[i].at = "running" /\ ~run'[i].cancelled =>
                             /\ ~run[i].cancelled
                             /\ i \in chans' \/ loop'[run[i].on] = [at |-> "insert", id |-> i]
                             /\ Live(run[i].on) /\ Frame("close", i) \in ToSet(toEngine) =>
                                  Frame("close", i) \in ToSet(toEngine'),
         \A t \in Sockets : loop'[t].at = "insert" => loop'[t].id \in Ids
  PROVE  ChannelsInv'
<1>1. ChannelsTypeOK'
  BY DEF ChannelsInv, ChannelsTypeOK, Runners
<1>2. Wire'
  <2>1. \A i \in Ids : run[i].at = "none" => run'[i].at = "none"
    OBVIOUS
  <2>2. /\ \A p \in DOMAIN queue : queue[p].id \in 1 .. ids
        /\ \A p \in DOMAIN toEngine' : toEngine'[p].id \in 1 .. ids
        /\ \A i \in 1 .. ids : i \in Ids
    BY BoundsAreNat DEF ChannelsInv, Wire, Sound, Drawn, Ids
  <2>3. Sound(queue, ids, run', view) /\ Sound(toEngine', ids, run', view)
    BY <2>1, <2>2, SoundStill DEF ChannelsInv, Wire
  <2> QED BY <2>3 DEF ChannelsInv, Wire
<1>3. Drawn'
  <2>1. ASSUME NEW i \in Ids, run'[i].at # "none" PROVE i <= ids /\ run'[i].on \in 1 .. opens
    <3>1. run[i].at # "none" /\ run'[i].on = run[i].on
      BY <2>1
    <3> QED BY <3>1 DEF ChannelsInv, Drawn
  <2> QED BY <2>1 DEF ChannelsInv, Drawn
<1>4. InTable'
  BY DEF InTable
<1>5. NoOrphan'
  <2> SUFFICES ASSUME NEW i \in Ids, run'[i].at = "running", ~run'[i].cancelled
               PROVE  (\/ Live(run[i].on) /\ (Wanted(i) \/ Frame("close", i) \in ToSet(toEngine))
                       \/ ~Live(run[i].on) /\ run[i].on > 0)'
    BY DEF NoOrphan
  <2>1. /\ run[i].at = "running" /\ ~run[i].cancelled /\ run'[i].on = run[i].on
        /\ Live(run[i].on) /\ Frame("close", i) \in ToSet(toEngine) => Frame("close", i) \in ToSet(toEngine')
    OBVIOUS
  <2>2. Live(run[i].on)' <=> Live(run[i].on)
    BY <2>1 DEF Live
  <2>3. Wanted(i)' <=> Wanted(i)
    BY DEF Wanted
  <2> QED BY <2>1, <2>2, <2>3 DEF ChannelsInv, NoOrphan
<1>6. LiveIsAShell'
  BY DEF ChannelsInv, LiveIsAShell
<1>7. LiveIsRunning'
  <2> SUFFICES ASSUME NEW v \in Views, view[v].phase = "live"
               PROVE  (run[view[v].id].at = "running" /\ Live(run[view[v].id].on))'
    BY DEF LiveIsRunning
  <2>1. view[v].id \in Ids
    BY DEF ChannelsInv, LiveIsAShell, ChannelsTypeOK
  <2>2. run[view[v].id].at = "running" /\ Live(run[view[v].id].on)
    BY DEF ChannelsInv, LiveIsRunning
  <2>3. run'[view[v].id].at = "running" /\ run'[view[v].id].on = run[view[v].id].on
    BY <2>1, <2>2
  <2> QED BY <2>2, <2>3 DEF Live
<1> QED BY <1>1, <1>2, <1>3, <1>4, <1>5, <1>6, <1>7 DEF ChannelsInv

LEMMA InsertInv ==
  ASSUME ChannelsInv, NEW s \in Sockets, Insert(s)
  PROVE  ChannelsInv'
<1>1. PICK i : i = loop[s].id
  OBVIOUS
<1>2. /\ loop[s].at = "insert" /\ chans' = chans \cup {i} /\ loop' = [loop EXCEPT ![s] = [at |-> "ack", id |-> i]]
      /\ UNCHANGED <<sock, opens, queue, view, owner, ids, toEngine, run>>
  BY <1>1 DEF Insert, Go, client
<1>3. i \in Ids /\ chans' \subseteq Ids /\ loop[s] = [at |-> "insert", id |-> i]
  BY <1>1, <1>2 DEF ChannelsInv, InTable, ChannelsTypeOK
<1>4. /\ loop' \in [Sockets -> [at : {"read", "insert", "ack", "pipe"}, id : {0} \cup Ids]]
      /\ loop'[s] = [at |-> "ack", id |-> i] /\ \A t \in Sockets \ {s} : loop'[t] = loop[t]
  BY <1>2, <1>3, LoopOf
<1>5. /\ toEngine' \in Seq(Frames) /\ Sound(toEngine', ids, run, view) /\ (sock # "open" => toEngine' = <<>>)
      /\ run' \in [Ids -> Runners]
  BY <1>2 DEF ChannelsInv, ChannelsTypeOK, Wire, Runners
<1>6. ASSUME NEW j \in Ids, run[j].at = "running", ~run[j].cancelled
      PROVE  j \in chans' \/ loop'[run[j].on] = [at |-> "insert", id |-> j]
  BY <1>2, <1>3, <1>4, <1>6, RunningOn DEF ChannelsInv, InTable
<1>7. \A t \in Sockets : loop'[t].at = "insert" => loop'[t].id \in Ids
  BY <1>4 DEF ChannelsInv, InTable
<1> QED BY <1>2, <1>3, <1>4, <1>5, <1>6, <1>7, EngineInv

LEMMA ReadCloseInv ==
  ASSUME ChannelsInv, NEW s \in Sockets, ReadClose(s)
  PROVE  ChannelsInv'
<1>1. PICK i : i = Head(toEngine).id
  OBVIOUS
<1>2. /\ Takes(s, "close") /\ loop' = [loop EXCEPT ![s] = [at |-> "ack", id |-> i]] /\ chans' = chans \ {i}
      /\ run' = IF i \in chans /\ run[i].at # "gone" THEN [run EXCEPT ![i].cancelled = TRUE] ELSE run
  BY <1>1 DEF ReadClose, Go
<1>3. /\ toEngine' \in Seq(Frames) /\ Sound(toEngine', ids, run, view) /\ sock = "open"
      /\ Head(toEngine) = Frame("close", i) /\ i \in Ids /\ s = opens /\ loop[s].at = "read"
      /\ UNCHANGED <<sock, opens, queue, view, owner, ids>>
  BY <1>1, <1>2, TakenFrame
<1>4. /\ run \in [Ids -> Runners] /\ chans' \subseteq Ids
  BY <1>2 DEF ChannelsInv, ChannelsTypeOK, Runners
<1>5. /\ loop' \in [Sockets -> [at : {"read", "insert", "ack", "pipe"}, id : {0} \cup Ids]]
      /\ loop'[s] = [at |-> "ack", id |-> i] /\ \A t \in Sockets \ {s} : loop'[t] = loop[t]
  BY <1>2, <1>3, LoopOf
<1>6. /\ run' \in [Ids -> Runners]
      /\ \A j \in Ids : run'[j].at = run[j].at /\ run'[j].on = run[j].on
      /\ \A j \in Ids : ~run'[j].cancelled => ~run[j].cancelled
      /\ \A j \in Ids \ {i} : run'[j] = run[j]
  BY <1>2, <1>3, <1>4 DEF Runners
<1>7. ASSUME NEW j \in Ids, run'[j].at = "running", ~run'[j].cancelled
      PROVE  /\ ~run[j].cancelled
             /\ j \in chans' \/ loop'[run[j].on] = [at |-> "insert", id |-> j]
             /\ Live(run[j].on) /\ Frame("close", j) \in ToSet(toEngine) => Frame("close", j) \in ToSet(toEngine')
  <2>1. run[j].at = "running" /\ ~run[j].cancelled /\ run[j].on \in Sockets
    BY <1>6, <1>7, RunningOn
  <2>2. j \in chans \/ loop[run[j].on] = [at |-> "insert", id |-> j]
    BY <2>1 DEF ChannelsInv, InTable
  <2>3. CASE j = i
    <3>1. i \notin chans
      <4>1. ASSUME i \in chans PROVE run'[i].cancelled
        BY <1>2, <1>3, <1>4, <2>1, <2>3, <4>1 DEF Runners
      <4> QED BY <1>7, <2>3, <4>1
    <3>2. run[j].on # s
      BY <1>3, <2>2, <2>3, <3>1
    <3> QED BY <1>3, <1>5, <2>1, <2>2, <2>3, <3>1, <3>2 DEF Live
  <2>4. CASE j # i
    <3>1. j \in chans' \/ loop'[run[j].on] = [at |-> "insert", id |-> j]
      BY <1>2, <1>3, <1>5, <2>1, <2>2, <2>4
    <3>2. Frame("close", j) # Head(toEngine)
      BY <1>3, <2>4 DEF Frame
    <3> QED BY <1>2, <2>1, <3>1, <3>2, StillComing
  <2> QED BY <2>3, <2>4
<1>8. \A t \in Sockets : loop'[t].at = "insert" => loop'[t].id \in Ids
  BY <1>5 DEF ChannelsInv, InTable
<1> QED BY <1>3, <1>4, <1>5, <1>6, <1>7, <1>8, EngineInv

(* The loop is where it was, or one that is not about to insert goes elsewhere. *)
LEMMA LoopMoves ==
  ASSUME ChannelsInv, NEW s \in Sockets, NEW at \in {"read", "ack", "pipe"}, NEW i \in {0} \cup Ids,
         loop[s].at # "insert", loop' = [loop EXCEPT ![s] = [at |-> at, id |-> i]] \/ loop' = loop
  PROVE  /\ loop' \in [Sockets -> [at : {"read", "insert", "ack", "pipe"}, id : {0} \cup Ids]]
         /\ \A t \in Sockets : loop'[t].at = "insert" => loop'[t].id \in Ids
         /\ \A j \in Ids : run[j].at = "running" /\ ~run[j].cancelled =>
              j \in chans \/ loop'[run[j].on] = [at |-> "insert", id |-> j]
<1>1. /\ loop' \in [Sockets -> [at : {"read", "insert", "ack", "pipe"}, id : {0} \cup Ids]]
      /\ \A t \in Sockets : loop'[t] = loop[t] \/ (t = s /\ loop'[t].at # "insert")
  <2>1. CASE loop' = loop
    BY <2>1 DEF ChannelsInv, ChannelsTypeOK
  <2>2. CASE loop' = [loop EXCEPT ![s] = [at |-> at, id |-> i]]
    BY <2>2, LoopOf
  <2> QED BY <2>1, <2>2
<1>2. \A t \in Sockets : loop'[t].at = "insert" => loop'[t].id \in Ids
  BY <1>1 DEF ChannelsInv, InTable
<1>3. ASSUME NEW j \in Ids, run[j].at = "running", ~run[j].cancelled
      PROVE  j \in chans \/ loop'[run[j].on] = [at |-> "insert", id |-> j]
  BY <1>1, <1>3, RunningOn DEF ChannelsInv, InTable
<1> QED BY <1>1, <1>2, <1>3

LEMMA ReadInputInv ==
  ASSUME ChannelsInv, NEW s \in Sockets, ReadInput(s)
  PROVE  ChannelsInv'
<1>1. PICK i : i = Head(toEngine).id
  OBVIOUS
<1>2. /\ Takes(s, "input") /\ UNCHANGED <<run, chans>>
      /\ loop' = [loop EXCEPT ![s] = [at |-> "pipe", id |-> i]] \/ loop' = loop
  BY <1>1 DEF ReadInput, Go
<1>3. /\ toEngine' \in Seq(Frames) /\ Sound(toEngine', ids, run, view) /\ sock = "open"
      /\ Head(toEngine) = Frame("input", i) /\ i \in Ids /\ loop[s].at = "read"
      /\ UNCHANGED <<sock, opens, queue, view, owner, ids>>
  BY <1>1, <1>2, TakenFrame
<1>4. run' \in [Ids -> Runners] /\ chans' \subseteq Ids
  BY <1>2 DEF ChannelsInv, ChannelsTypeOK, Runners
<1>5. /\ loop' \in [Sockets -> [at : {"read", "insert", "ack", "pipe"}, id : {0} \cup Ids]]
      /\ \A t \in Sockets : loop'[t].at = "insert" => loop'[t].id \in Ids
      /\ \A j \in Ids : run[j].at = "running" /\ ~run[j].cancelled =>
           j \in chans \/ loop'[run[j].on] = [at |-> "insert", id |-> j]
  BY <1>2, <1>3, LoopMoves
<1>6. \A j \in Ids : Frame("close", j) \in ToSet(toEngine) => Frame("close", j) \in ToSet(toEngine')
  <2>1. \A j \in Ids : Frame("close", j) # Frame("input", i)
    BY DEF Frame
  <2> QED BY <1>2, <1>3, <2>1, StillComing
<1> QED BY <1>2, <1>3, <1>4, <1>5, <1>6, EngineInv

LEMMA WrittenInv ==
  ASSUME ChannelsInv, NEW s \in Sockets, Written(s)
  PROVE  ChannelsInv'
<1>1. /\ loop[s].at = "pipe" /\ loop' = [loop EXCEPT ![s] = [at |-> "read", id |-> 0]]
      /\ UNCHANGED <<sock, opens, queue, view, owner, ids, toEngine, run, chans>>
  BY DEF Written, Reading, client
<1>2. /\ toEngine' \in Seq(Frames) /\ Sound(toEngine', ids, run, view) /\ (sock # "open" => toEngine' = <<>>)
      /\ run' \in [Ids -> Runners] /\ chans' \subseteq Ids
  BY <1>1 DEF ChannelsInv, ChannelsTypeOK, Wire, Runners
<1>3. /\ loop' \in [Sockets -> [at : {"read", "insert", "ack", "pipe"}, id : {0} \cup Ids]]
      /\ \A t \in Sockets : loop'[t].at = "insert" => loop'[t].id \in Ids
      /\ \A j \in Ids : run[j].at = "running" /\ ~run[j].cancelled =>
           j \in chans \/ loop'[run[j].on] = [at |-> "insert", id |-> j]
  BY <1>1, LoopMoves
<1> QED BY <1>1, <1>2, <1>3, EngineInv

LEMMA CleanupInv ==
  ASSUME ChannelsInv, NEW s \in Sockets, Cleanup(s)
  PROVE  ChannelsInv'
<1>1. /\ run' = [i \in Ids |-> IF run[i].on = s /\ i \in chans
                                THEN [run[i] EXCEPT !.cancelled = run[i].at # "gone"] ELSE run[i]]
      /\ chans' = {i \in chans : run[i].on # s}
      /\ UNCHANGED <<sock, opens, queue, view, owner, ids, toEngine, loop>>
  BY DEF Cleanup, client
<1>2. /\ toEngine' \in Seq(Frames) /\ Sound(toEngine', ids, run, view) /\ (sock # "open" => toEngine' = <<>>)
      /\ run \in [Ids -> Runners] /\ chans' \subseteq Ids
      /\ loop' \in [Sockets -> [at : {"read", "insert", "ack", "pipe"}, id : {0} \cup Ids]]
      /\ \A t \in Sockets : loop'[t].at = "insert" => loop'[t].id \in Ids
  BY <1>1 DEF ChannelsInv, ChannelsTypeOK, Wire, Runners, InTable
<1>3. ASSUME NEW i \in Ids
      PROVE  /\ run'[i] \in Runners /\ run'[i].on = run[i].on /\ run'[i].at = run[i].at
             /\ run'[i].at = "running" /\ ~run'[i].cancelled =>
                  run'[i] = run[i] /\ ~(run[i].on = s /\ i \in chans)
  <2>1. CASE run[i].on = s /\ i \in chans
    <3>1. run'[i] = [run[i] EXCEPT !.cancelled = run[i].at # "gone"]
      BY <1>1, <2>1
    <3>2. \A r \in Runners, b \in BOOLEAN :
            /\ [r EXCEPT !.cancelled = b] \in Runners /\ [r EXCEPT !.cancelled = b].cancelled = b
            /\ [r EXCEPT !.cancelled = b].at = r.at /\ [r EXCEPT !.cancelled = b].on = r.on
      BY DEF Runners
    <3>3. PICK b \in BOOLEAN : b = (run[i].at # "gone")
      OBVIOUS
    <3> QED BY <1>2, <3>1, <3>2, <3>3
  <2>2. CASE ~(run[i].on = s /\ i \in chans)
    BY <1>1, <1>2, <2>2
  <2> QED BY <2>1, <2>2
<1>4. run' \in [Ids -> Runners]
  <2>1. run' = [i \in Ids |-> run'[i]]
    BY <1>1
  <2> QED BY <1>3, <2>1
<1>5. ASSUME NEW i \in Ids, run'[i].at = "running", ~run'[i].cancelled
      PROVE  /\ ~run[i].cancelled
             /\ i \in chans' \/ loop'[run[i].on] = [at |-> "insert", id |-> i]
  BY <1>1, <1>3, <1>5 DEF ChannelsInv, InTable
<1> QED BY <1>1, <1>2, <1>3, <1>4, <1>5, EngineInv

(* What the end makes of a runner, and only of it. *)
LEMMA EndOf ==
  ASSUME run \in [Ids -> Runners], NEW i \in Ids,
         run' = [run EXCEPT ![i].at = "gone", ![i].cancelled = FALSE]
  PROVE  /\ run' \in [Ids -> Runners] /\ run'[i].at = "gone" /\ run'[i].on = run[i].on
         /\ run'[i].cancelled = FALSE
         /\ \A j \in Ids \ {i} : run'[j] = run[j]
<1>1. \A r \in Runners : /\ [r EXCEPT !.at = "gone", !.cancelled = FALSE] \in Runners
                        /\ [r EXCEPT !.at = "gone", !.cancelled = FALSE].at = "gone"
                        /\ [r EXCEPT !.at = "gone", !.cancelled = FALSE].on = r.on
                        /\ [r EXCEPT !.at = "gone", !.cancelled = FALSE].cancelled = FALSE
  BY DEF Runners
<1>2. run'[i] = [run[i] EXCEPT !.at = "gone", !.cancelled = FALSE] /\ DOMAIN run' = Ids
  OBVIOUS
<1>3. \A j \in Ids \ {i} : run'[j] = run[j]
  OBVIOUS
<1>4. /\ run'[i] \in Runners /\ run'[i].at = "gone" /\ run'[i].on = run[i].on
      /\ run'[i].cancelled = FALSE
  <2>1. run[i] \in Runners
    OBVIOUS
  <2> QED BY <1>1, <1>2, <2>1
<1>5. run' \in [Ids -> Runners]
  <2>1. \A j \in Ids : run'[j] \in Runners
    BY <1>3, <1>4
  <2>2. run' = [j \in Ids |-> run'[j]]
    OBVIOUS
  <2> QED BY <2>1, <2>2
<1> QED BY <1>3, <1>4, <1>5

LEMMA FinishedInv ==
  ASSUME ChannelsInv, NEW i \in Ids, Finished(i)
  PROVE  ChannelsInv'
<1>1. /\ run[i].at = "said" /\ run' = [run EXCEPT ![i].at = "gone", ![i].cancelled = FALSE]
      /\ chans' = chans \ {i} /\ UNCHANGED <<sock, opens, queue, view, owner, ids, toEngine, loop>>
  BY DEF Finished, client
<1>2. /\ toEngine' \in Seq(Frames) /\ Sound(toEngine', ids, run, view) /\ (sock # "open" => toEngine' = <<>>)
      /\ run \in [Ids -> Runners] /\ chans' \subseteq Ids
      /\ loop' \in [Sockets -> [at : {"read", "insert", "ack", "pipe"}, id : {0} \cup Ids]]
      /\ \A t \in Sockets : loop'[t].at = "insert" => loop'[t].id \in Ids
  BY <1>1 DEF ChannelsInv, ChannelsTypeOK, Wire, Runners, InTable
<1>3. /\ run' \in [Ids -> Runners] /\ run'[i].at = "gone" /\ run'[i].on = run[i].on
      /\ \A j \in Ids \ {i} : run'[j] = run[j]
  BY <1>1, <1>2, EndOf
<1>4. ASSUME NEW j \in Ids, run'[j].at = "running", ~run'[j].cancelled
      PROVE  /\ ~run[j].cancelled
             /\ j \in chans' \/ loop'[run[j].on] = [at |-> "insert", id |-> j]
  BY <1>1, <1>3, <1>4 DEF ChannelsInv, InTable
<1> QED BY <1>1, <1>2, <1>3, <1>4, EngineInv

-----------------------------------------------------------------------------
LEMMA ChannelsNextInv == ChannelsInv /\ [ChannelsNext]_channelVars => ChannelsInv'
<1> SUFFICES ASSUME ChannelsInv, [ChannelsNext]_channelVars PROVE ChannelsInv'
  OBVIOUS
<1>1. ASSUME NEW v \in Views, Mount(v) \/ Unmount(v) \/ Restart(v) \/ Type(v) PROVE ChannelsInv'
  BY <1>1, MountInv, UnmountInv, RestartInv, TypeInv
<1>2. ASSUME NEW s \in Sockets, Loop(s) \/ Written(s) PROVE ChannelsInv'
  BY <1>2, ReadOpenInv, InsertInv, AckInv, ReadCloseInv, ReadInputInv, CleanupInv, WrittenInv DEF Loop
<1>3. ASSUME NEW i \in Ids, Output(i) \/ Finish(i) \/ Finished(i) PROVE ChannelsInv'
  BY <1>3, OutputInv, FinishInv, FinishedInv
<1>4. CASE UNCHANGED channelVars
  BY <1>4 DEF channelVars, client, ChannelsInv, ChannelsTypeOK, Wire, Drawn, InTable, NoOrphan, Wanted, Live,
              LiveIsAShell, LiveIsRunning
<1> QED BY <1>1, <1>2, <1>3, <1>4, ConnectionInv DEF ChannelsNext

LEMMA ChannelsInvariance == ChannelsSpec => []ChannelsInv
BY ChannelsInitInv, ChannelsNextInv, PTL DEF ChannelsSpec

(* The type invariant. *)
THEOREM ChannelsTypeCorrect == ChannelsSpec => []ChannelsTypeOK
BY ChannelsInvariance, PTL DEF ChannelsInv

(* Whoever runs for nobody is cancelled, or the frame that ends it is on the wire, or
   its socket is lost: no view that goes, falls back or is dropped leaves a session. *)
THEOREM NoSessionForNobody == ChannelsSpec => []NoOrphan
BY ChannelsInvariance, PTL DEF ChannelsInv

(* A local shell that shows itself live has its process on the socket that is open. *)
THEOREM LiveHasAProcess == ChannelsSpec => []LiveIsRunning
BY ChannelsInvariance, PTL DEF ChannelsInv

(* A runner that is gone is not to be cancelled any more. *)
GoneForGood == \A i \in Ids : run[i].at = "gone" => ~run[i].cancelled

OpensOnce ==
  \A i \in Ids : run[i].at # "none" =>
    run'[i].on = run[i].on /\ (run[i].at = "gone" => run'[i] = run[i])

LEMMA OpensOnceStep ==
  ASSUME ChannelsInv, GoneForGood, [ChannelsNext]_channelVars
  PROVE  GoneForGood' /\ OpensOnce
<1>1. run \in [Ids -> Runners]
  BY DEF ChannelsInv, ChannelsTypeOK, Runners
<1>2. ASSUME UNCHANGED run PROVE GoneForGood' /\ OpensOnce
  BY <1>2 DEF GoneForGood, OpensOnce
<1>3. ASSUME NEW v \in Views, Mount(v) \/ Unmount(v) \/ Restart(v) \/ Type(v) PROVE GoneForGood' /\ OpensOnce
  BY <1>2, <1>3 DEF Mount, Unmount, Restart, Type
<1>4. ASSUME Open \/ Refuse \/ Close \/ Reconnect PROVE GoneForGood' /\ OpensOnce
  BY <1>2, <1>4 DEF Open, Refuse, Close, Reconnect
<1>5. ASSUME NEW s \in Sockets, Insert(s) \/ Ack(s) \/ ReadInput(s) \/ Written(s) PROVE GoneForGood' /\ OpensOnce
  BY <1>2, <1>5 DEF Insert, Ack, ReadInput, Written
<1>6. ASSUME NEW s \in Sockets, ReadOpen(s) PROVE GoneForGood' /\ OpensOnce
  <2>1. PICK i : i = Head(toEngine).id
    OBVIOUS
  <2>2. Takes(s, "open") /\ run' = [run EXCEPT ![i] = [at |-> "running", on |-> s, cancelled |-> FALSE]]
    BY <1>6, <2>1 DEF ReadOpen
  <2>3. i \in Ids /\ run[i].at = "none"
    BY <2>1, <2>2, TakenFrame DEF ChannelsInv, Wire, Sound
  <2>4. run'[i].at = "running" /\ \A j \in Ids \ {i} : run'[j] = run[j]
    BY <1>1, <2>2, <2>3
  <2> QED BY <2>3, <2>4 DEF GoneForGood, OpensOnce
<1>7. ASSUME NEW s \in Sockets, ReadClose(s) PROVE GoneForGood' /\ OpensOnce
  <2>1. PICK i : i = Head(toEngine).id
    OBVIOUS
  <2>2. /\ Takes(s, "close")
        /\ run' = IF i \in chans /\ run[i].at # "gone" THEN [run EXCEPT ![i].cancelled = TRUE] ELSE run
    BY <1>7, <2>1 DEF ReadClose
  <2>3. i \in Ids
    BY <2>1, <2>2, TakenFrame
  <2>4. /\ \A j \in Ids : run'[j].on = run[j].on /\ run'[j].at = run[j].at
        /\ \A j \in Ids : run[j].at = "gone" => run'[j] = run[j]
    BY <1>1, <2>2, <2>3 DEF Runners
  <2> QED BY <2>4 DEF GoneForGood, OpensOnce
<1>8. ASSUME NEW s \in Sockets, Cleanup(s) PROVE GoneForGood' /\ OpensOnce
  <2>1. ASSUME NEW i \in Ids
        PROVE  run'[i].on = run[i].on /\ run'[i].at = run[i].at /\ (run[i].at = "gone" => run'[i] = run[i])
    <3>1. run'[i] = run[i] \/ run'[i] = [run[i] EXCEPT !.cancelled = run[i].at # "gone"]
      BY <1>8 DEF Cleanup
    <3>2. PICK b \in BOOLEAN : b = (run[i].at # "gone")
      OBVIOUS
    <3>3. run[i].at = "gone" => ~run[i].cancelled /\ ~b
      BY <3>2 DEF GoneForGood
    <3>4. \A r \in Runners : /\ [r EXCEPT !.cancelled = b].at = r.at /\ [r EXCEPT !.cancelled = b].on = r.on
                            /\ ~r.cancelled /\ ~b => [r EXCEPT !.cancelled = b] = r
      BY DEF Runners
    <3>5. run[i] \in Runners
      BY <1>1
    <3>6. CASE run'[i] = run[i]
      BY <3>6
    <3>7. CASE run'[i] = [run[i] EXCEPT !.cancelled = b]
      <4>1. run'[i].at = run[i].at /\ run'[i].on = run[i].on
        BY <3>4, <3>5, <3>7
      <4>2. run[i].at = "gone" => run'[i] = run[i]
        BY <3>3, <3>4, <3>5, <3>7
      <4> QED BY <4>1, <4>2
    <3> QED BY <3>1, <3>2, <3>6, <3>7
  <2> QED BY <2>1 DEF GoneForGood, OpensOnce
<1>9. ASSUME NEW i \in Ids, Output(i) PROVE GoneForGood' /\ OpensOnce
  BY <1>2, <1>9 DEF Output
<1>10. ASSUME NEW i \in Ids, Finish(i) \/ Finished(i) PROVE GoneForGood' /\ OpensOnce
  <2>1. /\ run[i].at \in {"running", "said"} /\ run'[i].on = run[i].on
        /\ run'[i].at = "gone" => ~run'[i].cancelled
        /\ \A j \in Ids \ {i} : run'[j] = run[j]
    <3>1. CASE Finish(i)
      <4>1. run[i].at = "running" /\ run' = [run EXCEPT ![i].at = "said"]
        BY <3>1 DEF Finish
      <4> QED BY <1>1, <4>1 DEF Runners
    <3>2. CASE Finished(i)
      <4>1. run[i].at = "said" /\ run' = [run EXCEPT ![i].at = "gone", ![i].cancelled = FALSE]
        BY <3>2 DEF Finished
      <4> QED BY <1>1, <4>1, EndOf
    <3> QED BY <1>10, <3>1, <3>2
  <2> QED BY <2>1 DEF GoneForGood, OpensOnce
<1>11. CASE UNCHANGED channelVars
  BY <1>2, <1>11 DEF channelVars
<1> QED BY <1>3, <1>4, <1>5, <1>6, <1>7, <1>8, <1>9, <1>10, <1>11 DEF ChannelsNext, Loop

(* A channel is opened once, on one socket: a session that ended, or whose socket was
   lost, never comes back under its id. *)
THEOREM ChannelsOpenOnce == ChannelsSpec => OpenedOnce
<1>1. ChannelsInit => GoneForGood
  BY DEF ChannelsInit, GoneForGood, NoRunner
<1>2. ChannelsInv /\ GoneForGood /\ [ChannelsNext]_channelVars => GoneForGood' /\ OpensOnce
  BY OpensOnceStep
<1>3. ChannelsInv /\ GoneForGood /\ [ChannelsNext]_channelVars => [OpensOnce]_channelVars
  BY <1>2
<1> QED BY <1>1, <1>2, <1>3, ChannelsInvariance, PTL DEF ChannelsSpec, OpenedOnce, OpensOnce
=============================================================================
