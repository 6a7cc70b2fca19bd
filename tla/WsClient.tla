----------------------------- MODULE WsClient -----------------------------
(***************************************************************************)
(* The web client's side of the streams: the one multiplexed socket        *)
(* (lib/ws.ts), the streams mounted pages hold (lib/useResourceStream.ts), *)
(* the background streams of connected clusters (lib/clusterConnections),  *)
(* the cache they share (lib/streamCache.ts) and the disconnects another   *)
(* window announces (lib/useRemoteDisconnects.ts).  The engine's hub is    *)
(* here as far as the client sees it: a table of subscriptions, each fed   *)
(* in order (how is in WatchStream).  The socket delays what the client    *)
(* sends; what the engine sends is handled as it is sent, which loses no   *)
(* behaviour: a frame late on the wire is a frame the engine sent late.    *)
(*                                                                         *)
(* One resource kind is modelled, so a specKey is a cluster.  The rows of  *)
(* a cluster are one row with a version.  JavaScript runs one handler at a *)
(* time: a handler, with all it calls, is one action.                      *)
(***************************************************************************)
EXTENDS Naturals, FiniteSets, SequencesExt

CONSTANTS
  Clusters,
  Hooks,        \* places on the pages that hold a stream
  None,         \* no cluster
  MaxVersion,   \* bound of the model: changes of rows (no more once a cluster has had so many)
  MaxOpens,     \* bound of the model: sockets opened
  MaxIds,       \* bound of the model: subscription ids drawn
  MaxEnds       \* bound of the model: subscriptions the engine ends

ASSUME NoneIsNoCluster == None \notin Clusters
ASSUME BoundsAreNat ==
  {MaxVersion, MaxOpens, MaxIds, MaxEnds} \subseteq Nat

VARIABLES
  sock,      \* the socket: connecting, open, or down until the retry timer
  gen,       \* sockets opened so far
  subs,      \* MultiplexedStream.subs, in insertion order
  toEngine,  \* frames on the wire to the engine
  engine,    \* the hub's table for this socket: a subscription per id
  version,   \* the rows of each cluster, as the engine has them
  hook,      \* the refs of each useResourceStream
  shown,     \* what its last render showed
  flush,     \* hooks whose 16 ms flush timer is pending
  bg,        \* clusterConnections' connections
  cache,     \* streamCache
  leaving,   \* cluster another window disconnected, its pages not unmounted yet
  forgotten, \* history: clusters disconnected, and not opened here since
  ids, ends  \* bounds: ids drawn, subscriptions ended

wire == <<sock, gen>>
vars == <<wire, subs, toEngine, engine, version, hook, shown, flush,
          bg, cache, leaving, forgotten, ids, ends>>

Ids      == 1 .. MaxIds
Versions == 0 .. MaxVersion
Row      == [c : Clusters, v : Versions]
Rows     == SUBSET Row
Spec0    == [id : Ids, c : Clusters]

(* applyOps for the one row of a cluster *)
Applied(rows, r) == {x \in rows : x.c # r.c} \cup {r}

NoSub     == [c |-> None, at |-> "none", sent |-> 0]
NoEntry   == [kept |-> FALSE, rows |-> {}, synced |-> FALSE]
Entry(rows, ok) == [kept |-> TRUE, rows |-> rows, synced |-> ok]
NoConn    == [on |-> FALSE, id |-> 0, has |-> FALSE, store |-> {}, buffering |-> FALSE,
              buffer |-> {}, synced |-> FALSE, error |-> FALSE]
Unmounted == [c |-> None, id |-> 0, store |-> {}, buffering |-> FALSE, buffer |-> {},
              synced |-> FALSE, connected |-> FALSE, forbidden |-> FALSE, here |-> FALSE]

(* What a render derives from the refs. *)
Rendered(k) == [rows |-> k.store, synced |-> k.synced, connected |-> k.connected,
                forbidden |-> k.forbidden, here |-> k.here]

Init ==
  /\ sock = "connecting" /\ gen = 0
  /\ subs = <<>> /\ toEngine = <<>>
  /\ engine = [i \in Ids |-> NoSub]
  /\ version = [c \in Clusters |-> 0]
  /\ hook = [h \in Hooks |-> Unmounted] /\ flush = {}
  /\ shown = [h \in Hooks |-> Rendered(Unmounted)]
  /\ bg = [c \in Clusters |-> NoConn]
  /\ cache = [c \in Clusters |-> NoEntry]
  /\ leaving = None /\ forgotten = {} /\ ids = 0 /\ ends = 0

-----------------------------------------------------------------------------
(* The socket *)

Frame(type, spec) == [type |-> type, id |-> spec.id, c |-> spec.c]

(* What goes out now if the socket is open, and not at all otherwise. *)
Out(frames) == IF sock = "open" THEN toEngine \o frames ELSE toEngine

(* Mutant: a reconnect keeps the synced flag. *)
Status_KeepsSynced(k, up) == [k EXCEPT !.connected = up]

(* applyStatusTransition: a reconnect invalidates the synced flag at once. *)
Status(k, up) ==
  [k EXCEPT !.connected = up, !.synced = @ /\ ~(up /\ ~k.connected)]

Mounted == {h \in Hooks : hook[h].c # None}

ToAll(up) ==
  /\ hook' = [h \in Hooks |-> IF h \in Mounted THEN Status(hook[h], up) ELSE hook[h]]
  /\ flush' = flush \cup Mounted

(* onopen: every subscription is replayed on the new socket. *)
Open ==
  /\ sock = "connecting" /\ gen < MaxOpens
  /\ sock' = "open" /\ gen' = gen + 1
  /\ hook' = [h \in Hooks |-> [IF h \in Mounted THEN Status(hook[h], TRUE) ELSE hook[h]
                               EXCEPT !.here = FALSE]]
  /\ shown' = [h \in Hooks |-> [shown[h] EXCEPT !.here = FALSE]]
  /\ flush' = flush \cup Mounted
  /\ toEngine' = [i \in DOMAIN subs |-> Frame("sub", subs[i])]
  /\ UNCHANGED <<subs, engine, version, bg, cache, leaving, forgotten, ids, ends>>

(* The socket is lost, with the frames on it; the hub drops its table.
   The last socket of the model stays up. *)
Close ==
  /\ sock = "open" /\ gen < MaxOpens
  /\ sock' = "down"
  /\ toEngine' = <<>>
  /\ engine' = [i \in Ids |-> NoSub]
  /\ ToAll(FALSE)
  /\ UNCHANGED <<gen, subs, version, shown, bg, cache, leaving, forgotten, ids, ends>>

(* The retry timer: 1.5 s, doubled with every attempt since a connection was
   last stable up to 30 s, so always far behind a 16 ms flush. *)
Reconnect ==
  /\ sock = "down" /\ flush = {}
  /\ sock' = "connecting"
  /\ UNCHANGED <<gen, subs, toEngine, engine, version, hook, shown, flush,
                 bg, cache, leaving, forgotten, ids, ends>>

SameWire == UNCHANGED <<wire, version, ends>>

(* subscribe, unsubscribe: a frame only if the socket is open; onopen sends the rest. *)
Subscribed(list, spec) == Append(list, spec)

(* Mutant: the map of subscriptions keeps an unsubscribed one. *)
Without_KeepsSpec(list, id) == list

Without(list, id) ==
  IF \E n \in DOMAIN list : list[n].id = id
    THEN RemoveAt(list, CHOOSE n \in DOMAIN list : list[n].id = id)
    ELSE list

-----------------------------------------------------------------------------
(* useResourceStream *)

(* The effect: what the hook starts from, given what the cache holds.  attach
   tells it at once that the socket is open. *)
Effect(k, c, id, mem) ==
  LET warm == [Unmounted EXCEPT !.c = c, !.id = id, !.store = mem.rows,
                 !.synced = mem.synced,
                 !.connected = IF mem.kept THEN FALSE ELSE k.connected]
  IN  IF sock = "open" THEN Status(warm, TRUE) ELSE warm

(* The cleanup: the pending flush must not fire after an unmount, and synced rows
   go to the cache. *)
Cancelled(h) == flush \ {h}

Saved(h) ==
  IF hook[h].c # None /\ hook[h].synced
    THEN [cache EXCEPT ![hook[h].c] = Entry(hook[h].store, TRUE)] ELSE cache

(* A page shows cluster c in place h: first mount, or a changed specKey.  The
   cleanup of the old effect runs before the new one. *)
Show(h, c) ==
  /\ hook[h].c # c /\ ids < MaxIds /\ leaving = None
  /\ ids' = ids + 1
  /\ cache' = Saved(h)
  /\ hook' = [hook EXCEPT ![h] = Effect(hook[h], c, ids', cache'[c])]
  /\ shown' = [shown EXCEPT ![h] = Rendered(hook'[h])]
  /\ flush' = IF sock = "open" THEN flush \cup {h} ELSE Cancelled(h)
  /\ subs' = Subscribed(Without(subs, hook[h].id), [id |-> ids', c |-> c])
  /\ toEngine' = Out((IF h \in Mounted THEN <<Frame("unsub", hook[h])>> ELSE <<>>)
                       \o <<Frame("sub", [id |-> ids', c |-> c])>>)
  /\ forgotten' = forgotten \ {c}
  /\ SameWire /\ UNCHANGED <<engine, bg, leaving>>

(* The page goes away, or the stream is disabled. *)
Unmount(h) ==
  /\ h \in Mounted
  /\ cache' = Saved(h)
  /\ hook' = [hook EXCEPT ![h] = Unmounted]
  /\ shown' = [shown EXCEPT ![h] = Rendered(Unmounted)]
  /\ flush' = Cancelled(h)
  /\ subs' = Without(subs, hook[h].id)
  /\ toEngine' = Out(<<Frame("unsub", hook[h])>>)
  /\ leaving' = IF hook[h].c = leaving /\ \A g \in Hooks \ {h} : hook[g].c # leaving
                  THEN None ELSE leaving
  /\ SameWire /\ UNCHANGED <<engine, bg, forgotten, ids>>

(* The timer fires: the next render derives rows and flags from the refs. *)
Flush(h) ==
  /\ h \in flush
  /\ shown' = [shown EXCEPT ![h] = Rendered(hook[h])]
  /\ flush' = flush \ {h}
  /\ SameWire
  /\ UNCHANGED <<subs, toEngine, engine, hook, bg, cache, leaving, forgotten, ids>>

-----------------------------------------------------------------------------
(* clusterConnections *)

(* connectCluster: idempotent; starts from the cache. *)
Connect(c) ==
  /\ ~bg[c].on /\ ids < MaxIds /\ leaving = None
  /\ ids' = ids + 1
  /\ bg' = [bg EXCEPT ![c] = [NoConn EXCEPT !.on = TRUE, !.id = ids', !.has = cache[c].kept,
                                !.store = cache[c].rows, !.synced = cache[c].synced]]
  /\ subs' = Subscribed(subs, [id |-> ids', c |-> c])
  /\ toEngine' = Out(<<Frame("sub", [id |-> ids', c |-> c])>>)
  /\ forgotten' = forgotten \ {c}
  /\ SameWire /\ UNCHANGED <<engine, hook, shown, flush, cache, leaving>>

(* disconnectCluster: its streams and its cached rows go, if this window has a
   background connection for it (after a reload it has none). *)
Dropped(c) ==
  /\ bg' = [bg EXCEPT ![c] = NoConn]
  /\ subs' = IF bg[c].on THEN Without(subs, bg[c].id) ELSE subs
  /\ toEngine' = IF bg[c].on THEN Out(<<Frame("unsub", [id |-> bg[c].id, c |-> c])>>)
                 ELSE toEngine
  /\ cache' = IF bg[c].on THEN [cache EXCEPT ![c] = NoEntry] ELSE cache
  /\ forgotten' = forgotten \cup {c}

(* The user disconnects on the picker, where no page of the app is mounted. *)
Disconnect(c) ==
  /\ Mounted = {} /\ leaving = None /\ (bg[c].on \/ cache[c].kept)
  /\ Dropped(c)
  /\ SameWire /\ UNCHANGED <<engine, hook, shown, flush, leaving, ids>>

(* Another window did: drop the cluster; its pages unmount with the navigation
   that follows. *)
RemoteDisconnect(c) ==
  /\ leaving = None /\ (bg[c].on \/ \E h \in Hooks : hook[h].c = c)
  /\ Dropped(c)
  /\ leaving' = IF \E h \in Hooks : hook[h].c = c THEN c ELSE None
  /\ SameWire /\ UNCHANGED <<engine, hook, shown, flush, ids>>

-----------------------------------------------------------------------------
(* A frame reaches the client *)

(* Every listener sees every frame, and goes by the subscription's id. *)
Mine(h, f) == hook[h].c # None /\ hook[h].id = f.id

OnHook(k, f) ==
  CASE f.type = "begin" -> [k EXCEPT !.buffering = TRUE, !.buffer = {}, !.synced = FALSE]
    [] f.type = "items" -> IF k.buffering THEN [k EXCEPT !.buffer = Applied(@, f.row)]
                           ELSE [k EXCEPT !.store = Applied(@, f.row)]
    [] f.type = "delta" -> [k EXCEPT !.store = Applied(@, f.row)]
    [] f.type = "sync"  -> [k EXCEPT !.store = IF k.buffering THEN k.buffer ELSE @,
                              !.buffering = FALSE, !.buffer = {}, !.synced = TRUE, !.here = TRUE]
    [] f.type = "forbidden" -> [k EXCEPT !.synced = FALSE, !.forbidden = TRUE]
    [] OTHER -> k

OnConn(k, f) ==
  CASE f.type = "begin" -> [k EXCEPT !.buffering = TRUE, !.buffer = {}, !.synced = FALSE]
    [] f.type = "items" ->
         IF k.buffering
           THEN [k EXCEPT !.buffer = Applied(@, f.row), !.has = TRUE,
                          !.store = IF k.has THEN @ ELSE Applied(k.buffer, f.row)]
           ELSE [k EXCEPT !.store = Applied(@, f.row), !.has = TRUE]
    [] f.type = "delta" -> [k EXCEPT !.store = Applied(@, f.row), !.has = TRUE]
    [] f.type = "sync"  -> [k EXCEPT !.store = IF k.buffering THEN k.buffer ELSE @, !.has = TRUE,
                              !.buffering = FALSE, !.buffer = {}, !.synced = TRUE]
    [] OTHER -> [k EXCEPT !.error = TRUE]

(* What the background stream of c writes through to the cache. *)
WroteThrough(mem, k, f) ==
  CASE f.type = "begin" -> IF k.has THEN Entry(k.store, FALSE) ELSE mem
    [] f.type = "delta" -> Entry(OnConn(k, f).store, k.synced)
    [] f.type = "sync"  -> Entry(OnConn(k, f).store, TRUE)
    [] OTHER -> mem

(* The reason "cluster credentials changed" is answered here, by a resync. *)
(* Mutant: the reason is reported as any other error. *)
Rotated_Never(f) == FALSE

Rotated(f) == f.type = "rotated" /\ \E i \in DOMAIN subs : subs[i].id = f.id

Handle(f) ==
  LET mine == {h \in Hooks : Mine(h, f)}
      conn == {c \in Clusters : bg[c].on /\ bg[c].id = f.id}
  IN /\ \/ /\ Rotated(f)
           /\ toEngine' = Out(<<Frame("resync", f)>>)
           /\ UNCHANGED <<hook, flush, bg, cache>>
        \/ /\ ~Rotated(f)
           /\ hook' = [h \in Hooks |-> IF h \in mine THEN OnHook(hook[h], f) ELSE hook[h]]
           /\ flush' = flush \cup mine
           /\ bg' = [c \in Clusters |-> IF c \in conn THEN OnConn(bg[c], f) ELSE bg[c]]
           /\ cache' = [c \in Clusters |->
                IF c \in conn THEN WroteThrough(cache[c], bg[c], f)
                ELSE IF f.type = "sync" /\ \E h \in mine : hook[h].c = c
                  THEN Entry((CHOOSE k \in {hook'[h] : h \in mine} : k.c = c).store, TRUE)
                ELSE cache[c]]
           /\ UNCHANGED toEngine
     /\ UNCHANGED <<wire, subs, shown, leaving, forgotten, ids>>

-----------------------------------------------------------------------------
(* The engine, as the client sees it *)

ClientSame == UNCHANGED <<wire, subs, hook, shown, flush, bg, cache, leaving, forgotten, ids>>

Say(type, i, v) ==
  Handle([type |-> type, id |-> i, c |-> engine[i].c, row |-> [c |-> engine[i].c, v |-> v]])

(* The hub's read loop: sub and resync start a subscription, unsub ends one.  One
   the source refuses (an error frame, and no entry in the table) is to the client
   one that ends as `disconnected` before its first frame: see End. *)
Take ==
  /\ toEngine # <<>>
  /\ LET f == Head(toEngine) IN
       engine' = [engine EXCEPT ![f.id] =
         IF f.type = "unsub" THEN NoSub
         ELSE [c |-> f.c, at |-> "start", sent |-> version[f.c]]]
  /\ toEngine' = Tail(toEngine)
  /\ ClientSame /\ UNCHANGED <<version, ends>>

(* A subscription's goroutine: the snapshot, framed, then the changes.  A change
   that comes before the snapshot goes out as items. *)
Stream(i) ==
  LET now == version[engine[i].c] IN
  /\ \/ /\ engine[i].at = "start" /\ Say("begin", i, 0)
        /\ engine' = [engine EXCEPT ![i].at = "begun", ![i].sent = now]
     \/ /\ engine[i].at = "start" /\ engine[i].sent # now /\ Say("items", i, now)
        /\ engine' = [engine EXCEPT ![i].sent = now]
     \/ /\ engine[i].at = "begun" /\ Say("items", i, engine[i].sent)
        /\ engine' = [engine EXCEPT ![i].at = "framed"]
     \/ /\ engine[i].at = "framed" /\ Say("sync", i, 0)
        /\ engine' = [engine EXCEPT ![i].at = "live"]
     \/ /\ engine[i].at = "live" /\ engine[i].sent # now /\ Say("delta", i, now)
        /\ engine' = [engine EXCEPT ![i].sent = now]
  /\ UNCHANGED <<version, ends>>

(* The engine ends a subscription: RBAC forbids it before it is listed, or the
   cluster is disconnected, or its credentials are replaced. *)
End(i) ==
  /\ ends < MaxEnds /\ ends' = ends + 1
  /\ \E why \in {"forbidden", "disconnected", "rotated"} :
       /\ engine[i].at = "start" \/ (engine[i].at = "live" /\ why # "forbidden")
       /\ Say(why, i, 0)
       /\ engine' = [engine EXCEPT ![i].at = IF why = "rotated" THEN why ELSE "ended",
                                   ![i].sent = 0]
  /\ UNCHANGED version

(* A change of rows nobody is streaming is one made before the stream. *)
Change(c) ==
  /\ \E i \in Ids : engine[i].c = c /\ engine[i].at \notin {"rotated", "ended"}
  /\ \A d \in Clusters : version[d] < MaxVersion
  /\ version' = [version EXCEPT ![c] = @ + 1]
  /\ ClientSame /\ UNCHANGED <<toEngine, engine, ends>>

-----------------------------------------------------------------------------
Next ==
  \/ Open \/ Close \/ Reconnect \/ Take
  \/ \E h \in Hooks : Unmount(h) \/ Flush(h) \/ \E c \in Clusters : Show(h, c)
  \/ \E c \in Clusters : Connect(c) \/ Disconnect(c) \/ RemoteDisconnect(c) \/ Change(c)
  \/ \E i \in Ids : Stream(i) \/ End(i)

(* The browser runs its timers and handlers, the engine its goroutines; the user
   and the cluster owe nothing.  Pages leave once the navigation has rendered. *)
Fairness ==
  /\ WF_vars(Open) /\ WF_vars(Reconnect) /\ WF_vars(Take)
  /\ \A h \in Hooks : WF_vars(Flush(h)) /\ WF_vars(hook[h].c = leaving /\ Unmount(h))
  /\ \A i \in Ids : WF_vars(Stream(i))

Spec == Init /\ [][Next]_vars /\ Fairness

-----------------------------------------------------------------------------
(* Properties *)

Hook == [c : Clusters \cup {None}, id : 0 .. MaxIds, store : Rows, buffering : BOOLEAN,
         buffer : Rows, synced : BOOLEAN, connected : BOOLEAN, forbidden : BOOLEAN,
         here : BOOLEAN]

Conn == [on : BOOLEAN, id : 0 .. MaxIds, has : BOOLEAN, store : Rows, buffering : BOOLEAN,
         buffer : Rows, synced : BOOLEAN, error : BOOLEAN]
View == [rows : Rows, synced : BOOLEAN, connected : BOOLEAN, forbidden : BOOLEAN,
         here : BOOLEAN]
Frames == [type : {"sub", "resync", "unsub"}, id : Ids, c : Clusters]
Stage  == [c : Clusters, at : {"start", "begun", "framed", "live", "rotated", "ended"},
           sent : Versions]
Cached == [kept : BOOLEAN, rows : Rows, synced : BOOLEAN]

(* The type invariant. *)
TypeOK ==
  /\ sock \in {"connecting", "open", "down"} /\ gen \in 0 .. MaxOpens
  /\ subs \in Seq(Spec0) /\ toEngine \in Seq(Frames)
  /\ engine \in [Ids -> {NoSub} \cup Stage] /\ version \in [Clusters -> Versions]
  /\ hook \in [Hooks -> Hook] /\ shown \in [Hooks -> View] /\ flush \subseteq Mounted
  /\ bg \in [Clusters -> Conn] /\ cache \in [Clusters -> Cached]
  /\ leaving \in Clusters \cup {None} /\ forgotten \subseteq Clusters
  /\ ids \in 0 .. MaxIds /\ ends \in 0 .. MaxEnds

(* What the client wants and what the engine streams agree whenever the wire to
   the engine is empty: nothing wanted was left out of a replay, and nothing
   dropped is still streamed, whatever was subscribed and dropped while the
   socket was down (ws.ts subscribe, unsubscribe, onopen). *)
SubsAgree ==
  sock = "open" /\ toEngine = <<>> =>
    {[id |-> i, c |-> engine[i].c] : i \in {j \in Ids : engine[j].at # "none"}} = ToSet(subs)

(* A page that says its rows are synced over an open connection got them on this
   connection, never from the cache or from an earlier socket
   (useResourceStream.ts applyStatusTransition). *)
LiveIsThisSocket ==
  \A h \in Hooks : shown[h].synced /\ shown[h].connected => shown[h].here

(* No page, background stream or cache entry ever holds a row of another
   cluster, though every listener is given every frame and one hook serves
   several specs in turn. *)
NoForeignRows ==
  /\ \A h \in Hooks : \A r \in hook[h].store \cup hook[h].buffer \cup shown[h].rows :
       r.c = hook[h].c
  /\ \A c \in Clusters : \A r \in bg[c].store \cup bg[c].buffer \cup cache[c].rows : r.c = c

(* In the end every mounted page shows its cluster's rows as they are, also after
   reconnects and a replaced credential, unless the engine ended its stream. *)
UpToDate(h) ==
  /\ shown[h].synced /\ shown[h].connected
  /\ shown[h].rows = {[c |-> hook[h].c, v |-> version[hook[h].c]]}
Settles ==
  <>[](\A h \in Hooks : hook[h].c = None \/ engine[hook[h].id].at = "ended" \/ UpToDate(h))

(* After a disconnect, here or in another window, this window wants no stream of
   the cluster once its pages are gone: none revives it on the engine, now or
   with the next replay (clusterConnections.ts, useRemoteDisconnects.ts). *)
LetGo ==
  \A c \in forgotten : leaving = c \/ \A i \in DOMAIN subs : subs[i].c # c

-----------------------------------------------------------------------------
(* Expectations the code does not meet *)

(* stream/hub.go:430 has the engine say that it ended a stream, "or the rows look
   live": a page whose stream the engine ended shows no live rows once the error
   is rendered. *)
EndedIsNotLive ==
  \A h \in Hooks :
    hook[h].c # None /\ engine[hook[h].id].at = "ended" /\ h \notin flush
      => ~(shown[h].synced /\ shown[h].connected)

(* streamCache.ts:8 keeps entries until the cluster is disconnected: after a
   disconnect nothing of the cluster stays cached until it is opened again. *)
CacheForgotten == \A c \in forgotten : leaving # c => ~cache[c].kept
=============================================================================
