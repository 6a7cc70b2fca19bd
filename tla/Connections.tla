---------------------------- MODULE Connections ----------------------------
(***************************************************************************)
(* Which clusters the engine serves, with which credentials, and the pools *)
(* built from them: the cluster manager (engine/internal/clusters/         *)
(* manager.go), the pool registry (engine/internal/informers/              *)
(* pool_registry.go) and the streams that go through both                  *)
(* (httpapi/server.go, poolSource).                                        *)
(*                                                                         *)
(* Goroutines: the watcher of the kubeconfig, whoever saves the settings   *)
(* and reloads, the handler of the disconnect request, and one for each    *)
(* stream or MCP read.  The manager's and the registry's locks are two,    *)
(* hooks run under neither, and a pool and its entries have locks of their *)
(* own: a subscription fetches its entry and joins it in two steps, and a  *)
(* pool is marked closed and its subscribers are ended one after another.  *)
(*                                                                         *)
(* A subscription has one entry here; those of several, and the sweeper,   *)
(* are InformerPool's subject.  A Load reads the list of files and the     *)
(* files at one moment; the watcher's own errors (an event lost because    *)
(* the system's queue overflows) are left out.                             *)
(***************************************************************************)
EXTENDS Integers, FiniteSets

CONSTANTS
  Clusters,   \* cluster ids
  Files,      \* the kubeconfigs there are
  Configs,    \* servers and credentials a context may resolve to
  Gone,       \* no such context
  Broken,     \* a context whose client config cannot be built
  Users,      \* goroutines that open streams: the page's, or reads of MCP tools
  Changes,    \* what a change makes of a cluster
  Starts,     \* what the kubeconfigs may say when the engine starts
  Watcher,    \* the goroutine that watches the kubeconfig
  Saver,      \* the request that saves which kubeconfigs are read
  Handler,    \* the request that disconnects a cluster
  MaxEdits,   \* bound of the model: how often the kubeconfig changes
  MaxPools    \* bound of the model: pools there are at a time

Loaders == {Watcher, Saver}
Threads == Loaders \cup {Handler}
PoolIds == 1 .. MaxPools
NoPool  == 0
Nobody  == "nobody"

ASSUME NoSuchConfig == Gone \notin Configs /\ Broken \notin Configs /\ Gone # Broken
ASSUME NobodyIsNoUser == Nobody \notin Users
ASSUME ChangesAreContent == Changes \subseteq Configs \cup {Gone, Broken}
ASSUME StartsAreContent == Starts \subseteq [Clusters -> Configs \cup {Gone, Broken}]
ASSUME BoundsNat == MaxEdits \in Nat /\ MaxPools \in Nat

VARIABLES
  file,       \* what the listed kubeconfigs say of each cluster
  readable,   \* they can be read and parsed
  listed,     \* the kubeconfigs that are to be read
  watched,    \* those whose changes the watcher reacts to
  event,      \* those with a change the watcher has yet to be told of
  dirty,      \* the watcher's debounce timer runs
  entries,    \* the manager's table
  connected,  \* clusters the user is connected to
  registry,   \* the pool of each cluster
  pool,       \* each pool: the config it was built from, and is it closed
  rlock,      \* who is in ForUser, holding the registry's lock
  user,       \* what each stream and read is doing
  thread,     \* what each loader and handler is doing
  edits,      \* history: how often the kubeconfigs changed
  raced,      \* history: loaders another, that had read later, swapped before
  outrun,     \* history: the table is from a Load this happened to
  missed,     \* history: a change nobody has read and the watcher never sees
  skipped,    \* history: clusters whose pool a reload owed no hook
  late        \* history: users who joined an entry its pool's Close had done

disk  == <<file, readable, listed, edits>>
watch == <<watched, event, dirty, missed>>
table == <<entries, connected>>
reg   == <<registry, pool, rlock>>
ghost == <<raced, outrun, skipped>>
vars  == <<disk, watch, table, reg, user, thread, ghost, late>>

Content == [Clusters -> Configs \cup {Gone, Broken}]

(* No pool, not closed: a number free for the next one. *)
Unused == [cfg |-> Gone, closed |-> FALSE]

(* todo: the subscribers of the pool that is being closed not yet visited. *)
Resting == [pc |-> "idle", list |-> {}, at |-> 0, raw |-> [c \in Clusters |-> Gone],
            prev |-> [c \in Clusters |-> Gone],
            close |-> {}, retire |-> {}, closing |-> NoPool, why |-> "", todo |-> {}]

(* Hooks to run: Close of some clusters, then Retire of others. *)
Hooks(close, retire) == [Resting EXCEPT !.close = close, !.retire = retire]

(* A user of c, a stream or a read. *)
Asking(c) == [pc |-> "for", cluster |-> c, pool |-> NoPool]
Rest      == [pc |-> "idle"]

(* NewManager has loaded the kubeconfigs and watches them; they may have
   changed in between. *)
Init ==
  /\ file \in Starts
  /\ readable = TRUE
  /\ listed \in SUBSET Files
  /\ watched = listed
  /\ event = {}
  /\ dirty = FALSE
  /\ entries \in Starts
  /\ missed = (entries # file)
  /\ connected = {}
  /\ registry = [c \in Clusters |-> NoPool]
  /\ pool = [p \in PoolIds |-> Unused]
  /\ rlock = Nobody
  /\ user = [u \in Users |-> Rest]
  /\ thread = [t \in Threads |-> Resting]
  /\ edits = 0
  /\ raced = {}
  /\ outrun = FALSE
  /\ skipped = {}
  /\ late = {}

-----------------------------------------------------------------------------
(* A stream connects its cluster, gets the cluster's pool and subscribes to
   it; a read does the last two. *)

(* A page subscribes, or resubscribes because it was told that the
   credentials changed. *)
Connect(s, c) ==
  /\ user[s].pc = "idle" \/ (user[s].pc = "told" /\ user[s].cluster = c)
  /\ entries[c] \in Configs
  /\ connected' = connected \cup {c}
  /\ user' = [user EXCEPT ![s] = Asking(c)]
  /\ UNCHANGED <<disk, watch, entries, reg, thread, ghost, late>>

(* The connect request: without a stream. *)
ConnectOnly(c) ==
  /\ entries[c] \in Configs
  /\ connected' = connected \cup {c}
  /\ UNCHANGED <<disk, watch, entries, reg, user, thread, ghost, late>>

ConnectFails(s) ==
  /\ user[s].pc = "told"
  /\ entries[user[s].cluster] \notin Configs
  /\ user' = [user EXCEPT ![s] = Rest]
  /\ UNCHANGED <<disk, watch, table, reg, thread, ghost, late>>

Read(r, c) ==
  /\ user[r].pc = "idle"
  /\ user' = [user EXCEPT ![r] = Asking(c)]
  /\ UNCHANGED <<disk, watch, table, reg, thread, ghost, late>>

ForFound(u) ==
  /\ user[u].pc = "for"
  /\ rlock = Nobody
  /\ registry[user[u].cluster] # NoPool
  /\ user' = [user EXCEPT ![u].pc = "got", ![u].pool = registry[user[u].cluster]]
  /\ UNCHANGED <<disk, watch, table, reg, thread, ghost, late>>

InUse == {registry[c] : c \in Clusters} \cup {thread[t].closing : t \in Threads}
           \cup {user[u].pool : u \in {v \in Users : user[v].pc # "idle"}}

Free == PoolIds \ InUse

(* Pools nobody has any more are garbage. *)
Collect(pools) == pool' = [p \in PoolIds |-> IF p \in InUse' THEN pools[p] ELSE Unused]

(* Mutant: the lock is let go while the config is resolved. *)
ForReads_Unlocked(u) ==
  /\ user[u].pc = "for"
  /\ rlock = Nobody
  /\ registry[user[u].cluster] = NoPool
  /\ entries[user[u].cluster] \in Configs
  /\ Free # {}
  /\ LET p == CHOOSE p \in Free : TRUE IN
       /\ pool' = [pool EXCEPT ![p] = [cfg |-> entries[user[u].cluster], closed |-> FALSE]]
       /\ user' = [user EXCEPT ![u].pc = "make", ![u].pool = p]
  /\ UNCHANGED <<disk, watch, table, registry, rlock, thread, ghost, late>>

(* ForUser resolves the config, *)
ForReads(u) ==
  /\ user[u].pc = "for"
  /\ rlock = Nobody
  /\ registry[user[u].cluster] = NoPool
  /\ entries[user[u].cluster] \in Configs
  /\ Free # {}
  /\ LET p == CHOOSE p \in Free : TRUE IN
       /\ pool' = [pool EXCEPT ![p] = [cfg |-> entries[user[u].cluster], closed |-> FALSE]]
       /\ user' = [user EXCEPT ![u].pc = "make", ![u].pool = p]
  /\ rlock' = u
  /\ UNCHANGED <<disk, watch, table, registry, thread, ghost, late>>

ForFails(u) ==
  /\ user[u].pc = "for"
  /\ rlock = Nobody
  /\ registry[user[u].cluster] = NoPool
  /\ entries[user[u].cluster] \notin Configs
  /\ user' = [user EXCEPT ![u] = Rest]
  /\ UNCHANGED <<disk, watch, table, reg, thread, ghost, late>>

(* and puts the pool made of it into the registry, still under the lock. *)
ForMakes(u) ==
  /\ user[u].pc = "make"
  /\ registry' = [registry EXCEPT ![user[u].cluster] = user[u].pool]
  /\ rlock' = Nobody
  /\ user' = [user EXCEPT ![u].pc = "got"]
  /\ UNCHANGED <<disk, watch, table, pool, thread, ghost, late>>

(* entryFor, under the pool's lock, *)
Fetch(u) ==
  /\ user[u].pc = "got"
  /\ ~pool[user[u].pool].closed
  /\ user' = [user EXCEPT ![u].pc = "join"]
  /\ UNCHANGED <<disk, watch, table, reg, thread, ghost, late>>

(* A closed pool refuses: "cluster disconnected". *)
SubscribeFails(u) ==
  /\ user[u].pc = "got"
  /\ pool[user[u].pool].closed
  /\ user' = [user EXCEPT ![u] = Rest]
  /\ UNCHANGED <<disk, watch, table, registry, rlock, thread, ghost, late>>
  /\ Collect(pool)

(* Somebody who closes u's pool has yet to look at the entry u is in. *)
Awaited(u) == \E t \in Threads : thread[t].closing = user[u].pool /\ u \in thread[t].todo

(* and the entry's subscribers, under the entry's: nobody looks whether the
   pool is still open. *)
Join(u) ==
  /\ user[u].pc = "join"
  /\ user' = [user EXCEPT ![u].pc = "open"]
  /\ late' = IF pool[user[u].pool].closed /\ ~Awaited(u) THEN late \cup {u} ELSE late
  /\ UNCHANGED <<disk, watch, table, reg, thread, ghost>>

(* The page unsubscribes; the read has its snapshot. *)
Unsubscribe(u) ==
  /\ user[u].pc \in {"open", "told"}
  /\ user' = [user EXCEPT ![u] = Rest]
  /\ late' = late \ {u}
  /\ UNCHANGED <<disk, watch, table, registry, rlock, thread, ghost>>
  /\ Collect(pool)

-----------------------------------------------------------------------------
(* The kubeconfigs change on disk, and the watcher hears of it, or not. *)

Change ==
  /\ edits < MaxEdits
  /\ edits' = edits + 1
  /\ readable' = TRUE
  /\ \E c \in Clusters, x \in Changes : file' = [file EXCEPT ![c] = x]

Spoil ==
  /\ edits < MaxEdits
  /\ edits' = edits + 1
  /\ readable' = FALSE
  /\ UNCHANGED file

Reload ==
  /\ edits < MaxEdits
  /\ edits' = edits + 1
  /\ UNCHANGED <<file, readable>>

(* A file that is read changes.  If it is not one the watcher reacts to, its
   directory may still be one of those watched. *)
Edit(f) ==
  /\ f \in listed
  /\ Change \/ Spoil
  /\ \/ event' = event \cup {f} /\ UNCHANGED missed
     \/ f \notin watched /\ missed' = TRUE /\ UNCHANGED event
  /\ UNCHANGED <<listed, watched, dirty, table, reg, user, thread, ghost, late>>

(* The watcher's loop, which runs its reloads itself: an event of a file it
   reacts to starts the debounce timer, *)
WatchSees(f) ==
  /\ thread[Watcher] = Resting
  /\ f \in event
  /\ event' = event \ {f}
  /\ dirty' = (dirty \/ f \in watched)
  /\ missed' = (missed \/ f \notin watched)
  /\ UNCHANGED <<disk, watched, table, reg, user, thread, ghost, late>>

-----------------------------------------------------------------------------
(* Load. *)

(* The kubeconfigs are read; Load returns an error if they cannot be. *)
LoadReads(l) ==
  /\ thread' = [thread EXCEPT ![l] =
                  IF readable' THEN [Resting EXCEPT !.pc = "compare", !.list = listed', !.at = edits', !.raw = file']
                  ELSE Resting]
  /\ missed' = FALSE

(* and a timer that is over reloads. *)
WatchFires ==
  /\ dirty
  /\ thread[Watcher] = Resting
  /\ dirty' = FALSE
  /\ UNCHANGED <<disk, watched, event, table, reg, user, ghost, late>>
  /\ LoadReads(Watcher)

(* SetExtraKubeconfigs, one save at a time: the saved list is what is read
   from now on. *)
Save ==
  /\ thread[Saver] = Resting
  /\ \/ Reload /\ UNCHANGED listed
     \/ Change /\ listed' \in SUBSET Files \ {listed}
  /\ LoadReads(Saver)
  /\ UNCHANGED <<watched, event, dirty, table, reg, user, ghost, late>>

LoadCompares(l) ==
  /\ thread[l].pc = "compare"
  /\ thread' = [thread EXCEPT ![l].pc = "swap", ![l].prev = entries]
  /\ UNCHANGED <<disk, watch, table, reg, user, ghost, late>>

(* Mutant: a config that can no longer be built is no change. *)
Changed_Usable(prev, raw) ==
  {c \in Clusters : prev[c] \in Configs /\ raw[c] \in Configs /\ raw[c] # prev[c]}

(* The clusters `changed` lists: in both, with a config before and another
   (or none that can be built) now. *)
Changed(prev, raw) ==
  {c \in Clusters : prev[c] \in Configs /\ raw[c] # Gone /\ raw[c] # prev[c]}

Removed(old, raw) == {c \in Clusters : old[c] # Gone /\ raw[c] = Gone}

(* A pool of c is in the registry or about to be. *)
HasPool(c) == registry[c] # NoPool \/ \E u \in Users : user[u].pc = "make" /\ user[u].cluster = c

InFlight(l) == thread[l].pc \in {"compare", "swap"}

(* One locked section: the table is replaced, and clusters that are gone are
   no longer connected.  The history: a pool is skipped if its cluster goes
   while not connected, or if the table replaced is not the one compared. *)
LoadSwaps(l) ==
  LET t    == thread[l]
      gone == Removed(entries, t.raw)
  IN  /\ t.pc = "swap"
      /\ entries' = t.raw
      /\ connected' = connected \ gone
      /\ thread' = [thread EXCEPT ![l] = [Hooks(gone \cap connected, Changed(t.prev, t.raw))
                                           EXCEPT !.pc = "watch", !.list = t.list]]
      /\ skipped' = skipped \cup {c \in Clusters : HasPool(c) /\ (t.prev # entries \/ c \in gone \ connected)}
      /\ raced' = (raced \ {l}) \cup {m \in Loaders : InFlight(m) /\ thread[m].at < t.at}
      /\ outrun' = (l \in raced)
      /\ UNCHANGED <<disk, watch, reg, user, late>>

HooksDone(t) == thread[t].close = {} /\ thread[t].retire = {} /\ thread[t].closing = NoPool

(* After its hooks, and only then: the files of the list it read are what is
   watched from now on. *)
LoadWatches(l) ==
  /\ thread[l].pc = "watch"
  /\ HooksDone(l)
  /\ watched' = thread[l].list
  /\ thread' = [thread EXCEPT ![l] = Resting]
  /\ UNCHANGED <<disk, event, dirty, missed, table, reg, user, ghost, late>>

-----------------------------------------------------------------------------
(* Disconnect, and the hooks of both: the registry's Close and Retire. *)

Disconnect(c) ==
  /\ thread[Handler] = Resting
  /\ entries[c] # Gone
  /\ connected' = connected \ {c}
  /\ thread' = [thread EXCEPT ![Handler] = Hooks({c}, {})]
  /\ UNCHANGED <<disk, watch, entries, reg, user, ghost, late>>

(* The next hook to run, disconnect hooks first. *)
Due(t, c) ==
  /\ thread[t].closing = NoPool
  /\ c \in thread[t].close \/ (thread[t].close = {} /\ c \in thread[t].retire)

(* Mutant: the pool that is closed stays in the registry. *)
Take_Keeps(t, c) ==
  /\ Due(t, c)
  /\ rlock = Nobody
  /\ thread' = [thread EXCEPT ![t].close = @ \ {c},
                              ![t].retire = IF c \in thread[t].close THEN @ ELSE @ \ {c},
                              ![t].closing = registry[c],
                              ![t].why = IF registry[c] = NoPool THEN ""
                                         ELSE IF c \in thread[t].close THEN "disconnected" ELSE "credentials"]
  /\ UNCHANGED <<disk, watch, table, reg, user, ghost, late>>

(* Under the registry's lock: the pool leaves the registry, *)
Take(t, c) ==
  /\ Due(t, c)
  /\ rlock = Nobody
  /\ registry' = [registry EXCEPT ![c] = NoPool]
  /\ thread' = [thread EXCEPT ![t].close = @ \ {c},
                              ![t].retire = IF c \in thread[t].close THEN @ ELSE @ \ {c},
                              ![t].closing = registry[c],
                              ![t].why = IF registry[c] = NoPool THEN ""
                                         ELSE IF c \in thread[t].close THEN "disconnected" ELSE "credentials"]
  /\ skipped' = skipped \ {c}
  /\ UNCHANGED <<disk, watch, table, pool, rlock, user, raced, outrun, late>>

(* t has these subscribers left to visit; after the last the hook returns. *)
Closing(t, todo) ==
  thread' = [thread EXCEPT ![t] = IF todo = {} THEN [@ EXCEPT !.closing = NoPool, !.why = "", !.todo = {}]
                                  ELSE [@ EXCEPT !.todo = todo]]

(* under the pool's it is marked closed, and gives out no entry any more; *)
CloseMarks(t) ==
  LET p == thread[t].closing IN
  /\ p # NoPool
  /\ ~pool[p].closed
  /\ Closing(t, {u \in Users : user[u].pc \in {"join", "open"} /\ user[u].pool = p})
  /\ UNCHANGED <<disk, watch, table, registry, rlock, user, ghost, late>>
  /\ Collect([pool EXCEPT ![p].closed = TRUE])

(* and the subscribers that have joined an entry by the time it is looked at
   are ended.  A page told that the credentials changed resubscribes. *)
CloseVisits(t, u) ==
  LET p == thread[t].closing IN
  /\ u \in thread[t].todo
  /\ user' = IF user[u].pc # "open" \/ user[u].pool # p THEN user
             ELSE [user EXCEPT ![u] = IF thread[t].why = "credentials"
                                      THEN [user[u] EXCEPT !.pc = "told", !.pool = NoPool]
                                      ELSE Rest]
  /\ Closing(t, thread[t].todo \ {u})
  /\ UNCHANGED <<disk, watch, table, registry, rlock, ghost, late>>
  /\ Collect(pool)

-----------------------------------------------------------------------------
UserStep(u) ==
  \/ (\E c \in Clusters : user[u].pc = "told" /\ Connect(u, c)) \/ ConnectFails(u)
  \/ ForFound(u) \/ ForReads(u) \/ ForFails(u) \/ ForMakes(u)
  \/ Fetch(u) \/ SubscribeFails(u) \/ Join(u)

ThreadStep(t) ==
  \/ t = Watcher /\ (WatchFires \/ \E f \in Files : WatchSees(f))
  \/ t \in Loaders /\ (LoadCompares(t) \/ LoadSwaps(t) \/ LoadWatches(t))
  \/ \E c \in Clusters : Take(t, c)
  \/ CloseMarks(t) \/ \E u \in Users : CloseVisits(t, u)

Next ==
  \/ \E u \in Users :
       UserStep(u) \/ Unsubscribe(u) \/ \E c \in Clusters : Connect(u, c) \/ Read(u, c)
  \/ \E t \in Threads : ThreadStep(t)
  \/ \E c \in Clusters : Disconnect(c) \/ ConnectOnly(c)
  \/ Save \/ \E f \in Files : Edit(f)

(* What was begun goes on, and the watcher reacts.  Strong, because the lock
   is contended: Go's mutex hands itself to who has waited a millisecond. *)
Fairness ==
  /\ \A u \in Users : WF_vars(UserStep(u))
  /\ \A t \in Threads : SF_vars(ThreadStep(t))

Spec == Init /\ [][Next]_vars /\ Fairness

-----------------------------------------------------------------------------
Busy  == [pc : {"for", "make", "got", "join", "open", "told"}, cluster : Clusters,
          pool : PoolIds \cup {NoPool}]
Doing == [pc : {"idle", "compare", "swap", "watch"}, list : SUBSET Files, at : 0 .. MaxEdits,
          raw : Content, prev : Content,
          close : SUBSET Clusters, retire : SUBSET Clusters,
          closing : PoolIds \cup {NoPool}, why : {"", "disconnected", "credentials"},
          todo : SUBSET Users]

(* Type invariant of the manager, the registry and their users. *)
TypeOK ==
  /\ file \in Content /\ entries \in Content
  /\ readable \in BOOLEAN /\ dirty \in BOOLEAN /\ outrun \in BOOLEAN /\ missed \in BOOLEAN
  /\ listed \subseteq Files /\ watched \subseteq Files /\ event \subseteq Files
  /\ late \subseteq Users /\ raced \subseteq Loaders
  /\ connected \subseteq Clusters /\ skipped \subseteq Clusters
  /\ registry \in [Clusters -> PoolIds \cup {NoPool}]
  /\ pool \in [PoolIds -> [cfg : Configs \cup {Gone}, closed : BOOLEAN]]
  /\ rlock \in Users \cup {Nobody}
  /\ user \in [Users -> [pc : {"idle"}] \cup Busy]
  /\ thread \in [Threads -> Doing]
  /\ edits \in 0 .. MaxEdits

(* A connected cluster is one the manager lists, whichever of two reloads
   comes last: what is connected can be seen and disconnected. *)
ConnectedListed == \A c \in connected : entries[c] # Gone

(* A stream that is open is on a pool a disconnect can still reach, the one
   in the registry or one that is about to be closed, or the pool's Close has
   yet to look at its entry.  A pool in the registry is never a closed one,
   which would refuse every stream from then on.  The exception is `late`. *)
StreamsReachable ==
  /\ \A u \in Users \ late : user[u].pc = "open" =>
       \/ Awaited(u)
       \/ /\ ~pool[user[u].pool].closed
          /\ \/ registry[user[u].cluster] = user[u].pool
             \/ \E t \in Threads : thread[t].closing = user[u].pool
  /\ \A c \in Clusters : registry[c] # NoPool => ~pool[registry[c]].closed

(* The pool a cluster's streams are given is built from the config the
   manager has now, or a hook is about to retire it.  The exceptions are the
   two `skipped` records. *)
CurrentOrRetiring ==
  \A c \in Clusters \ skipped :
    (registry[c] # NoPool /\ pool[registry[c]].cfg # entries[c]) =>
      \E t \in Threads : c \in thread[t].close \cup thread[t].retire

Stale(u) ==
  /\ user[u].pc = "open" /\ u \notin late
  /\ pool[user[u].pool].cfg # entries[user[u].cluster]
  /\ user[u].cluster \notin skipped

(* New credentials reach every stream: one on a pool of the old ones ends. *)
RotationReaches == \A u \in Users : []<>~Stale(u)

(* The table follows the kubeconfigs, unless a Load that had read them
   earlier replaced a newer table, or nobody was watching the file. *)
FollowsFile == []<>(entries = file \/ ~readable \/ outrun \/ missed)

(* Both: what the kubeconfigs say reaches the table, and the streams. *)
Converges == RotationReaches /\ FollowsFile
-----------------------------------------------------------------------------
(* Expectations the code does not meet *)

(* Close "ends every open subscription" (pool.go:253).  A stream between entryFor and
   its entry's lock joins after Close has looked, and stays open on a pool that
   nobody has (`late`). *)
NothingOutlivesItsPool ==
  \A u \in Users : user[u].pc = "open" => ~pool[user[u].pool].closed \/ Awaited(u)

(* Once nobody loads, the watcher reacts to the files that are read.  The Load that
   is last to watch may be one that read the list before the other did. *)
WatchesWhatIsListed ==
  (\A l \in Loaders : thread[l].pc = "idle") => watched = listed

(* A file that changes is read again.  One that changes between a Load's reading of
   it and the watch on it (manager.go:255, 369) is read only at the next reload. *)
EditsAreSeen == ~missed
=============================================================================
