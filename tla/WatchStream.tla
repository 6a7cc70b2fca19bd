---------------------------- MODULE WatchStream ----------------------------
(***************************************************************************)
(* The data path of one watch subscription, end to end: the informers of   *)
(* its namespaces and their fan-out (engine/internal/informers/pool.go),   *)
(* the merging of the namespaces' snapshots into one, the hub's stream     *)
(* goroutine (stream/hub.go) and the rows the web client keeps             *)
(* (useResourceStream.ts), across denials of a namespace and reconnects.   *)
(*                                                                         *)
(* The coalescer is what Coalescer shows it to be: a queue from which the  *)
(* hub takes batches in order.  The hub is one goroutine and the socket is *)
(* in order, so a frame is handled by the client as it is sent; frames     *)
(* lost with a connection are frames not sent before the reconnect.  The   *)
(* lifecycle of the informers (sweeps, Close) is in InformerPool.          *)
(***************************************************************************)
EXTENDS Naturals, SequencesExt

CONSTANTS
  Namespaces,     \* of the subscription
  Names,          \* namespace |-> the names of its objects
  FanoutCap,      \* capacity of an entry's fanout channel (2048)
  MaxVersion,     \* bound of the model: versions of an object
  MaxReconnects   \* bound of the model: connections lost

ASSUME FanoutCapPos == FanoutCap \in Nat \ {0}
ASSUME BoundsNat    == MaxVersion \in Nat \ {0} /\ MaxReconnects \in Nat

VARIABLES
  live,       \* the objects as the informers' caches have them
  entry,      \* the pool's entry of each namespace
  sub,        \* the subscription
  hub,        \* where the hub's goroutine is: before begin, in the snapshot, after sync
  client,     \* what the web client keeps
  reconnects, \* connections lost so far
  missed,     \* history: keys whose newest event was dropped at a full fanout
  early       \* history: keys of which a change the snapshot lacks went out before it

vars == <<live, entry, sub, hub, client, reconnects, missed, early>>

Of(n)    == {n} \X Names[n]
Keys     == UNION {Of(n) : n \in Namespaces}
Home(k)  == k[1]

(* A version of an object; a deletion is a version too. *)
Row   == [v : 0 .. MaxVersion, there : BOOLEAN]
NoRow == [v |-> 0, there |-> FALSE]
Shown(row) == IF row.there THEN row ELSE NoRow

Op == [key : Keys, row : Row]

Entry == [listed : BOOLEAN, synced : BOOLEAN, failed : BOOLEAN,
          events : Seq(Op), fanout : Seq(Op)]

NewEntry == [listed |-> FALSE, synced |-> FALSE, failed |-> FALSE,
             events |-> <<>>, fanout |-> <<>>]

(* captured holds the rows of the answered namespaces; snapshot is the
   namespaces in the merged snapshot, {} before it is made. *)
Subscription ==
  [at : [Namespaces -> {"none", "fetched", "joined"}], due : SUBSET Namespaces,
   answered : SUBSET Namespaces, refused : SUBSET Namespaces,
   captured : [Keys -> Row], changed : SUBSET Keys,
   snapshot : SUBSET Namespaces, deny : Seq(Namespaces), queue : Seq(Op), ended : BOOLEAN]

NewSubscription ==
  [at |-> [n \in Namespaces |-> "none"], due |-> {}, answered |-> {}, refused |-> {},
   captured |-> [k \in Keys |-> NoRow], changed |-> {},
   snapshot |-> {}, deny |-> <<>>, queue |-> <<>>, ended |-> FALSE]

Rows   == [Keys -> Row]
Client == [store : Rows, buffer : Rows, resync : BOOLEAN, synced : BOOLEAN,
           denied : SUBSET Namespaces]

(* The client starts from what it remembers of an earlier visit, if any. *)
Init ==
  /\ live \in [Keys -> {[v |-> 1, there |-> b] : b \in BOOLEAN}]
  /\ entry = [n \in Namespaces |-> NewEntry]
  /\ sub = NewSubscription
  /\ hub = "wait"
  /\ \E old \in [Keys -> {NoRow, [v |-> 0, there |-> TRUE]}] :
       client = [store |-> old, buffer |-> [k \in Keys |-> NoRow], resync |-> FALSE,
                 synced |-> FALSE, denied |-> {}]
  /\ reconnects = 0
  /\ missed = {}
  /\ early = {}

-----------------------------------------------------------------------------
(* The informers. *)

(* An object changes.  Once its namespace is listed the cache has the change
   first and the handler is told after. *)
Update(k) ==
  /\ live[k].v < MaxVersion
  /\ \E there \in BOOLEAN :
       LET row == [v |-> live[k].v + 1, there |-> there] IN
       /\ live[k].there \/ there
       /\ live' = [live EXCEPT ![k] = row]
       /\ entry' = IF entry[Home(k)].listed /\ ~entry[Home(k)].failed
                   THEN [entry EXCEPT ![Home(k)].events = Append(@, [key |-> k, row |-> row])]
                   ELSE entry
  /\ sub' = [sub EXCEPT !.changed = @ \cup {k}]
  /\ UNCHANGED <<hub, client, reconnects, missed, early>>

(* The initial list is in the cache; it is not handed out as events. *)
List(n) ==
  /\ ~entry[n].listed
  /\ ~entry[n].failed
  /\ entry' = [entry EXCEPT ![n].listed = TRUE]
  /\ UNCHANGED <<live, sub, hub, client, reconnects, missed, early>>

(* The goroutine that waits for the sync: the subscribers it finds are to
   get the snapshot. *)
Sync(n) ==
  /\ entry[n].listed
  /\ ~entry[n].synced
  /\ ~entry[n].failed
  /\ entry' = [entry EXCEPT ![n].synced = TRUE]
  /\ sub' = IF sub.at[n] = "joined" /\ ~sub.ended THEN [sub EXCEPT !.due = @ \cup {n}] ELSE sub
  /\ UNCHANGED <<live, hub, client, reconnects, missed, early>>

(* The handler: a full fanout drops the op. *)
Emit(n) ==
  LET op == Head(entry[n].events) IN
  /\ entry[n].events # <<>>
  /\ IF Len(entry[n].fanout) < FanoutCap
       THEN /\ entry' = [entry EXCEPT ![n].events = Tail(@), ![n].fanout = Append(@, op)]
            /\ missed' = missed \ {op.key}
       ELSE /\ entry' = [entry EXCEPT ![n].events = Tail(@)]
            /\ missed' = missed \cup {op.key}
  /\ UNCHANGED <<live, sub, hub, client, reconnects, early>>

(* Mutant: a subscription is fed only once its snapshot is made. *)
Drain_AfterSnapshot(n) ==
  /\ entry[n].fanout # <<>>
  /\ entry' = [entry EXCEPT ![n].fanout = Tail(@)]
  /\ sub' = IF sub.at[n] = "joined" /\ sub.snapshot # {} /\ ~sub.ended
            THEN [sub EXCEPT !.queue = Append(@, Head(entry[n].fanout))] ELSE sub
  /\ UNCHANGED <<live, hub, client, reconnects, missed, early>>

(* drainFanout pushes to the subscribers of the moment. *)
Drain(n) ==
  /\ entry[n].fanout # <<>>
  /\ entry' = [entry EXCEPT ![n].fanout = Tail(@)]
  /\ sub' = IF sub.at[n] = "joined" /\ ~sub.ended
            THEN [sub EXCEPT !.queue = Append(@, Head(entry[n].fanout))] ELSE sub
  /\ UNCHANGED <<live, hub, client, reconnects, missed, early>>

-----------------------------------------------------------------------------
(* Subscribe, and the answers of the namespaces. *)

(* mergedLocked and sendSnapshot: every namespace has answered or is
   refused, one at least has answered, and it has not gone out yet. *)
Merged(s) ==
  IF s.snapshot = {} /\ s.answered \cup s.refused = Namespaces /\ s.answered # {}
  THEN [s EXCEPT !.snapshot = s.answered] ELSE s

(* Mutant: a refusal does not count as an answer of its namespace. *)
Refused_NotMerging(s, n) ==
  IF n \in s.refused THEN s
  ELSE LET r == [s EXCEPT !.refused = @ \cup {n}, !.answered = @ \ {n}] IN
       IF r.refused = Namespaces THEN [r EXCEPT !.ended = TRUE]
       ELSE [r EXCEPT !.deny = Append(@, n)]

(* refuse, and the end of a subscription all of whose namespaces are. *)
Refused(s, n) ==
  IF n \in s.refused THEN s
  ELSE LET r == [s EXCEPT !.refused = @ \cup {n}, !.answered = @ \ {n}] IN
       IF r.refused = Namespaces THEN [r EXCEPT !.ended = TRUE]
       ELSE Merged([r EXCEPT !.deny = Append(@, n)])

(* entryFor: one namespace after the other. *)
Fetch(n) ==
  /\ ~sub.ended
  /\ sub.at[n] = "none"
  /\ \A m \in Namespaces : sub.at[m] # "fetched"
  /\ sub' = [sub EXCEPT !.at[n] = "fetched"]
  /\ UNCHANGED <<live, entry, hub, client, reconnects, missed, early>>

(* The subscription enters e.subs and, under the same lock, sees whether the
   entry has failed or has synced. *)
Join(n) ==
  /\ sub.at[n] = "fetched"
  /\ LET joined == [sub EXCEPT !.at[n] = "joined"] IN
       sub' = IF entry[n].failed THEN Refused(joined, n)
              ELSE IF entry[n].synced THEN [joined EXCEPT !.due = @ \cup {n}]
              ELSE joined
  /\ UNCHANGED <<live, entry, hub, client, reconnects, missed, early>>

(* deliverSnapshot and offer: the cache as it is now is the answer, unless
   the namespace has answered or was refused. *)
Offer(n) ==
  /\ n \in sub.due
  /\ LET s == [sub EXCEPT !.due = @ \ {n}] IN
       sub' = IF n \in s.answered \cup s.refused THEN s
              ELSE Merged([s EXCEPT !.answered = @ \cup {n},
                                    !.captured = [k \in Keys |-> IF Home(k) = n THEN live[k] ELSE @[k]],
                                    !.changed = @ \ Of(n)])
  /\ UNCHANGED <<live, entry, hub, client, reconnects, missed, early>>

(* forbid: RBAC refuses the list or the watch.  The entry has left the pool;
   events on their way still come. *)
Forbid(n) ==
  /\ ~entry[n].failed
  /\ entry' = [entry EXCEPT ![n].failed = TRUE]
  /\ sub' = IF sub.at[n] = "joined" /\ ~sub.ended THEN Refused(sub, n) ELSE sub
  /\ UNCHANGED <<live, hub, client, reconnects, missed, early>>

-----------------------------------------------------------------------------
(* The hub's goroutine, each frame handled by the client.  In select it may
   take whatever is ready. *)

Selecting == hub \in {"wait", "live"}

Begin ==
  /\ hub = "wait"
  /\ sub.snapshot # {}
  /\ hub' = "begun"
  /\ client' = [client EXCEPT !.buffer = [k \in Keys |-> NoRow], !.resync = TRUE, !.synced = FALSE]
  /\ UNCHANGED <<live, entry, sub, reconnects, missed, early>>

Items ==
  /\ hub = "begun"
  /\ hub' = "filled"
  /\ client' = [client EXCEPT !.buffer =
                  [k \in Keys |-> IF Home(k) \in sub.snapshot THEN Shown(sub.captured[k]) ELSE @[k]]]
  /\ UNCHANGED <<live, entry, sub, reconnects, missed, early>>

(* Mutant: the snapshot is merged into the rows. *)
SyncFrame_Merges ==
  /\ hub = "filled"
  /\ hub' = "live"
  /\ client' = [client EXCEPT !.store = [k \in Keys |-> IF client.buffer[k] = NoRow THEN @[k] ELSE client.buffer[k]],
                              !.resync = FALSE, !.synced = TRUE]
  /\ UNCHANGED <<live, entry, sub, reconnects, missed, early>>

SyncFrame ==
  /\ hub = "filled"
  /\ hub' = "live"
  /\ client' = [client EXCEPT !.store = client.buffer, !.resync = FALSE, !.synced = TRUE]
  /\ UNCHANGED <<live, entry, sub, reconnects, missed, early>>

(* Some op of ops is k's, and the row the last of those has. *)
Has(ops, k)    == \E i \in DOMAIN ops : ops[i].key = k
Newest(ops, k) == ops[CHOOSE i \in DOMAIN ops :
                        ops[i].key = k /\ \A j \in DOMAIN ops : ops[j].key = k => j <= i].row

(* The client's rows after the ops, in order. *)
Applied(rows, ops) ==
  [k \in Keys |-> IF Has(ops, k) THEN Shown(Newest(ops, k)) ELSE rows[k]]

(* A batch.  Before the sync one that starts with an add is an items frame:
   it goes to the buffer of an interrupted resync if there is one. *)
SendDelta ==
  /\ Selecting
  /\ \E i \in DOMAIN sub.queue :
       LET batch == SubSeq(sub.queue, 1, i)
           keys  == {batch[j].key : j \in DOMAIN batch}
       IN  /\ sub' = [sub EXCEPT !.queue = SubSeq(@, i + 1, Len(@))]
           /\ \/ client' = [client EXCEPT !.store = Applied(@, batch)]
              \/ /\ hub = "wait" /\ client.resync /\ batch[1].row.there
                 /\ client' = [client EXCEPT !.buffer = Applied(@, batch)]
           /\ early' = IF hub = "live" THEN early \ keys
                       ELSE early \cup {k \in keys \cap sub.changed : Home(k) \in sub.answered}
  /\ UNCHANGED <<live, entry, hub, reconnects, missed>>

Without(rows, n) == [k \in Keys |-> IF Home(k) = n THEN NoRow ELSE rows[k]]

SendDenied ==
  /\ Selecting
  /\ sub.deny # <<>>
  /\ LET n == Head(sub.deny) IN
       client' = [client EXCEPT !.store = Without(@, n), !.buffer = Without(@, n),
                                !.denied = @ \cup {n}]
  /\ sub' = [sub EXCEPT !.deny = Tail(@)]
  /\ UNCHANGED <<live, entry, hub, reconnects, missed, early>>

(* Deltas is closed: the error frame, and the client's "forbidden".  What the
   coalescer still held may have been dropped. *)
SendForbidden ==
  /\ Selecting
  /\ sub.ended
  /\ hub' = "done"
  /\ client' = [client EXCEPT !.synced = FALSE]
  /\ UNCHANGED <<live, entry, sub, reconnects, missed, early>>

(* The connection breaks and comes back: the client keeps its rows and
   subscribes anew.  An entry that failed has left the pool, so the new
   subscription lists afresh. *)
Reconnect ==
  /\ reconnects < MaxReconnects
  /\ reconnects' = reconnects + 1
  /\ entry' = [n \in Namespaces |-> IF entry[n].failed THEN NewEntry ELSE entry[n]]
  /\ missed' = {k \in missed : ~entry[Home(k)].failed}
  /\ sub' = NewSubscription
  /\ hub' = "wait"
  /\ client' = [client EXCEPT !.synced = FALSE, !.denied = {}]
  /\ early' = {}
  /\ UNCHANGED live

Next ==
  \/ \E k \in Keys : Update(k)
  \/ \E n \in Namespaces :
       \/ List(n) \/ Sync(n) \/ Emit(n) \/ Drain(n)
       \/ Fetch(n) \/ Join(n) \/ Offer(n) \/ Forbid(n)
  \/ Begin \/ Items \/ SyncFrame \/ SendDelta \/ SendDenied \/ SendForbidden
  \/ Reconnect

(* Goroutines run, and a list the API server neither answers nor forbids is
   retried until it does.  select is fair among the channels that stay
   ready. *)
Fairness ==
  /\ \A n \in Namespaces :
       /\ WF_vars(List(n)) /\ WF_vars(Sync(n)) /\ WF_vars(Emit(n)) /\ WF_vars(Drain(n))
       /\ WF_vars(Fetch(n)) /\ WF_vars(Join(n)) /\ WF_vars(Offer(n))
  /\ WF_vars(Begin) /\ WF_vars(Items) /\ WF_vars(SyncFrame)
  /\ WF_vars(SendDelta) /\ WF_vars(SendDenied) /\ WF_vars(SendForbidden)

Spec == Init /\ [][Next]_vars /\ Fairness

-----------------------------------------------------------------------------
(* Type invariant; a fanout never holds more than its capacity. *)
TypeOK ==
  /\ live \in Rows
  /\ entry \in [Namespaces -> Entry]
  /\ \A n \in Namespaces : Len(entry[n].fanout) <= FanoutCap
  /\ sub \in Subscription
  /\ hub \in {"wait", "begun", "filled", "live", "done"}
  /\ client \in Client
  /\ reconnects \in 0 .. MaxReconnects
  /\ missed \subseteq Keys /\ early \subseteq Keys

(* The events of k's namespace that are still to reach the client, oldest first. *)
OnTheWay(k) == sub.queue \o entry[Home(k)].fanout \o entry[Home(k)].events

(* The client's row of k, or the one it is about to be given. *)
Held(k) == IF hub = "live" THEN client.store[k] ELSE Shown(sub.captured[k])

(* A row goes stale in two ways only: its newest event was dropped at a full
   fanout, or it was delivered before the snapshot that lacks it.  Otherwise
   the client has the object as it is, or an event that says so is on its
   way, across every order of sync, join, capture, merge, denial and
   reconnect. *)
StaleOnlyWhereKnown ==
  \A k \in Keys :
    (Home(k) \in sub.answered /\ k \notin missed /\ ~entry[Home(k)].failed) =>
      IF Has(OnTheWay(k), k) THEN Newest(OnTheWay(k), k) = live[k]
      ELSE k \in early \/ Held(k) = Shown(live[k])

(* One snapshot carries every namespace of the subscription but those
   refused, and a subscription with an answer from or about each of them
   has made it: the page never waits on a namespace that was refused. *)
OneWholeSnapshot ==
  /\ sub.snapshot # {} => sub.snapshot \cup sub.refused = Namespaces
  /\ (sub.answered \cup sub.refused = Namespaces /\ sub.answered # {}) => sub.snapshot # {}

(* A subscriber is answered: it is synced, or told that everything is
   forbidden. *)
Answered == <>[](client.synced \/ hub = "done")

(* In the end the rows of the namespaces that are not refused are the
   cluster's, but for the known losses. *)
SettlesOnTruth ==
  <>[](\A k \in Keys :
         hub = "live" /\ ~entry[Home(k)].failed /\ k \notin missed \cup early =>
           client.store[k] = Shown(live[k]))

-----------------------------------------------------------------------------
(* Expectations the code does not meet *)

(* "on subscribe, engine dumps current Indexer contents then flips to live
   deltas ... no gap": with nothing on its way and no drop, a synced client
   has the cluster's rows.  A delta taken before the snapshot is overwritten
   by it. *)
AtRest == \A k \in Keys : ~Has(OnTheWay(k), k)

NoGap ==
  (client.synced /\ AtRest) =>
    \A k \in Keys : (~entry[Home(k)].failed /\ k \notin missed) => client.store[k] = Shown(live[k])

(* "the client drops the refused namespace's rows": it does, but a delta or
   the snapshot that was already on its way brings some back. *)
DeniedRowsGone ==
  \A k \in Keys : Home(k) \in client.denied => client.store[k] = NoRow
=============================================================================
