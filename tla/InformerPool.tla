---------------------------- MODULE InformerPool ----------------------------
(***************************************************************************)
(* The lifecycle of a cluster's informer pool (engine/internal/informers/  *)
(* pool.go): entries are made on the first subscription to a key, shared,  *)
(* swept when unused, taken out when RBAC forbids them, and stopped when   *)
(* the pool is closed.  Subscribe, the end of a subscription, the sweeper, *)
(* the informers' error handlers and CloseWithReason run in goroutines of  *)
(* their own, and take the pool's, the entries' and the subscriptions'     *)
(* locks one at a time; a locked section is one step here.                 *)
(*                                                                         *)
(* What flows through an entry is in WatchStream.                          *)
(***************************************************************************)
EXTENDS Naturals, FiniteSets

CONSTANTS
  Keys,        \* group/version/resource, namespace, selector and mode
  Subs,        \* subscriptions
  MaxEntries,  \* bound of the model: entries made
  MaxForbids   \* bound of the model: answers "forbidden" for an entry

ASSUME BoundsNat  == MaxEntries \in Nat /\ MaxForbids \in Nat
ASSUME KeysFinite == IsFiniteSet(Keys)

VARIABLES
  closed,   \* Close was called
  entries,  \* the pool's map: its entries, at most one for a key
  entry,    \* every entry made, in or out of the map
  sub,      \* the subscriptions
  closer,   \* CloseWithReason
  handler   \* the watch error handler of each entry: forbid

vars == <<closed, entries, entry, sub, closer, handler>>

Ids == 1 .. MaxEntries

(* How an entry left the map. *)
Ways == {"swept", "forbidden", "closed"}

(* recent: lastEmptyAt is within evictAfter (the zero time is long ago). *)
Entry == [key : Keys, subs : SUBSET Subs, recent : BOOLEAN, failed : BOOLEAN,
          left : {"no"} \cup Ways, stops : 0 .. 2]

(* A subscription.  late is history: entries it joined after they had left
   the pool. *)
Sub == [pc : {"new", "fetch", "append", "join", "open", "returned"},
        want : SUBSET Keys, expect : Nat, at : {0} \cup Ids, has : SUBSET Ids,
        refused : SUBSET Ids, cancelled : BOOLEAN,
        end : {"no", "leaving", "done"}, leaving : SUBSET Ids, late : SUBSET Ids]

NewSub == [pc |-> "new", want |-> {}, expect |-> 0, at |-> 0, has |-> {}, refused |-> {},
           cancelled |-> FALSE, end |-> "no", leaving |-> {}, late |-> {}]

Resting == [pc |-> "idle", owned |-> FALSE, todo |-> {}, calls |-> 0]

Init ==
  /\ closed = FALSE
  /\ entries = {}
  /\ entry = <<>>
  /\ sub = [s \in Subs |-> NewSub]
  /\ closer = [pc |-> "idle", at |-> 0, left |-> {}, todo |-> {}]
  /\ handler = <<>>

Made == DOMAIN entry

-----------------------------------------------------------------------------
(* end: closeOnce lets one caller in; it copies sub.subs, leaves those
   entries one by one, and then closes the coalescer and `done`. *)

EndBegun(s) == IF sub[s].end # "no" THEN sub
               ELSE [sub EXCEPT ![s].end = "leaving", ![s].leaving = sub[s].has]

Leave(s, e) ==
  /\ e \in sub[s].leaving
  /\ entry' = [entry EXCEPT ![e].subs = @ \ {s},
                            ![e].recent = IF entry[e].subs \subseteq {s} THEN TRUE ELSE @]
  /\ sub' = [sub EXCEPT ![s].leaving = @ \ {e}]
  /\ UNCHANGED <<closed, entries, closer, handler>>

Ended(s) ==
  /\ sub[s].end = "leaving"
  /\ sub[s].leaving = {}
  /\ sub' = [sub EXCEPT ![s].end = "done"]
  /\ UNCHANGED <<closed, entries, entry, closer, handler>>

-----------------------------------------------------------------------------
(* Subscribe. *)

Subscribe(s) ==
  /\ sub[s].pc = "new"
  /\ \E want \in SUBSET Keys \ {{}} :
       sub' = [sub EXCEPT ![s].pc = "fetch", ![s].want = want, ![s].expect = Cardinality(want)]
  /\ UNCHANGED <<closed, entries, entry, closer, handler>>

(* entryFor finds the key's entry or makes one. *)
Fetch(s, k) ==
  /\ sub[s].pc = "fetch"
  /\ k \in sub[s].want
  /\ ~closed
  /\ \/ \E e \in entries :
          /\ entry[e].key = k
          /\ sub' = [sub EXCEPT ![s].pc = "append", ![s].at = e, ![s].want = @ \ {k}]
          /\ UNCHANGED <<entries, entry, handler>>
     \/ LET e == Cardinality(Made) + 1 IN
          /\ e \in Ids
          /\ \A d \in entries : entry[d].key # k
          /\ entries' = entries \cup {e}
          /\ entry' = [d \in Made \cup {e} |->
                         IF d = e THEN [key |-> k, subs |-> {}, recent |-> FALSE, failed |-> FALSE,
                                        left |-> "no", stops |-> 0]
                         ELSE entry[d]]
          /\ handler' = [d \in Made \cup {e} |-> IF d = e THEN Resting ELSE handler[d]]
          /\ sub' = [sub EXCEPT ![s].pc = "append", ![s].at = e, ![s].want = @ \ {k}]
  /\ UNCHANGED <<closed, closer>>

(* entryFor fails: the pool is closed.  The subscription is ended and
   Subscribe returns the error. *)
FetchFails(s) ==
  /\ sub[s].pc = "fetch"
  /\ sub[s].want # {}
  /\ closed
  /\ sub' = [EndBegun(s) EXCEPT ![s].pc = "returned"]
  /\ UNCHANGED <<closed, entries, entry, closer, handler>>

AppendSub(s) ==
  /\ sub[s].pc = "append"
  /\ sub' = [sub EXCEPT ![s].pc = "join", ![s].has = @ \cup {sub[s].at}]
  /\ UNCHANGED <<closed, entries, entry, closer, handler>>

(* Under the entry's lock: in, and has the entry failed? *)
Join(s) ==
  LET e == sub[s].at IN
  /\ sub[s].pc = "join"
  /\ entry' = [entry EXCEPT ![e].subs = @ \cup {s}, ![e].recent = FALSE]
  /\ LET late    == IF e \in entries THEN sub[s].late ELSE sub[s].late \cup {e}
         refused == IF entry[e].failed THEN sub[s].refused \cup {e} ELSE sub[s].refused
         all     == entry[e].failed /\ e \notin sub[s].refused
                      /\ Cardinality(refused) >= sub[s].expect
     IN  sub' = [(IF all THEN EndBegun(s) ELSE sub) EXCEPT
                   ![s].late = late, ![s].refused = refused,
                   ![s].pc = IF all THEN "returned" ELSE "fetch"]
  /\ UNCHANGED <<closed, entries, closer, handler>>

(* Every namespace is joined: the goroutine that waits for the context. *)
Opened(s) ==
  /\ sub[s].pc = "fetch"
  /\ sub[s].want = {}
  /\ sub' = [sub EXCEPT ![s].pc = "open"]
  /\ UNCHANGED <<closed, entries, entry, closer, handler>>

(* The client unsubscribes or its connection ends. *)
Cancel(s) ==
  /\ ~sub[s].cancelled
  /\ sub[s].pc # "new"
  /\ sub' = [sub EXCEPT ![s].cancelled = TRUE]
  /\ UNCHANGED <<closed, entries, entry, closer, handler>>

Unsubscribe(s) ==
  /\ sub[s].pc = "open"
  /\ sub[s].cancelled
  /\ sub' = [EndBegun(s) EXCEPT ![s].pc = "returned"]
  /\ UNCHANGED <<closed, entries, entry, closer, handler>>

-----------------------------------------------------------------------------
(* The sweeper. *)

(* evictAfter has passed since the entry became empty. *)
Age(e) ==
  /\ entry[e].recent
  /\ entry' = [entry EXCEPT ![e].recent = FALSE]
  /\ UNCHANGED <<closed, entries, sub, closer, handler>>

Sweep(e) ==
  /\ ~closed
  /\ e \in entries
  /\ entry[e].subs = {}
  /\ ~entry[e].recent
  /\ entries' = entries \ {e}
  /\ entry' = [entry EXCEPT ![e].left = "swept", ![e].stops = @ + 1]
  /\ UNCHANGED <<closed, sub, closer, handler>>

-----------------------------------------------------------------------------
(* forbid, in the informer's error handler.  Informers retry, so it may be
   called again, and once more while the informer is being stopped. *)

Forbid(e) ==
  /\ handler[e].pc = "idle"
  /\ handler[e].calls < MaxForbids
  /\ handler' = [handler EXCEPT ![e] = [pc |-> "mark", owned |-> e \in entries, todo |-> {},
                                         calls |-> handler[e].calls + 1]]
  /\ entries' = entries \ {e}
  /\ entry' = IF e \in entries THEN [entry EXCEPT ![e].left = "forbidden"] ELSE entry
  /\ UNCHANGED <<closed, sub, closer>>

(* Mutant: the entry is not marked, only the subscribers it has are told. *)
ForbidMark_NotMarking(e) ==
  /\ handler[e].pc = "mark"
  /\ handler' = [handler EXCEPT ![e].pc = "tell", ![e].todo = entry[e].subs]
  /\ UNCHANGED <<closed, entries, entry, sub, closer>>

ForbidMark(e) ==
  /\ handler[e].pc = "mark"
  /\ entry' = [entry EXCEPT ![e].failed = TRUE]
  /\ handler' = [handler EXCEPT ![e].pc = "tell", ![e].todo = entry[e].subs]
  /\ UNCHANGED <<closed, entries, sub, closer>>

(* refuse, and end for a subscriber all of whose namespaces now are. *)
ForbidTell(e, s) ==
  /\ handler[e].pc = "tell"
  /\ s \in handler[e].todo
  /\ LET first == e \notin sub[s].refused
         all   == first /\ Cardinality(sub[s].refused \cup {e}) >= sub[s].expect
     IN  sub' = [(IF all THEN EndBegun(s) ELSE sub) EXCEPT ![s].refused = @ \cup {e}]
  /\ handler' = [handler EXCEPT ![e].todo = @ \ {s}]
  /\ UNCHANGED <<closed, entries, entry, closer>>

(* Mutant: whoever forbids an entry stops it. *)
ForbidStop_Always(e) ==
  /\ handler[e].pc = "tell"
  /\ handler[e].todo = {}
  /\ handler' = [handler EXCEPT ![e].pc = "idle", ![e].owned = FALSE]
  /\ entry' = [entry EXCEPT ![e].stops = @ + 1]
  /\ UNCHANGED <<closed, entries, sub, closer>>

(* Mutant: the entry is stopped if the pool still has it. *)
ForbidStop_IfStillIn(e) ==
  /\ handler[e].pc = "tell"
  /\ handler[e].todo = {}
  /\ handler' = [handler EXCEPT ![e].pc = "idle", ![e].owned = FALSE]
  /\ entry' = IF e \in entries THEN [entry EXCEPT ![e].stops = @ + 1] ELSE entry
  /\ UNCHANGED <<closed, entries, sub, closer>>

(* Whoever takes the entry out of the pool stops it. *)
ForbidStop(e) ==
  /\ handler[e].pc = "tell"
  /\ handler[e].todo = {}
  /\ handler' = [handler EXCEPT ![e].pc = "idle", ![e].owned = FALSE]
  /\ entry' = IF handler[e].owned THEN [entry EXCEPT ![e].stops = @ + 1] ELSE entry
  /\ UNCHANGED <<closed, entries, sub, closer>>

-----------------------------------------------------------------------------
(* CloseWithReason. *)

Close ==
  /\ ~closed
  /\ closed' = TRUE
  /\ entries' = {}
  /\ entry' = [e \in Made |-> IF e \in entries THEN [entry[e] EXCEPT !.left = "closed"] ELSE entry[e]]
  /\ closer' = [pc |-> "next", at |-> 0, left |-> entries, todo |-> {}]
  /\ UNCHANGED <<sub, handler>>

(* The next entry's subscribers, *)
CloseCopy(e) ==
  /\ closer.pc = "next"
  /\ e \in closer.left
  /\ closer' = [pc |-> "end", at |-> e, left |-> closer.left \ {e}, todo |-> entry[e].subs]
  /\ UNCHANGED <<closed, entries, entry, sub, handler>>

(* each ended (and end waited for if another goroutine is in it), *)
CloseEnd(s) ==
  /\ s \in closer.todo
  /\ sub[s].end = "no"
  /\ sub' = EndBegun(s)
  /\ UNCHANGED <<closed, entries, entry, closer, handler>>

CloseEnded(s) ==
  /\ s \in closer.todo
  /\ sub[s].end = "done"
  /\ closer' = [closer EXCEPT !.todo = @ \ {s}]
  /\ UNCHANGED <<closed, entries, entry, sub, handler>>

(* and the entry stopped. *)
CloseStop(e) ==
  /\ closer.pc = "end"
  /\ closer.at = e
  /\ closer.todo = {}
  /\ entry' = [entry EXCEPT ![e].stops = @ + 1]
  /\ closer' = [closer EXCEPT !.pc = "next", !.at = 0]
  /\ UNCHANGED <<closed, entries, sub, handler>>

SubStep(s) ==
  \/ \E k \in Keys : Fetch(s, k)
  \/ FetchFails(s) \/ AppendSub(s) \/ Join(s) \/ Opened(s) \/ Unsubscribe(s)

EndStep(s) == (\E e \in Made : Leave(s, e)) \/ Ended(s)

HandlerStep(e) == ForbidMark(e) \/ (\E s \in Subs : ForbidTell(e, s)) \/ ForbidStop(e)

CloseStep == (\E e \in Made : CloseCopy(e) \/ CloseStop(e)) \/ (\E s \in Subs : CloseEnd(s) \/ CloseEnded(s))

Next ==
  \/ \E s \in Subs : Subscribe(s) \/ SubStep(s) \/ Cancel(s) \/ EndStep(s)
  \/ \E e \in Made : Age(e) \/ Sweep(e) \/ Forbid(e) \/ HandlerStep(e)
  \/ Close \/ CloseStep

(* What was begun is finished, time passes and the sweeper's ticker ticks.
   Nobody has to subscribe, unsubscribe, forbid or close. *)
Fairness ==
  /\ \A s \in Subs : WF_vars(SubStep(s)) /\ WF_vars(EndStep(s))
  /\ \A e \in Ids : WF_vars(e \in Made /\ Age(e)) /\ WF_vars(e \in Made /\ Sweep(e))
                      /\ WF_vars(e \in Made /\ HandlerStep(e))
  /\ WF_vars(CloseStep)

Spec == Init /\ [][Next]_vars /\ Fairness

-----------------------------------------------------------------------------
(* Type invariant of the pool and of the goroutines around it. *)
TypeOK ==
  /\ closed \in BOOLEAN
  /\ entries \subseteq Made
  /\ Made \subseteq Ids /\ entry \in [Made -> Entry]
  /\ sub \in [Subs -> Sub]
  /\ closer \in [pc : {"idle", "next", "end"}, at : {0} \cup Ids,
                  left : SUBSET Ids, todo : SUBSET Subs]
  /\ handler \in [Made -> [pc : {"idle", "mark", "tell"}, owned : BOOLEAN, todo : SUBSET Subs,
                         calls : 0 .. MaxForbids]]

(* An entry's stop channel is closed by the one that took the entry out of
   the pool, once: two goroutines closing it would panic the engine, and
   none would leave its informer watching for ever. *)
StoppedOnce ==
  \A e \in Made :
    /\ entry[e].stops <= 1
    /\ entry[e].stops = 1 => e \notin entries /\ entry[e].left # "no"
    /\ e \notin entries /\ entry[e].stops = 0 =>
         handler[e].owned \/ e \in closer.left \cup {closer.at}

(* Told(s, e): s was told that e gives it nothing any more, or is about to
   be by the handler of e or by Close. *)
Told(s, e) ==
  \/ sub[s].end # "no"
  \/ e \in sub[s].refused
  \/ s \in handler[e].todo \/ handler[e].pc = "mark"
  \/ s \in closer.todo \/ e \in closer.left

(* A subscription never goes silent: when an entry it is in leaves the pool
   it is told, whichever of sweep, forbid, Close and its own end race.  Only
   one that joined the entry after it had left is not, unless the entry had
   failed. *)
NeverSilent ==
  \A e \in Made, s \in Subs :
    (s \in entry[e].subs /\ entry[e].left # "no") =>
      \/ Told(s, e)
      \/ e \in sub[s].late /\ entry[e].left # "forbidden"

(* An entry of an open pool whose subscriptions have all ended has no
   subscriber, so it can be swept: an ended subscription leaves nothing. *)
NothingLeftBehind ==
  \A s \in Subs :
    (sub[s].end = "done" /\ sub[s].pc \in {"open", "returned"}) =>
      \A e \in entries : s \notin entry[e].subs

(* An entry that no live subscription is in any more is stopped in the end,
   by the sweeper, a handler or Close: no watch on the API server is left
   running for nobody. *)
Reclaimed ==
  \A e \in Ids :
    [](e \in Made => <>(e \in Made /\ (entry[e].stops = 1 \/ \E s \in entry[e].subs : sub[s].end # "done")))

(* A subscription whose client is gone ends, also while Close or a refusal
   is in the middle of ending it. *)
EndsWhenCancelled ==
  \A s \in Subs : sub[s].cancelled ~> (sub[s].end = "done")

(* Both: neither a watch nor a subscription outlives its use. *)
WindsDown == Reclaimed /\ EndsWhenCancelled

-----------------------------------------------------------------------------
(* Expectations the code does not meet *)

(* "Close stops every informer in the pool and ends every open subscription,
   whose Deltas channel then closes": once it has returned, with no handler
   in the middle of ending subscriptions and no entry swept, none is open.
   One between entryFor and the entry's lock is missed, and enters an entry
   that is stopped. *)
Quiet == \A e \in Made : handler[e].pc = "idle" /\ entry[e].left # "swept"

CloseEndsAll ==
  (closed /\ closer.pc = "next" /\ closer.left = {} /\ Quiet) =>
    \A s \in Subs : sub[s].pc = "open" => sub[s].end # "no"
=============================================================================
