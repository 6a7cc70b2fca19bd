----------------------------- MODULE Coalescer -----------------------------
(***************************************************************************)
(* The delta coalescer of one watch subscription (engine/internal/stream/  *)
(* coalescer.go) with the goroutines around it: the informers' fan-out     *)
(* goroutines that Push, the Run goroutine that flushes what was pushed    *)
(* once per interval into the bounded channel `out`, the hub's stream      *)
(* goroutine that receives batches and hands them to the client, and       *)
(* whoever closes it.                                                      *)
(*                                                                         *)
(* Push is three steps, because the closed check and the kick are outside  *)
(* the lock.  Locked sections are one step each.                           *)
(***************************************************************************)
EXTENDS Integers, Sequences, FiniteSets

CONSTANTS
  Keys,       \* object keys
  Vals,       \* object contents
  Absent,     \* no such row
  Pushers,    \* fan-out goroutines, one for each informer of the subscription
  OutCap,     \* capacity of `out` (64 in the code)
  MaxPushes   \* bound of the model: how many ops are pushed

ASSUME AbsentIsNoVal == Absent \notin Vals
ASSUME OutCapPos     == OutCap \in Nat \ {0}
ASSUME MaxPushesNat  == MaxPushes \in Nat

VARIABLES
  pending,    \* ops gathered since the last flush
  index,      \* key -> its position in pending
  kick,       \* the one-slot kick channel holds a value
  armed,      \* the flush timer is running (or has fired and is not yet read)
  closed,     \* Close was called
  run,        \* where the Run goroutine is
  held,       \* the batch flush is sending
  out,        \* the channel of batches
  outClosed,  \* Run closed `out`
  pusher,     \* what each pusher is doing
  listening,  \* the hub's stream goroutine still receives
  view,       \* the client's rows
  fed,        \* history: the rows the pushed ops amount to, in lock order
  pushes      \* history: how many ops were pushed

mem   == <<pending, index>>
loop  == <<run, held>>
ghost == <<fed, pushes>>
vars  == <<pending, index, kick, armed, closed, run, held, out, outClosed,
           pusher, listening, view, fed, pushes>>

OpAdd    == "a"
OpModify == "m"
OpDelete == "d"

(* A delete carries the object's last content, which nobody reads. *)
Op == {o \in [op : {OpAdd, OpModify, OpDelete}, key : Keys, obj : Vals \cup {Absent}] :
         o.op = OpDelete <=> o.obj = Absent}

Rows  == [Keys -> Vals \cup {Absent}]
Empty == [k \in Keys |-> Absent]

(* What the client holds for a key once it has applied op. *)
Result(op) == IF op.op = OpDelete THEN Absent ELSE op.obj

(* The client's rows after a batch, its ops applied in order: for each key
   its last op counts. *)
Apply(rows, ops) ==
  [k \in Keys |->
     LET at == {i \in DOMAIN ops : ops[i].key = k}
     IN  IF at = {} THEN rows[k]
         ELSE Result(ops[CHOOSE i \in at : \A j \in at : j <= i])]

(* A batch in the channel.  `at` is history: fed when the batch was taken. *)
Batch == [ops : Seq(Op), at : Rows]

NoBatch == [ops |-> <<>>, at |-> Empty]
Idle    == [pc |-> "idle"]

Init ==
  /\ pending = <<>>
  /\ index = <<>>
  /\ kick = FALSE
  /\ armed = FALSE
  /\ closed = FALSE
  /\ run = "select"
  /\ held = NoBatch
  /\ out = <<>>
  /\ outClosed = FALSE
  /\ pusher = [p \in Pushers |-> Idle]
  /\ listening = TRUE
  /\ view = Empty
  /\ fed = Empty
  /\ pushes = 0

-----------------------------------------------------------------------------
(* Push. *)

PushCheck(p) ==
  /\ pusher[p].pc = "idle"
  /\ ~closed
  /\ pushes < MaxPushes
  /\ \E op \in Op : pusher' = [pusher EXCEPT ![p] = [pc |-> "lock", op |-> op]]
  /\ pushes' = pushes + 1
  /\ UNCHANGED <<mem, kick, armed, closed, loop, out, outClosed, listening, view, fed>>

(* Mutant: the first pending op for a key wins. *)
Replacing_FirstWins(op) ==
  /\ op.key \in DOMAIN index
  /\ UNCHANGED mem

(* An op on a key already pending takes that op's place, as a modify unless
   it is a delete. *)
Replacing(op) ==
  /\ op.key \in DOMAIN index
  /\ pending' = [pending EXCEPT ![index[op.key]] =
                   IF op.op = OpDelete THEN op ELSE [op EXCEPT !.op = OpModify]]
  /\ UNCHANGED index

Appending(op) ==
  /\ op.key \notin DOMAIN index
  /\ index' = [k \in DOMAIN index \cup {op.key} |->
                 IF k = op.key THEN Len(pending) + 1 ELSE index[k]]
  /\ pending' = Append(pending, op)

(* Mutant: `first` is read after the append, as if the length were still
   the old one. *)
PushLocked_LateFirst(p) ==
  /\ pusher[p].pc = "lock"
  /\ LET op == pusher[p].op IN
       /\ Replacing(op) \/ Appending(op)
       /\ fed' = [fed EXCEPT ![op.key] = Result(op)]
  /\ pusher' = [pusher EXCEPT ![p] = IF Len(pending') = 0 THEN [pc |-> "kick"] ELSE Idle]
  /\ UNCHANGED <<kick, armed, closed, loop, out, outClosed, listening, view, pushes>>

PushLocked(p) ==
  /\ pusher[p].pc = "lock"
  /\ LET op == pusher[p].op IN
       /\ Replacing(op) \/ Appending(op)
       /\ fed' = [fed EXCEPT ![op.key] = Result(op)]
  /\ pusher' = [pusher EXCEPT ![p] = IF pending = <<>> THEN [pc |-> "kick"] ELSE Idle]
  /\ UNCHANGED <<kick, armed, closed, loop, out, outClosed, listening, view, pushes>>

PushKick(p) ==
  /\ pusher[p].pc = "kick"
  /\ kick' = TRUE
  /\ pusher' = [pusher EXCEPT ![p] = Idle]
  /\ UNCHANGED <<mem, armed, closed, loop, out, outClosed, listening, view, ghost>>

-----------------------------------------------------------------------------
(* Run and flush. *)

(* Mutant: a kick received while Run is not armed is forgotten. *)
RunKick_NotArming ==
  /\ run = "select"
  /\ kick
  /\ kick' = FALSE
  /\ UNCHANGED <<mem, armed, closed, loop, out, outClosed, pusher, listening, view, ghost>>

RunKick ==
  /\ run = "select"
  /\ kick
  /\ kick' = FALSE
  /\ armed' = TRUE
  /\ UNCHANGED <<mem, closed, loop, out, outClosed, pusher, listening, view, ghost>>

RunTimer ==
  /\ run = "select"
  /\ armed
  /\ armed' = FALSE
  /\ run' = "flush"
  /\ UNCHANGED <<mem, kick, closed, held, out, outClosed, pusher, listening, view, ghost>>

RunClosed ==
  /\ run = "select"
  /\ closed
  /\ run' = "lastFlush"
  /\ UNCHANGED <<mem, kick, armed, closed, held, out, outClosed, pusher, listening, view, ghost>>

(* Where Run goes once flush returns. *)
AfterFlush == IF run \in {"lastFlush", "lastSend"} THEN "close" ELSE "select"

FlushEmpty ==
  /\ run \in {"flush", "lastFlush"}
  /\ pending = <<>>
  /\ run' = AfterFlush
  /\ UNCHANGED <<mem, kick, armed, closed, held, out, outClosed, pusher, listening, view, ghost>>

FlushTake ==
  /\ run \in {"flush", "lastFlush"}
  /\ pending # <<>>
  /\ held' = [ops |-> pending, at |-> fed]
  /\ pending' = <<>>
  /\ index' = <<>>
  /\ run' = IF run = "flush" THEN "send" ELSE "lastSend"
  /\ UNCHANGED <<kick, armed, closed, out, outClosed, pusher, listening, view, ghost>>

FlushSend ==
  /\ run \in {"send", "lastSend"}
  /\ Len(out) < OutCap
  /\ out' = Append(out, held)
  /\ held' = NoBatch
  /\ run' = AfterFlush
  /\ UNCHANGED <<mem, kick, armed, closed, outClosed, pusher, listening, view, ghost>>

(* Mutant: a full channel drops the batch. *)
FlushDrop_WhenFull ==
  /\ run \in {"send", "lastSend"}
  /\ closed \/ Len(out) = OutCap
  /\ held' = NoBatch
  /\ run' = AfterFlush
  /\ UNCHANGED <<mem, kick, armed, closed, out, outClosed, pusher, listening, view, ghost>>

(* The other arm of flush's select: once closed, the batch may be dropped
   even if `out` has room. *)
FlushDrop ==
  /\ run \in {"send", "lastSend"}
  /\ closed
  /\ held' = NoBatch
  /\ run' = AfterFlush
  /\ UNCHANGED <<mem, kick, armed, closed, out, outClosed, pusher, listening, view, ghost>>

RunReturn ==
  /\ run = "close"
  /\ outClosed' = TRUE
  /\ run' = "done"
  /\ UNCHANGED <<mem, kick, armed, closed, held, out, pusher, listening, view, ghost>>

Run == RunKick \/ RunTimer \/ RunClosed \/ FlushEmpty \/ FlushTake
         \/ FlushSend \/ FlushDrop \/ RunReturn

-----------------------------------------------------------------------------
(* Whoever ends the subscription (once: Subscription.closeOnce), and the
   hub's stream goroutine. *)

Close ==
  /\ ~closed
  /\ closed' = TRUE
  /\ UNCHANGED <<mem, kick, armed, loop, out, outClosed, pusher, listening, view, ghost>>

Receive ==
  /\ listening
  /\ out # <<>>
  /\ view' = Apply(view, Head(out).ops)
  /\ out' = Tail(out)
  /\ UNCHANGED <<mem, kick, armed, closed, loop, outClosed, pusher, listening, ghost>>

(* The client unsubscribed or its connection broke, or `out` is closed and
   drained. *)
StopListening ==
  /\ listening
  /\ listening' = FALSE
  /\ UNCHANGED <<mem, kick, armed, closed, loop, out, outClosed, pusher, view, ghost>>

Next ==
  \/ \E p \in Pushers : PushCheck(p) \/ PushLocked(p) \/ PushKick(p)
  \/ Run
  \/ Close
  \/ Receive
  \/ StopListening

(* Goroutines run.  Nobody has to push, nor to close a subscription that is
   still listened to; one nobody listens to is closed, because the context
   whose end stops the hub's goroutine also runs Pool.unsubscribe. *)
Fairness ==
  /\ \A p \in Pushers : WF_vars(PushLocked(p)) /\ WF_vars(PushKick(p))
  /\ WF_vars(Run)
  /\ WF_vars(Receive)
  /\ WF_vars(~listening /\ Close)

Spec == Init /\ [][Next]_vars /\ Fairness

-----------------------------------------------------------------------------
(* Type invariant of the coalescer and of the goroutines around it. *)
TypeOK ==
  /\ pending \in Seq(Op)
  /\ index \in [DOMAIN index -> Nat] /\ DOMAIN index \subseteq Keys
  /\ kick \in BOOLEAN /\ armed \in BOOLEAN
  /\ closed \in BOOLEAN /\ outClosed \in BOOLEAN /\ listening \in BOOLEAN
  /\ run \in {"select", "flush", "send", "lastFlush", "lastSend", "close", "done"}
  /\ held \in Batch
  /\ out \in Seq(Batch)
  /\ pusher \in [Pushers -> [pc : {"idle", "kick"}] \cup [pc : {"lock"}, op : Op]]
  /\ view \in Rows
  /\ fed \in Rows
  /\ pushes \in Nat

(* `index` is exactly the position of each pending key, so a batch has one
   op for a key: what keeps a flood of changes to one object one op. *)
IndexExact ==
  /\ DOMAIN index = {pending[i].key : i \in DOMAIN pending}
  /\ \A i \in DOMAIN pending : index[pending[i].key] = i

(* Ops waiting to be flushed always have somebody on the way to flush them:
   a pusher about to kick, a kick, a running timer, or Run at a flush.  A
   lost wakeup would leave them until the next push. *)
NoLostWakeup ==
  (pending # <<>> /\ ~closed) =>
    \/ \E p \in Pushers : pusher[p].pc = "kick"
    \/ kick
    \/ armed
    \/ run = "flush"

(* The rows the client ends up with from the batches on their way. *)
Ahead == IF run \in {"send", "lastSend"} THEN held.at
         ELSE IF out # <<>> THEN out[Len(out)].at
         ELSE view

(* Until it is closed the stream loses nothing: the client's rows, the
   batches in the channel, the one being sent and the pending ops add up to
   every op pushed, in order. *)
NothingLost ==
  ~closed =>
    /\ \A i \in DOMAIN out :
         out[i].at = Apply(IF i = 1 THEN view ELSE out[i - 1].at, out[i].ops)
    /\ run = "send" =>
         held.at = Apply(IF out = <<>> THEN view ELSE out[Len(out)].at, held.ops)
    /\ fed = Apply(Ahead, pending)

(* Once closed, Run returns and closes `out`, whether or not anybody still
   reads it: neither the goroutine nor its reader is left behind. *)
RunEnds == closed ~> (run = "done" /\ outClosed)

(* The client's rows are always a state the pushed ops went through, taken
   in order, until the stream is closed. *)
States ==
  [i \in 1 .. Len(out) |-> out[i].at]
    \o (IF run \in {"send", "lastSend"} THEN <<held.at>> ELSE <<>>)

R == INSTANCE Replica WITH
       source <- fed, replica <- view, inflight <- States, ending <- closed

ReplicaSpec == R!Spec

(* The client catches up with what was pushed: no op stays undelivered in a
   subscription that is open and listened to. *)
CatchesUp == []<>(view = fed \/ closed \/ ~listening)

(* Both: the coalescer neither lags for ever nor outlives its stream. *)
Progresses == CatchesUp /\ RunEnds
=============================================================================
